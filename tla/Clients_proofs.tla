---------------------------- MODULE Clients_proofs ----------------------------
(***************************************************************************)
(* Proofs about what a client has of a query: the table of its results     *)
(* (ResultsHandler), whose rows match the header because both are walks of *)
(* one tree, its cursors (QueryCursor), of which at most one holds a       *)
(* query, whatever is thrown, and its keys (QueryKeys), trees of blocks    *)
(* that each have one owner, wherever an allocation fails, and whose cells *)
(* fit the links they are given while none does.                           *)
(***************************************************************************)
EXTENDS QueryCursor, ResultsHandler, QueryKeys, FiniteSetTheorems, SequenceTheorems, WellFoundedInduction,
        TLAPS

(* Every set of natural numbers that is not empty has a least element.     *)
LEMMA LeastElement ==
  ASSUME NEW T, T \subseteq Nat, T # {}
  PROVE  \E m \in T : \A k \in T : m <= k
<1> DEFINE R == OpToRel(<, Nat)
<1>1. IsWellFoundedOn(R, Nat)
  BY NatLessThanWellFounded
<1>2. \A a, b \in Nat : a < b => <<a, b>> \in R
  BY DEF OpToRel
<1> HIDE DEF R
<1>3. PICK m \in T : \A k \in T : ~(<<k, m>> \in R)
  BY <1>1, WFMin
<1>4. \A k \in T : k \in Nat /\ m \in Nat /\ ~(k < m)
  BY <1>2, <1>3
<1> QED
  BY <1>3, <1>4

-----------------------------------------------------------------------------
(* The loop of FlattenSeq, up to the n-th sequence.                        *)
Flattens(s, n, f) == f = [i \in 1..n |-> IF i = 1 THEN s[i] ELSE f[i - 1] \o s[i]]

(* The loop has values up to any length.                                   *)
LEMMA FlattensExist ==
  ASSUME NEW s
  PROVE  \A n \in Nat : \E f : Flattens(s, n, f)
<1> DEFINE T == {n \in Nat : ~\E f : Flattens(s, n, f)}
<1> SUFFICES ASSUME T # {} PROVE FALSE
  OBVIOUS
<1>1. PICK m \in T : \A k \in T : m <= k
  BY LeastElement
<1>2. CASE m = 0
  <2>1. Flattens(s, 0, [i \in 1..0 |-> IF i = 1 THEN s[i] ELSE s[i] \o s[i]])
    BY DEF Flattens
  <2> QED
    BY <1>1, <1>2, <2>1
<1>3. CASE m # 0
  <2>1. m \in Nat /\ m - 1 \in Nat /\ m - 1 \notin T
    BY <1>1, <1>3
  <2>2. PICK f : Flattens(s, m - 1, f)
    BY <2>1
  <2>3. \A i \in 1..(m - 1) : f[i] = IF i = 1 THEN s[i] ELSE f[i - 1] \o s[i]
    BY <2>2 DEF Flattens
  <2> DEFINE g == [i \in 1..m |-> IF i < m THEN f[i]
                                  ELSE IF i = 1 THEN s[i] ELSE f[i - 1] \o s[i]]
  <2>4. \A i \in 1..m : g[i] = IF i = 1 THEN s[i] ELSE g[i - 1] \o s[i]
    <3>1. TAKE i \in 1..m
    <3>2. CASE i < m
      <4>1. i \in 1..(m - 1) /\ g[i] = f[i]
        BY <2>1, <3>2
      <4>2. i # 1 => i - 1 \in 1..m /\ i - 1 < m /\ g[i - 1] = f[i - 1]
        BY <2>1, <3>2
      <4> QED
        BY <2>3, <4>1, <4>2
    <3>3. CASE i = m
      <4>2. i # 1 => i - 1 \in 1..m /\ i - 1 < m /\ g[i - 1] = f[i - 1]
        BY <2>1, <3>3
      <4> QED
        BY <3>3, <4>2
    <3> QED
      BY <2>1, <3>2, <3>3
  <2>5. g = [i \in 1..m |-> IF i = 1 THEN s[i] ELSE g[i - 1] \o s[i]]
    <3> DEFINE h == [i \in 1..m |-> IF i = 1 THEN s[i] ELSE g[i - 1] \o s[i]]
    <3>1. \A i \in 1..m : g[i] = h[i]
      BY <2>4
    <3>2. DOMAIN g = 1..m /\ DOMAIN h = 1..m /\ g = [i \in DOMAIN g |-> g[i]]
          /\ h = [i \in DOMAIN h |-> h[i]]
      OBVIOUS
    <3> HIDE DEF g, h
    <3>3. g = h
      BY <3>1, <3>2
    <3> QED
      BY <3>3 DEF h
  <2> QED
    BY <1>1, <2>5 DEF Flattens
<1> QED
  BY <1>2, <1>3

(* FlattenSeq is the last value of the loop.                               *)
LEMMA FlattenSeqIs ==
  ASSUME NEW s, NEW n \in Nat \ {0}, Len(s) = n
  PROVE  \E f : Flattens(s, n, f) /\ FlattenSeq(s) = f[n]
<1> DEFINE f == CHOOSE f : Flattens(s, n, f)
<1>1. Flattens(s, n, f)
  BY FlattensExist
<1>2. FlattenSeq(s) = f[n]
  BY DEF FlattenSeq, Flattens
<1> HIDE DEF f
<1> QED
  BY <1>1, <1>2

(* What a concatenation consists of.                                       *)
LEMMA RangeOfConcat ==
  ASSUME NEW C, NEW s \in Seq(C), NEW t \in Seq(C)
  PROVE  s \o t \in Seq(C) /\ Range(s \o t) = Range(s) \cup Range(t)
<1>1. /\ s \o t \in Seq(C) /\ Len(s \o t) = Len(s) + Len(t)
      /\ \A i \in 1..(Len(s) + Len(t)) : (s \o t)[i] = IF i <= Len(s) THEN s[i] ELSE t[i - Len(s)]
  BY ConcatProperties
<1>2. /\ Len(s) \in Nat /\ DOMAIN s = 1..Len(s) /\ Len(t) \in Nat /\ DOMAIN t = 1..Len(t)
      /\ DOMAIN (s \o t) = 1..(Len(s) + Len(t))
  BY <1>1, LenProperties
<1>3. ASSUME NEW x \in Range(s \o t) PROVE x \in Range(s) \cup Range(t)
  <2>1. PICK i \in 1..(Len(s) + Len(t)) : x = (s \o t)[i]
    BY <1>2 DEF Range
  <2>2. CASE i <= Len(s)
    <3>1. x = s[i] /\ i \in DOMAIN s
      BY <1>1, <1>2, <2>1, <2>2
    <3> QED
      BY <3>1 DEF Range
  <2>3. CASE ~(i <= Len(s))
    <3>1. x = t[i - Len(s)] /\ i - Len(s) \in DOMAIN t
      BY <1>1, <1>2, <2>1, <2>3
    <3> QED
      BY <3>1 DEF Range
  <2> QED
    BY <2>2, <2>3
<1>4. ASSUME NEW i \in DOMAIN s PROVE s[i] \in Range(s \o t)
  <2>1. i \in DOMAIN (s \o t) /\ (s \o t)[i] = s[i]
    BY <1>1, <1>2
  <2> QED
    BY <2>1 DEF Range
<1>5. ASSUME NEW i \in DOMAIN t PROVE t[i] \in Range(s \o t)
  <2>1. i + Len(s) \in DOMAIN (s \o t) /\ (s \o t)[i + Len(s)] = t[i]
    BY <1>1, <1>2
  <2> QED
    BY <2>1 DEF Range
<1>6. Range(s) \cup Range(t) \subseteq Range(s \o t)
  BY <1>4, <1>5 DEF Range
<1> QED
  BY <1>1, <1>3, <1>6

(* What a flattened sequence consists of.                                  *)
LEMMA FlattenSeqRange ==
  ASSUME NEW C, NEW n \in Nat, NEW s \in [1..n -> Seq(C)]
  PROVE  /\ FlattenSeq(s) \in Seq(C)
         /\ Range(FlattenSeq(s)) = UNION {Range(s[i]) : i \in 1..n}
<1>0. Len(s) = n
  OBVIOUS
<1>1. CASE n = 0
  <2>1. FlattenSeq(s) = s /\ s = <<>>
    BY <1>0, <1>1 DEF FlattenSeq
  <2> QED
    BY <1>1, <2>1 DEF Range
<1>2. CASE n # 0
  <2>1. PICK f : Flattens(s, n, f) /\ FlattenSeq(s) = f[n]
    BY <1>0, <1>2, FlattenSeqIs
  <2>2. \A i \in 1..n : f[i] = IF i = 1 THEN s[i] ELSE f[i - 1] \o s[i]
    BY <2>1 DEF Flattens
  <2> DEFINE Union(i) == UNION {Range(s[j]) : j \in 1..i}
             Good == {i \in 1..n : f[i] \in Seq(C) /\ Range(f[i]) = Union(i)}
             T == 1..n \ Good
  <2>3. T = {}
    <3> SUFFICES ASSUME T # {} PROVE FALSE
      OBVIOUS
    <3>0. T \subseteq Nat
      <4> HIDE DEF Good
      <4> QED
        OBVIOUS
    <3>1. PICK m \in T : \A k \in T : m <= k
      BY <3>0, LeastElement
    <3>2. CASE m = 1
      <4>1. f[m] = s[1] /\ s[1] \in Seq(C) /\ 1..m = {1}
        BY <2>2, <3>2
      <4>2. Union(m) = Range(s[1])
        BY <4>1
      <4> QED
        BY <4>1, <4>2
    <3>3. CASE m # 1
      <4>1. m \in 1..n /\ m - 1 \in 1..n /\ m - 1 \in Good
        <5> HIDE DEF Good
        <5> QED
          BY <3>1, <3>3
      <4>2. f[m - 1] \in Seq(C) /\ Range(f[m - 1]) = Union(m - 1)
        BY <4>1
      <4>3. f[m] = f[m - 1] \o s[m] /\ s[m] \in Seq(C)
        BY <2>2, <3>3, <4>1
      <4>4. f[m] \in Seq(C) /\ Range(f[m]) = Range(f[m - 1]) \cup Range(s[m])
        BY <4>2, <4>3, RangeOfConcat
      <4>5. 1..m = (1..(m - 1)) \cup {m}
        BY <4>1
      <4>6. Union(m) = Union(m - 1) \cup Range(s[m])
        BY <4>5
      <4> QED
        BY <4>1, <4>2, <4>4, <4>6
    <3> QED
      BY <3>2, <3>3
  <2>4. n \in Good
    <3> HIDE DEF Good
    <3> QED
      BY <1>2, <2>3
  <2> QED
    BY <2>1, <2>4
<1> QED
  BY <1>1, <1>2

(* The places of cells.                                                    *)
PlacesOf(cells) == [i \in DOMAIN cells |-> cells[i].path]

(* The places of concatenated cells are concatenated.                      *)
LEMMA PlacesOfConcat ==
  ASSUME NEW C, NEW s \in Seq(C), NEW t \in Seq(C)
  PROVE  PlacesOf(s \o t) = PlacesOf(s) \o PlacesOf(t)
<1>1. /\ s \o t \in Seq(C) /\ Len(s \o t) = Len(s) + Len(t)
      /\ \A i \in 1..(Len(s) + Len(t)) : (s \o t)[i] = IF i <= Len(s) THEN s[i] ELSE t[i - Len(s)]
  BY ConcatProperties
<1>2. /\ Len(s) \in Nat /\ DOMAIN s = 1..Len(s) /\ Len(t) \in Nat /\ DOMAIN t = 1..Len(t)
      /\ DOMAIN (s \o t) = 1..(Len(s) + Len(t))
  BY <1>1, LenProperties
<1> DEFINE P == {c.path : c \in C}
<1>3. /\ PlacesOf(s) \in Seq(P) /\ Len(PlacesOf(s)) = Len(s)
      /\ \A i \in 1..Len(s) : PlacesOf(s)[i] = s[i].path
  <2>1. \A i \in 1..Len(s) : s[i] \in C
    BY ElementOfSeq
  <2> QED
    BY <1>2, <2>1 DEF PlacesOf
<1>4. /\ PlacesOf(t) \in Seq(P) /\ Len(PlacesOf(t)) = Len(t)
      /\ \A i \in 1..Len(t) : PlacesOf(t)[i] = t[i].path
  <2>1. \A i \in 1..Len(t) : t[i] \in C
    BY ElementOfSeq
  <2> QED
    BY <1>2, <2>1 DEF PlacesOf
<1>5. /\ PlacesOf(s \o t) \in Seq(P) /\ Len(PlacesOf(s \o t)) = Len(s) + Len(t)
      /\ \A i \in 1..(Len(s) + Len(t)) : PlacesOf(s \o t)[i] = (s \o t)[i].path
  <2>1. \A i \in 1..(Len(s) + Len(t)) : (s \o t)[i] \in C
    BY <1>1, ElementOfSeq
  <2> QED
    BY <1>1, <1>2, <2>1 DEF PlacesOf
<1>6a. PlacesOf(s) \in Seq(P) /\ PlacesOf(t) \in Seq(P)
  BY <1>3, <1>4
<1> HIDE DEF P
<1>6. /\ PlacesOf(s) \o PlacesOf(t) \in Seq(P)
      /\ Len(PlacesOf(s) \o PlacesOf(t)) = Len(s) + Len(t)
      /\ \A i \in 1..(Len(s) + Len(t)) : (PlacesOf(s) \o PlacesOf(t))[i] =
            IF i <= Len(s) THEN PlacesOf(s)[i] ELSE PlacesOf(t)[i - Len(s)]
  <2>1. LET a == PlacesOf(s) b == PlacesOf(t)
        IN  /\ a \o b \in Seq(P) /\ Len(a \o b) = Len(a) + Len(b)
            /\ \A i \in 1..(Len(a) + Len(b)) : (a \o b)[i] = IF i <= Len(a)
                                                            THEN a[i]
                                                            ELSE b[i - Len(a)]
    BY <1>6a, ConcatProperties
  <2> QED
    BY <1>3, <1>4, <2>1
<1>7. \A i \in 1..(Len(s) + Len(t)) : PlacesOf(s \o t)[i] = (PlacesOf(s) \o PlacesOf(t))[i]
  <2>1. TAKE i \in 1..(Len(s) + Len(t))
  <2>2. CASE i <= Len(s)
    <3>1. i \in 1..Len(s)
      BY <1>2, <2>2
    <3> QED
      BY <1>1, <1>3, <1>5, <1>6, <2>2, <3>1
  <2>3. CASE ~(i <= Len(s))
    <3>1. i - Len(s) \in 1..Len(t)
      BY <1>2, <2>3
    <3>2. PlacesOf(t)[i - Len(s)] = t[i - Len(s)].path
      BY <1>4, <3>1
    <3>3. (s \o t)[i] = t[i - Len(s)]
      BY <1>1, <2>3
    <3> QED
      BY <1>5, <1>6, <2>3, <3>2, <3>3
  <2> QED
    BY <2>2, <2>3
<1> QED
  BY <1>5, <1>6, <1>7, SeqEqual

(* The places of flattened tiers are the tiers' places, flattened.         *)
LEMMA FlattenSeqPlaces ==
  ASSUME NEW C, NEW n \in Nat, NEW s \in [1..n -> Seq(C)]
  PROVE  FlattenSeq([i \in 1..n |-> PlacesOf(s[i])]) = PlacesOf(FlattenSeq(s))
<1> DEFINE t == [i \in 1..n |-> PlacesOf(s[i])]
<1>0. Len(s) = n /\ Len(t) = n
  OBVIOUS
<1>1. CASE n = 0
  <2>1. FlattenSeq(s) = s /\ s = <<>> /\ FlattenSeq(t) = t /\ t = <<>>
    BY <1>0, <1>1 DEF FlattenSeq
  <2> QED
    BY <2>1 DEF PlacesOf
<1>2. CASE n # 0
  <2>1. PICK f : Flattens(s, n, f) /\ FlattenSeq(s) = f[n]
    BY <1>0, <1>2, FlattenSeqIs
  <2>2. \A i \in 1..n : f[i] = IF i = 1 THEN s[i] ELSE f[i - 1] \o s[i]
    BY <2>1 DEF Flattens
  <2>3. \A i \in 1..n : t[i] = PlacesOf(s[i])
    OBVIOUS
  <2> HIDE DEF t
  <2>4. PICK g : Flattens(t, n, g) /\ FlattenSeq(t) = g[n]
    BY <1>0, <1>2, FlattenSeqIs
  <2>5. \A i \in 1..n : g[i] = IF i = 1 THEN t[i] ELSE g[i - 1] \o t[i]
    BY <2>4 DEF Flattens
  <2> DEFINE Good == {i \in 1..n : f[i] \in Seq(C) /\ g[i] = PlacesOf(f[i])}
             T == 1..n \ Good
  <2>6. T = {}
    <3> SUFFICES ASSUME T # {} PROVE FALSE
      OBVIOUS
    <3>0. T \subseteq Nat
      <4> HIDE DEF Good
      <4> QED
        OBVIOUS
    <3>1. PICK m \in T : \A k \in T : m <= k
      BY <3>0, LeastElement
    <3>2. CASE m = 1
      <4>1. f[m] = s[1] /\ s[1] \in Seq(C) /\ g[m] = t[1] /\ t[1] = PlacesOf(s[1])
        BY <2>2, <2>3, <2>5, <3>2
      <4> QED
        BY <4>1
    <3>3. CASE m # 1
      <4>1. m \in 1..n /\ m - 1 \in 1..n /\ m - 1 \in Good
        <5> HIDE DEF Good
        <5> QED
          BY <3>1, <3>3
      <4>2. f[m - 1] \in Seq(C) /\ g[m - 1] = PlacesOf(f[m - 1])
        BY <4>1
      <4>3. /\ f[m] = f[m - 1] \o s[m]
            /\ s[m] \in Seq(C)
            /\ g[m] = g[m - 1] \o t[m]
            /\ t[m] = PlacesOf(s[m])
        BY <2>2, <2>3, <2>5, <3>3, <4>1
      <4>4. f[m] \in Seq(C) /\ PlacesOf(f[m]) = PlacesOf(f[m - 1]) \o PlacesOf(s[m])
        <5>1. f[m - 1] \o s[m] \in Seq(C)
          BY <4>2, <4>3, RangeOfConcat
        <5>2. PlacesOf(f[m - 1] \o s[m]) = PlacesOf(f[m - 1]) \o PlacesOf(s[m])
          BY <4>2, <4>3, PlacesOfConcat
        <5> QED
          BY <4>3, <5>1, <5>2
      <4> QED
        BY <4>1, <4>2, <4>3, <4>4
    <3> QED
      BY <3>2, <3>3
  <2>7. n \in Good
    <3> HIDE DEF Good
    <3> QED
      BY <1>2, <2>6
  <2> QED
    BY <2>1, <2>4, <2>7 DEF t
<1> QED
  BY <1>1, <1>2
-----------------------------------------------------------------------------
(* The places of a tree have ranks: those of a tier are below that of their*)
(* compound.                                                               *)
Ranks(tree, v) ==
  /\ Cardinality(DOMAIN tree) \in Nat
  /\ v \in [DOMAIN tree -> 0..Cardinality(DOMAIN tree)]
  /\ \A p \in DOMAIN tree : \A i \in 1..tree[p].subs :
       tree[p].shape = "compound" => Append(p, i) \in DOMAIN tree /\ v[Append(p, i)] < v[p]

(* Every tree has ranks that fall from a tier to those below it.           *)
LEMMA RanksExist ==
  ASSUME NEW tree, IsTree(tree)
  PROVE  \E v : Ranks(tree, v)
<1> DEFINE D == DOMAIN tree
           Longer(p) == {o \in D : Len(o) > Len(p)}
           v == [p \in D |-> Cardinality(Longer(p))]
<1>1. IsFiniteSet(D) /\ \A p \in D : p \in Seq(Nat) /\ tree[p].subs \in Nat
  BY DEF IsTree
<1>2. \A p \in D : IsFiniteSet(Longer(p)) /\ Cardinality(Longer(p)) \in Nat
  BY <1>1, FS_Subset, FS_CardinalityType
<1>3. Cardinality(D) \in Nat /\ v \in [D -> 0..Cardinality(D)]
  <2>1. \A p \in D : Longer(p) \subseteq D
    OBVIOUS
  <2>2. Cardinality(D) \in Nat
    BY <1>1, FS_CardinalityType
  <2>3. \A p \in D : Cardinality(Longer(p)) <= Cardinality(D)
    <3> HIDE DEF Longer
    <3> QED
      BY <1>1, <2>1, FS_Subset
  <2> HIDE DEF Longer
  <2> QED
    BY <1>2, <2>2, <2>3
<1>4. ASSUME NEW p \in D, NEW i \in 1..tree[p].subs, tree[p].shape = "compound"
      PROVE  Append(p, i) \in D /\ v[Append(p, i)] < v[p]
  <2> DEFINE C == {o \in D : tree[o].shape = "compound"}
             N(o) == {Append(o, j) : j \in 1..tree[o].subs}
  <2>0. D = {RootPath} \cup UNION {N(o) : o \in C}
    BY DEF IsTree
  <2>1. Append(p, i) \in D
    <3>1. Append(p, i) \in N(p) /\ p \in C
      BY <1>4
    <3> HIDE DEF N, C
    <3> QED
      BY <2>0, <3>1
  <2>2. Len(Append(p, i)) = Len(p) + 1 /\ Len(p) \in Nat
    <3>1. i \in Nat
      BY <1>1
    <3> QED
      BY <1>1, <3>1, AppendProperties, LenProperties
  <2>3. \A o \in D : Len(o) \in Nat
    BY <1>1, LenProperties
  <2>4. Longer(Append(p, i)) \subseteq Longer(p)
    BY <2>2, <2>3
  <2>5. Append(p, i) \in Longer(p) /\ Append(p, i) \notin Longer(Append(p, i))
    BY <2>1, <2>2
  <2> HIDE DEF Longer
  <2>6. Cardinality(Longer(Append(p, i))) <= Cardinality(Longer(p))
        /\ Cardinality(Longer(Append(p, i))) # Cardinality(Longer(p))
    BY <1>2, <2>4, <2>5, FS_Subset
  <2>7. Cardinality(Longer(Append(p, i))) \in Nat /\ Cardinality(Longer(p)) \in Nat
    BY <1>2, <2>1
  <2>8. Cardinality(Longer(Append(p, i))) < Cardinality(Longer(p))
    BY <2>6, <2>7
  <2> QED
    BY <2>1, <2>8
<1> HIDE DEF v
<1> QED
  BY <1>3, <1>4 DEF Ranks

(* A walk of the tree: through the tiers of some compounds, and what it has*)
(* of each other place.                                                    *)
Visit(tree, inner, leaf, f, p) ==
  IF p \in inner THEN FlattenSeq([i \in 1..tree[p].subs |-> f[Append(p, i)]]) ELSE leaf[p]

Walks(tree, inner, leaf, f) ==
  f = [p \in DOMAIN tree |-> Visit(tree, inner, leaf, f, p)]

(* So a walk of the tree is well defined, whatever it visits with.         *)
LEMMA WalksExist ==
  ASSUME NEW tree, IsTree(tree), NEW leaf,
         NEW inner, inner \subseteq {p \in DOMAIN tree : tree[p].shape = "compound"}
  PROVE  \E f : Walks(tree, inner, leaf, f)
<1> DEFINE D == DOMAIN tree
<1>1. PICK v : Ranks(tree, v)
  BY RanksExist
<1>2. /\ Cardinality(D) \in Nat /\ v \in [D -> 0..Cardinality(D)]
      /\ v \in [D -> Nat]
      /\ \A p \in inner : \A i \in 1..tree[p].subs : Append(p, i) \in D /\ v[Append(p, i)] < v[p]
  BY <1>1 DEF Ranks
<1> DEFINE Under(n) == {p \in D : v[p] < n}
           Part(n, f) == f = [p \in Under(n) |-> Visit(tree, inner, leaf, f, p)]
           T == {n \in Nat : ~\E f : Part(n, f)}
(* Up to any rank: the walk of what is lower, with one more level.         *)
<1>3. T = {}
  <2> SUFFICES ASSUME T # {} PROVE FALSE
    OBVIOUS
  <2>1. PICK m \in T : \A k \in T : m <= k
    <3>1. T \subseteq Nat
      OBVIOUS
    <3> QED
      BY <3>1, LeastElement
  <2>2. CASE m = 0
    <3>1. Under(m) = {}
      BY <1>2, <2>2
    <3> DEFINE e == [p \in Under(m) |-> {}]
    <3>2. e = [p \in Under(m) |-> Visit(tree, inner, leaf, e, p)]
      BY <3>1
    <3>3. Part(m, e)
      BY <3>2
    <3> QED
      BY <3>3
  <2>3. CASE m # 0
    <3>0. m \in Nat /\ m - 1 \in Nat
      BY <2>1, <2>3
    <3>1. m \in Nat /\ m - 1 \in Nat /\ m - 1 \notin T
      <4> HIDE DEF T
      <4> QED
        BY <2>1, <3>0
    <3>2. PICK f : Part(m - 1, f)
      <4> HIDE DEF Part
      <4> QED
        BY <3>1
    <3>3. \A p \in Under(m - 1) : f[p] = Visit(tree, inner, leaf, f, p)
      BY <3>2
    <3> DEFINE g == [p \in Under(m) |-> IF p \in Under(m - 1) THEN f[p]
                                        ELSE Visit(tree, inner, leaf, f, p)]
    <3>4. \A p \in Under(m - 1) : p \in Under(m) /\ g[p] = f[p]
      BY <1>2, <3>1
    <3>5. ASSUME NEW p \in Under(m), p \in inner, NEW i \in 1..tree[p].subs
          PROVE  Append(p, i) \in Under(m - 1)
      <4>1. Append(p, i) \in D /\ v[Append(p, i)] < v[p] /\ v[p] < m
        BY <1>2, <3>5
      <4>2. v[p] \in Nat /\ v[Append(p, i)] \in Nat
        BY <1>2, <4>1
      <4> QED
        BY <3>1, <4>1, <4>2
    <3>6. ASSUME NEW p \in Under(m)
          PROVE  g[p] = Visit(tree, inner, leaf, g, p)
      <4>1. g[p] = Visit(tree, inner, leaf, f, p)
        BY <3>3
      <4> HIDE DEF g, Under
      <4>2. p \in inner => \A i \in 1..tree[p].subs : g[Append(p, i)] = f[Append(p, i)]
        BY <3>4, <3>5
      <4>3. p \in inner => [i \in 1..tree[p].subs |-> f[Append(p, i)]]
                             = [i \in 1..tree[p].subs |-> g[Append(p, i)]]
        BY <4>2
      <4> QED
        BY <4>1, <4>3 DEF Visit
    <3>7. Part(m, g)
      <4> DEFINE h == [p \in Under(m) |-> Visit(tree, inner, leaf, g, p)]
      <4>1. g = [p \in Under(m) |-> g[p]]
        OBVIOUS
      <4> HIDE DEF g
      <4>2. \A p \in Under(m) : g[p] = h[p]
        BY <3>6
      <4>3. h = [p \in Under(m) |-> h[p]]
        OBVIOUS
      <4> HIDE DEF h
      <4>4. g = h
        BY <4>1, <4>2, <4>3
      <4> QED
        BY <4>4 DEF h
    <3> HIDE DEF g
    <3> QED
      BY <3>7
  <2> QED
    BY <2>2, <2>3
<1>4. Cardinality(D) + 1 \in Nat /\ D = Under(Cardinality(D) + 1)
  <2>1. Cardinality(D) + 1 \in Nat
    BY <1>2
  <2>2. \A p \in D : v[p] < Cardinality(D) + 1
    <3>1. TAKE p \in D
    <3>2. v[p] \in 0..Cardinality(D)
      BY <1>2
    <3> QED
      BY <1>2, <3>2
  <2> QED
    BY <2>1, <2>2
<1>5. \E f : Part(Cardinality(D) + 1, f)
  BY <1>3, <1>4
<1> QED
  BY <1>4, <1>5 DEF Walks
-----------------------------------------------------------------------------
(* The names of the columns of each place, ...                             *)
Named(f) ==
  f = [p \in Places |->
        IF Compound(p) THEN FlattenSeq([i \in 1..Attr(p).subs |-> f[Append(p, i)]]) ELSE <<p>>]

(* ... and the cells that are printed of it.                               *)
Filled(nulls, f) ==
  f = [p \in Places |->
        ValueHandler(p, nulls, [i \in 1..Attr(p).subs |-> f[Append(p, i)]])]

(* The names of the columns are such a walk.                               *)
LEMMA ColumnsAreNamed ==
  ASSUME IsTree(q.tree)
  PROVE  \E f : Named(f) /\ Columns = f[RootPath]
<1> DEFINE inner == {p \in Places : Compound(p)}
           leaf == [p \in Places |-> <<p>>]
<1>1. \E f : Walks(q.tree, inner, leaf, f)
  BY WalksExist DEF Places, Compound, Attr
<1>2. PICK f : Walks(q.tree, inner, leaf, f)
  BY <1>1
<1>3. f = [p \in Places |-> Visit(q.tree, inner, leaf, f, p)]
  BY <1>2 DEF Walks, Places
<1>4. \A p \in Places : Visit(q.tree, inner, leaf, f, p) =
        IF Compound(p) THEN FlattenSeq([i \in 1..Attr(p).subs |-> f[Append(p, i)]]) ELSE <<p>>
  BY DEF Visit, Attr
<1>5. Named(f)
  <2> HIDE DEF inner, leaf
  <2> DEFINE h == [p \in Places |->
        IF Compound(p) THEN FlattenSeq([i \in 1..Attr(p).subs |-> f[Append(p, i)]]) ELSE <<p>>]
             k == [p \in Places |-> Visit(q.tree, inner, leaf, f, p)]
  <2>1. \A p \in Places : h[p] = k[p]
    BY <1>4, ZenonT(40)
  <2>2. h = [p \in Places |-> h[p]] /\ k = [p \in Places |-> k[p]] /\ f = k
    BY <1>3
  <2> HIDE DEF h, k
  <2>3. f = h
    BY <2>1, <2>2
  <2> QED
    BY <2>3 DEF Named, h
<1> HIDE DEF inner, leaf
<1> DEFINE g == CHOOSE f1 : Named(f1)
<1>6. Named(g)
  BY <1>5
<1>7. Columns = g[RootPath]
  BY DEF Columns, Named
<1> HIDE DEF g
<1> QED
  BY <1>6, <1>7

(* Of the value handlers one applies.                                      *)
LEMMA ValueHandlerIs ==
  ASSUME NEW p, NEW nulls, NEW tier
  PROVE  ValueHandler(p, nulls, tier) = IF Collection(p) THEN CollectionCell(p, nulls)
                                        ELSE IF ~Compound(p) THEN AtomicCell(p, nulls)
                                        ELSE IF ~Owner(p, nulls) THEN Cell(p, "crash")
                                        ELSE FlattenSeq(tier)
<1>1. Collection(p) => ~Compound(p)
  BY DEF Collection, Compound
<1>2. CASE Collection(p)
  BY <1>1, <1>2 DEF ValueHandler
<1>3. CASE Compound(p)
  BY <1>1, <1>3 DEF ValueHandler, CompoundCells
<1>4. CASE ~Collection(p) /\ ~Compound(p)
  BY <1>4 DEF ValueHandler
<1> QED
  BY <1>2, <1>3, <1>4

(* The cells are such a walk too.                                          *)
LEMMA CellsAreFilled ==
  ASSUME IsTree(q.tree), NEW nulls
  PROVE  \E f : Filled(nulls, f) /\ Cells(nulls) = f[RootPath]
<1> DEFINE inner == {p \in Places : Compound(p) /\ Owner(p, nulls)}
           leaf == [p \in Places |-> CASE Collection(p) -> CollectionCell(p, nulls)
                                       [] Compound(p) -> Cell(p, "crash")
                                       [] OTHER -> AtomicCell(p, nulls)]
           Filling(f, p) ==
             ValueHandler(p, nulls, [i \in 1..Attr(p).subs |-> f[Append(p, i)]])
<1>1. \E f : Walks(q.tree, inner, leaf, f)
  <2>1. inner \subseteq {p \in DOMAIN q.tree : q.tree[p].shape = "compound"}
    BY DEF Places, Compound, Attr
  <2> HIDE DEF inner, leaf
  <2> QED
    BY <2>1, WalksExist
<1>2. PICK f : Walks(q.tree, inner, leaf, f)
  BY <1>1
<1>3. f = [p \in Places |-> Visit(q.tree, inner, leaf, f, p)]
  <2> HIDE DEF inner, leaf
  <2> QED
    BY <1>2 DEF Walks, Places
<1>4. \A p \in Places : Visit(q.tree, inner, leaf, f, p) = Filling(f, p)
  <2>1. TAKE p \in Places
  <2>2. Collection(p) => ~Compound(p)
    BY DEF Collection, Compound
  <2>3. p \in inner => Visit(q.tree, inner, leaf, f, p)
                         = FlattenSeq([i \in 1..Attr(p).subs |-> f[Append(p, i)]])
    BY DEF Visit, Attr
  <2>4. p \notin inner => Visit(q.tree, inner, leaf, f, p) = leaf[p]
    BY DEF Visit
  <2>5. p \in inner <=> Compound(p) /\ Owner(p, nulls)
    OBVIOUS
  <2>6. leaf[p] = CASE Collection(p) -> CollectionCell(p, nulls)
                    [] Compound(p) -> Cell(p, "crash")
                    [] OTHER -> AtomicCell(p, nulls)
    OBVIOUS
  <2> HIDE DEF inner, leaf
  <2> DEFINE tier == [i \in 1..Attr(p).subs |-> f[Append(p, i)]]
  <2>a. Filling(f, p) = IF Collection(p) THEN CollectionCell(p, nulls)
                        ELSE IF ~Compound(p) THEN AtomicCell(p, nulls)
                        ELSE IF ~Owner(p, nulls) THEN Cell(p, "crash")
                        ELSE FlattenSeq(tier)
    BY ValueHandlerIs
  <2> HIDE DEF Filling, tier
  <2>7. CASE Compound(p) /\ Owner(p, nulls)
    BY <2>2, <2>3, <2>5, <2>7, <2>a DEF tier
  <2>8. CASE Compound(p) /\ ~Owner(p, nulls)
    BY <2>2, <2>4, <2>5, <2>6, <2>8, <2>a
  <2>9. CASE ~Compound(p)
    BY <2>2, <2>4, <2>5, <2>6, <2>9, <2>a
  <2> QED
    BY <2>7, <2>8, <2>9
<1>5. Filled(nulls, f)
  <2> HIDE DEF inner, leaf
  <2> DEFINE h == [p \in Places |-> Filling(f, p)]
             k == [p \in Places |-> Visit(q.tree, inner, leaf, f, p)]
  <2>1. \A p \in Places : h[p] = k[p]
    <3> HIDE DEF Filling
    <3> QED
      BY <1>4
  <2>2. h = [p \in Places |-> h[p]] /\ k = [p \in Places |-> k[p]] /\ f = k
    <3> HIDE DEF Filling
    <3> QED
      BY <1>3
  <2> HIDE DEF h, k
  <2>3. f = h
    BY <2>1, <2>2
  <2> QED
    BY <2>3 DEF Filled, h
<1> HIDE DEF inner, leaf, Filling
<1> DEFINE g == CHOOSE f1 : Filled(nulls, f1)
<1>6. Filled(nulls, g)
  BY <1>5
<1>7. Cells(nulls) = g[RootPath]
  BY DEF Cells, Filled
<1> HIDE DEF g
<1> QED
  BY <1>6, <1>7

CellTexts == {"value", "null", "count", "elsewhere", "crash"}

CellRecords == [path : Seq(Nat), is : CellTexts]

Crashed(cells) == \E c \in Range(cells) : c.is = "crash"

(* A place that is not a compound has one column and one cell.             *)
LEMMA OneCell ==
  ASSUME NEW p \in Seq(Nat), NEW is \in CellTexts
  PROVE  /\ Cell(p, is) \in Seq(CellRecords)
         /\ PlacesOf(Cell(p, is)) = <<p>>
         /\ Range(Cell(p, is)) = {[path |-> p, is |-> is]}
<1> DEFINE c == [path |-> p, is |-> is]
<1>1. c \in CellRecords /\ c.path = p
  BY DEF CellRecords
<1> HIDE DEF c
<1>2. Cell(p, is) = <<c>> /\ <<c>> \in Seq(CellRecords)
  BY <1>1 DEF Cell, c
<1>3. PlacesOf(<<c>>) = <<p>>
  BY <1>1 DEF PlacesOf
<1>4. Range(<<c>>) = {c}
  BY DEF Range
<1> QED
  BY <1>2, <1>3, <1>4 DEF c

(* What an attribute that is not a compound prints is one cell.            *)
LEMMA LeafCells ==
  ASSUME NEW p \in Seq(Nat), NEW nulls
  PROVE  /\ \E is \in CellTexts : AtomicCell(p, nulls) = Cell(p, is)
                               /\ (is = "crash" => ~Owner(p, nulls))
         /\ \E is \in CellTexts : CollectionCell(p, nulls) = Cell(p, is)
                               /\ (is = "crash" => ~Owner(p, nulls))
<1>1. \E is \in CellTexts : AtomicCell(p, nulls) = Cell(p, is) /\ (is = "crash" => ~Owner(p, nulls))
  <2> DEFINE is == IF ~Owner(p, nulls)
          THEN IF Attr(p).first /\ ~Forwards(p) THEN "null" ELSE "crash"
          ELSE IF p \in nulls THEN "null" ELSE "value"
  <2>1. is \in CellTexts /\ (is = "crash" => ~Owner(p, nulls))
    BY DEF CellTexts
  <2>2. AtomicCell(p, nulls) = Cell(p, is)
    BY DEF AtomicCell
  <2> QED
    BY <2>1, <2>2
<1>2. \E is \in CellTexts :
        CollectionCell(p, nulls) = Cell(p, is) /\ (is = "crash" => ~Owner(p, nulls))
  <2> DEFINE is == IF ~Owner(p, nulls) /\ (Attr(p).shape = "container" \/ Forwards(p))
                   THEN "crash" ELSE "count"
  <2>1. is \in CellTexts /\ (is = "crash" => ~Owner(p, nulls))
    BY DEF CellTexts
  <2>2. CollectionCell(p, nulls) = Cell(p, is)
    BY DEF CollectionCell
  <2> QED
    BY <2>1, <2>2
<1> QED
  BY <1>1, <1>2

(* The cells of a place are in it, and those that no NULL ended are those  *)
(* of its columns.                                                         *)
Fits(f, g, p) ==
  /\ f[p] \in Seq(CellRecords)
  /\ \A c \in Range(f[p]) : Len(c.path) >= Len(p)
  /\ Crashed(f[p]) \/ PlacesOf(f[p]) = g[p]

(* Which fits its column.                                                  *)
LEMMA LeafFits ==
  ASSUME NEW p \in Seq(Nat), NEW f, NEW g, NEW is \in CellTexts, f[p] = Cell(p, is),
         is = "crash" \/ g[p] = <<p>>
  PROVE  Fits(f, g, p)
<1>1. /\ f[p] \in Seq(CellRecords) /\ PlacesOf(f[p]) = <<p>>
      /\ Range(f[p]) = {[path |-> p, is |-> is]}
  BY OneCell
<1>2. \A c \in Range(f[p]) : Len(c.path) >= Len(p)
  BY <1>1, LenProperties
<1>3. is = "crash" => Crashed(f[p])
  BY <1>1 DEF Crashed
<1> QED
  BY <1>1, <1>2, <1>3 DEF Fits

(* What fits in every attribute of a tier fits in the compound.            *)
LEMMA TierFits ==
  ASSUME NEW p \in Seq(Nat), NEW f, NEW g, NEW n \in Nat,
         f[p] = FlattenSeq([i \in 1..n |-> f[Append(p, i)]]),
         g[p] = FlattenSeq([i \in 1..n |-> g[Append(p, i)]]),
         \A i \in 1..n : Fits(f, g, Append(p, i))
  PROVE  /\ Fits(f, g, p)
         /\ Range(f[p]) = UNION {Range(f[Append(p, i)]) : i \in 1..n}
<1> DEFINE s == [i \in 1..n |-> f[Append(p, i)]]
           t == [i \in 1..n |-> PlacesOf(s[i])]
<1>1. s \in [1..n -> Seq(CellRecords)] /\ f[p] = FlattenSeq(s)
  BY DEF Fits
<1>2. \A i \in 1..n : s[i] = f[Append(p, i)]
  OBVIOUS
<1> HIDE DEF s
<1>3. /\ FlattenSeq(s) \in Seq(CellRecords)
      /\ Range(FlattenSeq(s)) = UNION {Range(s[i]) : i \in 1..n}
  BY <1>1, FlattenSeqRange
<1>3a. FlattenSeq(t) = PlacesOf(FlattenSeq(s))
  BY <1>1, FlattenSeqPlaces
<1>4. {Range(s[i]) : i \in 1..n} = {Range(f[Append(p, i)]) : i \in 1..n}
  BY <1>2
<1>5. ASSUME NEW c \in Range(f[p]) PROVE Len(c.path) >= Len(p)
  <2>1. PICK i \in 1..n : c \in Range(f[Append(p, i)])
    <3>1. c \in UNION {Range(s[i]) : i \in 1..n}
      BY <1>1, <1>3
    <3>2. PICK i \in 1..n : c \in Range(s[i])
      BY <3>1
    <3> QED
      BY <1>2, <3>2
  <2>2. Len(c.path) >= Len(Append(p, i))
    BY <2>1 DEF Fits
  <2>3. Len(Append(p, i)) = Len(p) + 1 /\ Len(p) \in Nat
    BY AppendProperties, LenProperties
  <2>4. f[p] \in Seq(CellRecords)
    BY <1>1, <1>3
  <2>5. c \in CellRecords
    <3>1. PICK k \in DOMAIN f[p] : c = f[p][k]
      BY DEF Range
    <3> QED
      BY <2>4, <3>1, LenProperties, ElementOfSeq
  <2>6. Len(c.path) \in Nat
    BY <2>5, LenProperties DEF CellRecords
  <2> QED
    BY <2>2, <2>3, <2>6
<1>6. ASSUME ~Crashed(f[p]) PROVE PlacesOf(f[p]) = g[p]
  <2>1. \A i \in 1..n : Range(f[Append(p, i)]) \subseteq Range(f[p])
    BY <1>1, <1>3, <1>4
  <2>2. \A i \in 1..n : ~Crashed(f[Append(p, i)])
    BY <1>6, <2>1 DEF Crashed
  <2>3. \A i \in 1..n : PlacesOf(s[i]) = g[Append(p, i)]
    BY <1>2, <2>2 DEF Fits
  <2>4. t = [i \in 1..n |-> g[Append(p, i)]]
    BY <2>3
  <2> QED
    BY <1>1, <1>3a, <2>4
<1> QED
  BY <1>1, <1>3, <1>4, <1>5, <1>6 DEF Fits

(* The two walks fit at every place of the tree.                           *)
LEMMA WalksFit ==
  ASSUME IsTree(q.tree), NEW nulls, NEW f, Filled(nulls, f), NEW g, Named(g)
  PROVE  \A p \in Places : Fits(f, g, p)
<1>1. PICK v : Ranks(q.tree, v)
  BY RanksExist
<1>2. /\ v \in [Places -> Nat]
      /\ \A p \in Places : \A i \in 1..Attr(p).subs :
           Compound(p) => Append(p, i) \in Places /\ v[Append(p, i)] < v[p]
  BY <1>1 DEF Ranks, Places, Compound, Attr
<1>3. \A p \in Places : p \in Seq(Nat) /\ Attr(p).subs \in Nat
  BY DEF IsTree, Places, Attr
<1> DEFINE Bad == {p \in Places : ~Fits(f, g, p)}
           R == {v[p] : p \in Bad}
<1> SUFFICES ASSUME Bad # {} PROVE FALSE
  OBVIOUS
<1>4. R \subseteq Nat /\ R # {}
  BY <1>2
<1>5. PICK m \in R : \A k \in R : m <= k
  <2> HIDE DEF R
  <2> QED
    BY <1>4, LeastElement
<1>6. PICK p \in Bad : m = v[p]
  BY <1>5
<1>7. p \in Places /\ p \in Seq(Nat) /\ Attr(p).subs \in Nat /\ ~Fits(f, g, p)
  BY <1>3, <1>6
<1>8. /\ f[p] = IF Collection(p) THEN CollectionCell(p, nulls)
                ELSE IF ~Compound(p) THEN AtomicCell(p, nulls)
                ELSE IF ~Owner(p, nulls) THEN Cell(p, "crash")
                ELSE FlattenSeq([i \in 1..Attr(p).subs |-> f[Append(p, i)]])
      /\ g[p] = IF Compound(p) THEN FlattenSeq([i \in 1..Attr(p).subs |-> g[Append(p, i)]])
                ELSE <<p>>
  <2>1. f[p] = ValueHandler(p, nulls, [i \in 1..Attr(p).subs |-> f[Append(p, i)]])
    BY <1>7 DEF Filled
  <2>2. g[p] = IF Compound(p) THEN FlattenSeq([i \in 1..Attr(p).subs |-> g[Append(p, i)]])
               ELSE <<p>>
    BY <1>7 DEF Named
  <2> QED
    BY <2>1, <2>2, ValueHandlerIs
<1>9. CASE ~Compound(p)
  <2>1. g[p] = <<p>> /\ (f[p] = CollectionCell(p, nulls) \/ f[p] = AtomicCell(p, nulls))
    BY <1>8, <1>9
  <2>2. PICK is \in CellTexts : f[p] = Cell(p, is)
    BY <1>7, <2>1, LeafCells
  <2> QED
    BY <1>7, <2>1, <2>2, LeafFits
<1>10. CASE Compound(p) /\ ~Owner(p, nulls)
  <2>1. f[p] = Cell(p, "crash") /\ "crash" \in CellTexts
    BY <1>8, <1>10 DEF Compound, Collection, CellTexts
  <2> QED
    BY <1>7, <2>1, LeafFits
<1>11. CASE Compound(p) /\ Owner(p, nulls)
  <2>1. /\ f[p] = FlattenSeq([i \in 1..Attr(p).subs |-> f[Append(p, i)]])
        /\ g[p] = FlattenSeq([i \in 1..Attr(p).subs |-> g[Append(p, i)]])
    BY <1>8, <1>11 DEF Compound, Collection
  <2>2. ASSUME NEW i \in 1..Attr(p).subs PROVE Fits(f, g, Append(p, i))
    <3>1. Append(p, i) \in Places /\ v[Append(p, i)] < v[p]
      BY <1>2, <1>7, <1>11
    <3>2. v[Append(p, i)] \in Nat /\ v[p] \in Nat
      BY <1>2, <1>7, <3>1
    <3>3. Append(p, i) \notin Bad
      <4>1. Append(p, i) \in Bad => v[Append(p, i)] \in R
        OBVIOUS
      <4> HIDE DEF Bad, R
      <4> QED
        BY <1>5, <1>6, <3>1, <3>2, <4>1
    <3> QED
      BY <3>1, <3>3
  <2> QED
    BY <1>7, <2>1, <2>2, TierFits
<1> QED
  BY <1>9, <1>10, <1>11

(* The owner of an attribute is the handler its path goes on from.         *)
LEMMA FrontOfAppend ==
  ASSUME NEW s \in Seq(Nat), NEW i \in Nat
  PROVE  Front(Append(s, i)) = s
<1> DEFINE t == Append(s, i)
           u == SubSeq(t, 1, Len(s))
<1>1. /\ t \in Seq(Nat) /\ Len(t) = Len(s) + 1 /\ Len(s) \in Nat
      /\ \A k \in 1..Len(s) : t[k] = s[k]
  BY AppendProperties, LenProperties
<1> HIDE DEF t
<1>2. \A k \in 1..Len(s) : t[k] \in Nat
  BY <1>1, ElementOfSeq
<1>3. /\ u \in Seq(Nat) /\ Len(u) = (IF 1 <= Len(s) THEN Len(s) - 1 + 1 ELSE 0)
      /\ \A k \in 1..(Len(s) - 1 + 1) : u[k] = t[1 + k - 1]
  BY <1>1, <1>2, SubSeqProperties
<1> HIDE DEF u
<1>4. Len(u) = Len(s) /\ \A k \in 1..Len(s) : u[k] = s[k]
  <2>1. Len(u) = Len(s)
    BY <1>1, <1>3
  <2>2. \A k \in 1..Len(s) : k \in 1..(Len(s) - 1 + 1) /\ 1 + k - 1 = k
    BY <1>1
  <2> QED
    BY <1>1, <1>3, <2>1, <2>2
<1>5. u = s
  BY <1>3, <1>4, SeqEqual
<1>6. Len(t) - 1 = Len(s)
  BY <1>1
<1> QED
  BY <1>5, <1>6 DEF Front, t, u

(* What an object has itself is never behind a NULL pointer.               *)
LEMMA NearOwner ==
  ASSUME IsTree(q.tree), NEW nulls, nulls \subseteq Below
  PROVE  /\ Owner(RootPath, nulls)
         /\ \A i \in Nat : Owner(Append(RootPath, i), nulls)
<1>1. <<>> \notin Places
  <2> DEFINE D == DOMAIN q.tree
             C == {o \in D : q.tree[o].shape = "compound"}
             N(o) == {Append(o, j) : j \in 1..q.tree[o].subs}
  <2>1. D = {RootPath} \cup UNION {N(o) : o \in C}
    BY DEF IsTree
  <2>2. \A o \in D : o \in Seq(Nat) /\ q.tree[o].subs \in Nat
    BY DEF IsTree
  <2>3. ASSUME NEW o \in C, NEW p \in N(o) PROVE p # <<>>
    <3>1. PICK j \in 1..q.tree[o].subs : p = Append(o, j)
      BY <2>3
    <3>2. o \in Seq(Nat) /\ j \in Nat
      BY <2>2
    <3> QED
      BY <3>1, <3>2, AppendProperties
  <2>4. RootPath # <<>>
    BY DEF RootPath
  <2> HIDE DEF N, C
  <2>5. <<>> \notin D
    BY <2>1, <2>3, <2>4
  <2> QED
    BY <2>5 DEF Places
<1>2. Front(RootPath) = <<>>
  BY SubSeqEmpty DEF Front, RootPath
<1>3. ASSUME NEW i \in Nat PROVE Front(Append(RootPath, i)) = RootPath
  <2>1. RootPath \in Seq(Nat)
    BY DEF RootPath
  <2> QED
    BY <2>1, FrontOfAppend
<1> QED
  BY <1>1, <1>2, <1>3 DEF Owner, Below

(* A walk is ended in a nested compound.                                   *)
LEMMA CrashIsDeep ==
  ASSUME IsTree(q.tree), NEW nulls, nulls \subseteq Below, Compound(RootPath),
         NEW c \in Range(Cells(nulls)), c.is = "crash"
  PROVE  Len(c.path) > 2
<1>1. PICK f : Filled(nulls, f) /\ Cells(nulls) = f[RootPath]
  BY CellsAreFilled
<1>2. PICK g : Named(g)
  BY ColumnsAreNamed
<1>3. \A p \in Places : Fits(f, g, p)
  BY <1>1, <1>2, WalksFit
<1>4. /\ \A p \in Places : p \in Seq(Nat) /\ Attr(p).subs \in Nat
      /\ RootPath \in Places
      /\ \A p \in Places : \A i \in 1..Attr(p).subs : Compound(p) => Append(p, i) \in Places
  <2>1. PICK v : Ranks(q.tree, v)
    BY RanksExist
  <2>2. \A p \in Places : p \in Seq(Nat) /\ Attr(p).subs \in Nat
    BY DEF IsTree, Places, Attr
  <2>3. \A p \in Places : \A i \in 1..Attr(p).subs : Compound(p) => Append(p, i) \in Places
    BY <2>1 DEF Ranks, Places, Compound, Attr
  <2>4. RootPath \in Places
    BY DEF IsTree, Places
  <2> QED
    BY <2>2, <2>3, <2>4
<1>5. \A p \in Places :
        /\ f[p] = ValueHandler(p, nulls, [i \in 1..Attr(p).subs |-> f[Append(p, i)]])
        /\ g[p] = IF Compound(p)
                  THEN FlattenSeq([i \in 1..Attr(p).subs |-> g[Append(p, i)]])
                  ELSE <<p>>
  BY <1>1, <1>2 DEF Filled, Named
(* The cells of a tier are those of its places.                            *)
<1>6. ASSUME NEW p \in Places, Compound(p), Owner(p, nulls), NEW d \in Range(f[p])
      PROVE  \E i \in 1..Attr(p).subs : Append(p, i) \in Places /\ d \in Range(f[Append(p, i)])
  <2>0. ~Collection(p)
    BY <1>6 DEF Compound, Collection
  <2>1. f[p] = FlattenSeq([i \in 1..Attr(p).subs |-> f[Append(p, i)]])
    BY <1>5, <1>6, <2>0, ValueHandlerIs
  <2>2. g[p] = FlattenSeq([i \in 1..Attr(p).subs |-> g[Append(p, i)]])
    BY <1>5, <1>6
  <2>3. \A i \in 1..Attr(p).subs : Append(p, i) \in Places /\ Fits(f, g, Append(p, i))
    BY <1>3, <1>4, <1>6
  <2>4. p \in Seq(Nat) /\ Attr(p).subs \in Nat
    BY <1>4
  <2>5. Range(f[p]) = UNION {Range(f[Append(p, i)]) : i \in 1..Attr(p).subs}
    BY <2>1, <2>2, <2>3, <2>4, TierFits
  <2> QED
    BY <1>6, <2>3, <2>5
<1>7. Owner(RootPath, nulls) /\ \A i \in Nat : Owner(Append(RootPath, i), nulls)
  BY NearOwner
<1>8. PICK i \in 1..Attr(RootPath).subs :
        Append(RootPath, i) \in Places /\ c \in Range(f[Append(RootPath, i)])
  BY <1>1, <1>4, <1>6, <1>7
<1> DEFINE o == Append(RootPath, i)
<1>9. i \in Nat /\ o \in Places /\ o \in Seq(Nat) /\ Owner(o, nulls) /\ Len(o) = 2
  <2>1. i \in Nat
    BY <1>4
  <2>2. Len(o) = 2
    BY DEF RootPath
  <2> QED
    BY <1>4, <1>7, <1>8, <2>1, <2>2
<1> HIDE DEF o
<1>10. CASE Compound(o)
  <2>1. PICK j \in 1..Attr(o).subs : Append(o, j) \in Places /\ c \in Range(f[Append(o, j)])
    BY <1>6, <1>8, <1>9, <1>10 DEF o
  <2>2. j \in Nat /\ Len(Append(o, j)) = 3
    <3>1. j \in Nat
      BY <1>4, <1>9
    <3>2. Len(Append(o, j)) = Len(o) + 1
      BY ZenonT(40), <1>9, <3>1, AppendProperties
    <3> QED
      BY <1>9, <3>1, <3>2
  <2>3. Len(c.path) >= Len(Append(o, j))
    BY <1>3, <2>1 DEF Fits
  <2>4. Len(c.path) \in Nat
    <3>1. f[Append(o, j)] \in Seq(CellRecords)
      BY <1>3, <2>1 DEF Fits
    <3>2. PICK k \in DOMAIN f[Append(o, j)] : c = f[Append(o, j)][k]
      BY <2>1 DEF Range
    <3>3. c \in CellRecords
      BY <3>1, <3>2, LenProperties, ElementOfSeq
    <3> QED
      BY <3>3, LenProperties DEF CellRecords
  <2> QED
    BY <2>2, <2>3, <2>4
<1>11. CASE ~Compound(o)
  <2>1. f[o] = CollectionCell(o, nulls) \/ f[o] = AtomicCell(o, nulls)
    BY <1>5, <1>9, <1>11, ValueHandlerIs
  <2>2. PICK is \in CellTexts : f[o] = Cell(o, is) /\ is # "crash"
    BY <1>9, <2>1, LeafCells
  <2>3. Range(f[o]) = {[path |-> o, is |-> is]}
    BY <1>9, <2>2, OneCell
  <2>4. c.is = is
    BY <1>8, <2>3 DEF o
  <2> QED
    BY <2>2, <2>4
<1> QED
  BY <1>10, <1>11

(* The cells of the keys are those of their columns.                       *)
LEMMA KeyCellsAre ==
  ASSUME q.keys \in Nat
  PROVE  /\ KeyCells \in Seq(CellRecords)
         /\ PlacesOf(KeyCells) = KeyColumns
         /\ ~Crashed(KeyCells)
<1> DEFINE k == q.keys
           cell(i) == [path |-> KeyPath(i), is |-> "value"]
<1>1. \A i \in 1..k : KeyPath(i) \in Seq(Nat)
  BY DEF KeyPath
<1>2. \A i \in 1..k : cell(i) \in CellRecords /\ cell(i).path = KeyPath(i) /\ cell(i).is # "crash"
  BY <1>1 DEF CellRecords, CellTexts
<1>3. KeyCells = [i \in 1..k |-> cell(i)] /\ DOMAIN KeyCells = 1..k
  BY DEF KeyCells
<1> HIDE DEF cell
<1>4. KeyCells \in Seq(CellRecords)
  BY <1>2, <1>3
<1>5. PlacesOf(KeyCells) = KeyColumns
  BY <1>2, <1>3 DEF PlacesOf, KeyColumns
<1>6. ~Crashed(KeyCells)
  BY <1>2, <1>3 DEF Crashed, Range
<1> QED
  BY <1>4, <1>5, <1>6

(* A row is one of the header, unless something in it was NULL.            *)
LEMMA RowFits ==
  ASSUME IsTree(q.tree), q.keys \in Nat, NEW nulls, nulls \subseteq Below
  PROVE  /\ ~Crashed(Row(nulls)) => PlacesOf(Row(nulls)) = Header
         /\ Crashed(Row(nulls)) => \/ q.origin = "computed"
                                   \/ \E c \in Range(Row(nulls)) : c.is = "crash" /\ Len(c.path) > 2
<1>0. RootPath \in Places /\ RootPath \in Seq(Nat)
  BY DEF IsTree, Places
<1>1. PICK f : Filled(nulls, f) /\ Cells(nulls) = f[RootPath]
  BY CellsAreFilled
<1>2. PICK g : Named(g) /\ Columns = g[RootPath]
  BY ColumnsAreNamed
<1> DEFINE rest == IF Compound(RootPath) THEN Cells(nulls) ELSE RootCell
<1>3. /\ rest \in Seq(CellRecords)
      /\ Crashed(rest) \/ PlacesOf(rest) = Columns
      /\ \A c \in Range(rest) : c.is = "crash" => q.origin = "computed" \/ Len(c.path) > 2
  <2>1. CASE Compound(RootPath)
    <3>1. Fits(f, g, RootPath)
      BY <1>0, <1>1, <1>2, WalksFit
    <3> QED
      BY <1>1, <1>2, <2>1, <3>1, CrashIsDeep DEF Fits
  <2>2. CASE ~Compound(RootPath)
    <3>1. Columns = <<RootPath>>
      BY <1>0, <1>2, <2>2 DEF Named
    <3>2. PICK is \in CellTexts : RootCell = Cell(RootPath, is)
                                  /\ (is = "crash" => q.origin = "computed")
      <4> DEFINE is == CASE q.origin = "computed" -> "crash"
                         [] q.origin = "member" /\ ~Attr(RootPath).first -> "elsewhere"
                         [] OTHER -> "value"
      <4>1. is \in CellTexts /\ (is = "crash" => q.origin = "computed")
        BY DEF CellTexts
      <4>2. RootCell = Cell(RootPath, is)
        BY DEF RootCell
      <4> QED
        BY <4>1, <4>2
    <3>3. /\ RootCell \in Seq(CellRecords) /\ PlacesOf(RootCell) = <<RootPath>>
          /\ Range(RootCell) = {[path |-> RootPath, is |-> is]}
      BY <1>0, <3>2, OneCell
    <3> QED
      BY <2>2, <3>1, <3>2, <3>3
  <2> QED
    BY <2>1, <2>2
<1>4. Row(nulls) = KeyCells \o rest
  BY DEF Row
<1> HIDE DEF rest
<1>5. /\ KeyCells \in Seq(CellRecords) /\ PlacesOf(KeyCells) = KeyColumns /\ ~Crashed(KeyCells)
  BY KeyCellsAre
<1>6. Range(Row(nulls)) = Range(KeyCells) \cup Range(rest)
  BY <1>3, <1>4, <1>5, RangeOfConcat
<1>7. PlacesOf(Row(nulls)) = KeyColumns \o PlacesOf(rest)
  BY <1>3, <1>4, <1>5, PlacesOfConcat
<1> QED
  BY <1>3, <1>5, <1>6, <1>7 DEF Crashed, Header
-----------------------------------------------------------------------------
HandlersParts == {"handler", "formats", "tree", "ifaces"}
WorkspaceParts == {"workspace", "keys", "view"}

(* What is allocated belongs to the handler or to the workspace, and only  *)
(* a handler with a tree has iterators.  A handler that was given no type  *)
(* keeps its memory: its cleanup ends the program.                         *)
HeldInv ==
  /\ \A x \in kept :
       \/ (handler \in {"set", "typed"} \/ ws = "none") /\ x \in HandlersParts
       \/ ws = "live" /\ x \in WorkspaceParts
  /\ its \subseteq IteratedPaths
  /\ handler # "typed" => its = {}
  /\ handler \in {"none", "set"} => ws = "none"

(* The header was named before any row, from the same tree.                *)
HeaderInv ==
  /\ ws = "none" => printed = 0
  /\ ws = "live" => header = Header

TableInv ==
  /\ q \in Requests
  /\ HeldInv
  /\ HeaderInv
  /\ RowsMatchHeader
  /\ RunsThrough

(* Nothing is allocated and nothing is printed at first.                   *)
LEMMA TableInit == Init => TableInv
BY DEF Init, TableInv, HeldInv, HeaderInv, RowsMatchHeader, RunsThrough

(* The program ends where the invariant says it may.                       *)
LEMMA StopKeeps ==
  ASSUME TableInv, Stop,
         \/ q.keys = 0
         \/ \E p \in Below : Forwards(p) /\ (Compound(p) \/ Attr(p).fwd = "chain")
  PROVE  TableInv'
<1>1. aborted' = TRUE /\ UNCHANGED <<q, handler, ws, kept, its, header, row, printed>>
  BY DEF Stop
<1>2. HeldInv'
  BY <1>1 DEF TableInv, HeldInv, IteratedPaths, Below, Places, Collection, Attr
<1>3. HeaderInv'
  BY <1>1 DEF TableInv, HeaderInv, Header, KeyColumns, Columns, Places, Compound, Attr
<1>4. RunsThrough'
  BY <1>1 DEF RunsThrough, Below, Places, Forwards, Compound, Attr
<1>5. RowsMatchHeader' /\ (q \in Requests)'
  BY <1>1 DEF TableInv, RowsMatchHeader
<1> QED
  BY <1>2, <1>3, <1>4, <1>5 DEF TableInv

(* A step of the handler; the tree does not change in any.                 *)
LEMMA TableNext ==
  ASSUME TableInv, [Next]_vars
  PROVE  TableInv'
<1>0. q' = q => /\ IteratedPaths' = IteratedPaths
                /\ Header' = Header
                /\ ~aborted' => RunsThrough'
  BY DEF IteratedPaths, Below, Places, Collection, Attr, Header, KeyColumns, Columns, Compound,
         RunsThrough
<1>8. IsTree(q.tree) /\ q.keys \in Nat
  BY RequestsAssumption DEF TableInv, RequestsAreTyped
<1>1. CASE CsvInit /\ ~aborted
  <2>1. /\ handler = "none" /\ handler' = "set" /\ kept' = kept \cup {"handler", "formats"}
        /\ UNCHANGED <<q, ws, its, header, row, printed, aborted>>
    BY <1>1 DEF CsvInit
  <2>2. HeldInv'
    BY <1>0, <2>1 DEF TableInv, HeldInv, HandlersParts
  <2>3. HeaderInv' /\ RowsMatchHeader'
    BY <1>0, <2>1 DEF TableInv, HeaderInv, RowsMatchHeader
  <2> QED
    BY <1>0, <1>1, <2>1, <2>2, <2>3 DEF TableInv
<1>2. CASE ResultsInit /\ Stop
  <2>1. ForwardedCompound \/ q.keys = 0
    BY <1>2 DEF ResultsInit, Stop
  <2> QED
    BY <1>2, <2>1, StopKeeps DEF ForwardedCompound
<1>3. CASE ResultsInit /\ ~Stop /\ ~aborted
  <2>1. /\ handler = "set" /\ ws = "none" /\ handler' = "typed"
        /\ ws' = "live" /\ header' = Header
        /\ UNCHANGED <<q, its, row, printed, aborted>>
    BY <1>3 DEF ResultsInit
  <2>2. \A x \in kept' : x \in kept \/ x \in HandlersParts \/ x \in WorkspaceParts
    BY <1>3 DEF ResultsInit, ViewOf, HandlersParts, WorkspaceParts
  <2>3. HeldInv'
    BY <1>0, <2>1, <2>2 DEF TableInv, HeldInv
  <2>4. HeaderInv' /\ RowsMatchHeader'
    BY <1>0, <2>1 DEF TableInv, HeaderInv, RowsMatchHeader
  <2> QED
    BY <1>0, <1>3, <2>1, <2>3, <2>4 DEF TableInv
<1>4. CASE Destroy /\ ~aborted
  <2>1. /\ ws = "live" /\ ws' = "gone" /\ kept' = kept \ WorkspaceParts
        /\ UNCHANGED <<q, handler, its, header, row, printed, aborted>>
    BY <1>4 DEF Destroy, WorkspaceParts
  <2>2. HeldInv'
    BY <1>0, <2>1 DEF TableInv, HeldInv
  <2>3. HeaderInv' /\ RowsMatchHeader'
    BY <1>0, <2>1 DEF TableInv, HeaderInv, RowsMatchHeader
  <2> QED
    BY <1>0, <1>4, <2>1, <2>2, <2>3 DEF TableInv
<1>5. CASE Cleanup /\ handler = "set"
  <2>1. /\ handler' = "gone" /\ ws # "live" /\ aborted'
        /\ UNCHANGED <<q, ws, kept, its, header, row, printed>>
    BY <1>5 DEF Cleanup
  <2>2. ws = "none" /\ its = {}
    BY <1>5 DEF TableInv, HeldInv
  <2>3. HeldInv'
    BY <1>0, <2>1, <2>2 DEF TableInv, HeldInv
  <2>4. HeaderInv' /\ RowsMatchHeader'
    BY <1>0, <2>1 DEF TableInv, HeaderInv, RowsMatchHeader
  <2>5. RunsThrough'
    BY <2>1, <2>2 DEF RunsThrough
  <2> QED
    BY <2>1, <2>3, <2>4, <2>5 DEF TableInv
<1>9. CASE Cleanup /\ handler # "set" /\ ~aborted
  <2>1. /\ handler = "typed" /\ ws # "live" /\ handler' = "gone"
        /\ kept' = kept \ HandlersParts /\ its' = its \ IteratedPaths
        /\ UNCHANGED <<q, ws, header, row, printed, aborted>>
    BY <1>9 DEF Cleanup, HandlersParts, Reached
  <2>2. HeldInv'
    BY <1>0, <2>1 DEF TableInv, HeldInv
  <2>3. HeaderInv' /\ RowsMatchHeader'
    BY <1>0, <2>1 DEF TableInv, HeaderInv, RowsMatchHeader
  <2> QED
    BY <1>0, <1>9, <2>1, <2>2, <2>3 DEF TableInv
<1>6. ASSUME NEW nulls \in SUBSET Pointers, HandleRecord(nulls) PROVE TableInv'
  <2>1. CASE MisreadChain
    <3>1. Stop
      BY <1>6, <2>1 DEF HandleRecord
    <3>2. \E p \in Below : Forwards(p) /\ (Compound(p) \/ Attr(p).fwd = "chain")
      BY <2>1 DEF MisreadChain, Forwards
    <3> QED
      BY <3>1, <3>2, StopKeeps
  <2>2. CASE ~MisreadChain
    <3>1. /\ handler = "typed" /\ ws = "live" /\ row' = Row(nulls)
          /\ aborted' = (\E i \in DOMAIN Row(nulls) : Row(nulls)[i].is = "crash")
          /\ its' = its \cup IteratedPaths
          /\ UNCHANGED <<q, handler, ws, kept, header>>
      BY <1>6, <2>2 DEF HandleRecord
    <3>2. nulls \subseteq Below
      BY DEF Pointers
    <3> DEFINE cells == Row(nulls)
    <3>3. /\ ~Crashed(cells) => PlacesOf(cells) = Header
          /\ Crashed(cells) => \/ q.origin = "computed"
                               \/ \E c \in Range(cells) : c.is = "crash" /\ Len(c.path) > 2
      BY <1>8, <3>2, RowFits
    <3> HIDE DEF cells
    <3>4. /\ aborted' <=> Crashed(cells)
          /\ row' = cells
      BY <3>1 DEF cells, Crashed, Range
    <3>5. HeldInv'
      BY <1>0, <3>1 DEF TableInv, HeldInv
    <3>6. HeaderInv'
      BY <1>0, <3>1 DEF TableInv, HeaderInv
    <3>7. RowsMatchHeader'
      BY <3>1, <3>3, <3>4 DEF TableInv, HeaderInv, RowsMatchHeader, PlacesOf
    <3>8. RunsThrough'
      <4>1. ASSUME aborted', q.origin # "computed"
            PROVE  \E i \in DOMAIN row' : row'[i].is = "crash" /\ Len(row'[i].path) > 2
        BY <3>3, <3>4, <4>1 DEF Range
      <4> QED
        BY <3>1, <4>1 DEF RunsThrough
    <3> QED
      BY <3>1, <3>5, <3>6, <3>7, <3>8 DEF TableInv
  <2> QED
    BY <2>1, <2>2
<1>7. CASE UNCHANGED vars
  <2>1. UNCHANGED <<q, handler, ws, kept, its, header, row, printed, aborted>>
    BY <1>7 DEF vars
  <2>2. HeldInv' /\ HeaderInv' /\ RowsMatchHeader'
    BY <1>0, <2>1 DEF TableInv, HeldInv, HeaderInv, RowsMatchHeader
  <2>3. RunsThrough'
    BY <2>1 DEF TableInv, RunsThrough, Below, Places, Forwards, Compound, Attr
  <2> QED
    BY <2>1, <2>2, <2>3 DEF TableInv
<1> QED
  BY <1>1, <1>2, <1>3, <1>4, <1>5, <1>6, <1>7, <1>9 DEF Next

(* What belongs to neither is not held.                                    *)
LEMMA TableInvReleased == TableInv => Released
<1>1. HandlersParts \cap WorkspaceParts = {}
  BY DEF HandlersParts, WorkspaceParts
<1> QED
  BY <1>1 DEF TableInv, HeldInv, Released, WorkspaceParts

(* The invariant holds in every state.                                     *)
LEMMA TableInvHolds == Spec => []TableInv
<1>1. TableInv /\ [Next]_vars => TableInv'
  BY TableNext
<1> QED
  BY <1>1, TableInit, PTL DEF Spec

(* Whatever the tree of handlers and whatever pointers of a record are     *)
(* NULL, a row that is printed has a cell for each named column, in the    *)
(* order of the names: the two walks of query-results-handler-csv.c, one   *)
(* that names and one that prints, go through the tree alike.              *)
THEOREM RowsMatchHeaderHolds == Spec => []RowsMatchHeader
<1>1. TableInv => RowsMatchHeader
  BY DEF TableInv
<1> QED
  BY <1>1, TableInvHolds, PTL

(* A handler that is cleaned up and a workspace that is destroyed leave    *)
(* nothing allocated, however many collections the tree has and whatever   *)
(* was printed (query-results-handler-csv.c, _free_tier).                  *)
THEOREM ReleasedHolds == Spec => []Released
BY TableInvReleased, TableInvHolds, PTL

(* Only a query without typed keys, an attribute that forwards to a        *)
(* compound or to a chain, a computed result, a pointer to a nested        *)
(* compound that is NULL, or a cleanup before the type was given ends the  *)
(* program, for every type of result.                                      *)
THEOREM RunsThroughHolds == Spec => []RunsThrough
<1>1. TableInv => RunsThrough
  BY DEF TableInv
<1> QED
  BY <1>1, TableInvHolds, PTL
-----------------------------------------------------------------------------
(* The cursors, which share nothing with the table.                        *)

(* What is known of the values the locks are made of. *)
LockTypes ==
  /\ state \in [Queries -> {"fresh", "open", "thrown", "closed"}]
  /\ lock \in [Queries -> Cursors \cup {None}]
  /\ bound \in [Cursors -> Queries \cup {None}]
  /\ kind \in [Cursors -> Types \cup {"fresh", "generic", "gone"}]

IInv == LockTypes /\ OneCursor

(* A program begins without cursors. *)
LEMMA InitIInv == CursorInit => IInv
BY DEF CursorInit, IInv, LockTypes, OneCursor

(* The constructor and the destructor of a query (query.cc): neither runs  *)
(* under a cursor.                                                         *)
LEMMA OpenIInv ==
  ASSUME IInv, NEW w \in Queries, Open(w) \/ Close(w)
  PROVE  IInv'
<1>1. CASE Open(w)
  <2>1. /\ state[w] = "fresh" /\ state' \in {[state EXCEPT ![w] = "thrown"],
                                             [state EXCEPT ![w] = "open"]}
        /\ UNCHANGED <<lock, bound, kind>>
    BY <1>1 DEF Open, cursor
  <2>2. LockTypes'
    BY <2>1 DEF IInv, LockTypes
  <2>3. OneCursor'
    BY <2>1, NoneAssumption DEF IInv, LockTypes, OneCursor, InUse
  <2>. QED  BY <2>2, <2>3 DEF IInv
<1>2. CASE Close(w)
  <2>1. /\ lock[w] = None /\ state' = [state EXCEPT ![w] = "closed"]
        /\ UNCHANGED <<lock, bound, kind>>
    BY <1>2 DEF Close, cursor
  <2>2. LockTypes'
    BY <2>1 DEF IInv, LockTypes
  <2>3. OneCursor'
    BY <2>1, NoneAssumption DEF IInv, LockTypes, OneCursor, InUse
  <2>. QED  BY <2>2, <2>3 DEF IInv
<1>. QED  BY <1>1, <1>2

(* A new cursor takes the lock of a query that has none, or is undone      *)
(* without a trace of it.                                                  *)
LEMMA NewCursorIInv ==
  ASSUME IInv, NEW w \in Queries, NEW c \in Cursors, NEW t \in Types \cup {"generic"},
         state[w] = "open", kind[c] = "fresh", UNCHANGED state,
         \/ kind' = [kind EXCEPT ![c] = "gone"] /\ UNCHANGED <<lock, bound>>
         \/ /\ lock[w] = None
            /\ kind' = [kind EXCEPT ![c] = t]
            /\ lock' = [lock EXCEPT ![w] = c]
            /\ bound' = [bound EXCEPT ![c] = w]
  PROVE  IInv'
<1>1. bound[c] = None
  BY NoneAssumption DEF IInv, LockTypes, OneCursor, InUse
<1>2. LockTypes'
  BY DEF IInv, LockTypes
<1>3. CASE kind' = [kind EXCEPT ![c] = "gone"] /\ UNCHANGED <<lock, bound>>
  <2>1. OneCursor'
    BY <1>1, <1>3, NoneAssumption DEF IInv, LockTypes, OneCursor, InUse
  <2>. QED  BY <1>2, <2>1 DEF IInv
<1>4. CASE /\ lock[w] = None
           /\ kind' = [kind EXCEPT ![c] = t]
           /\ lock' = [lock EXCEPT ![w] = c]
           /\ bound' = [bound EXCEPT ![c] = w]
  <2>1. t \notin {"fresh", "gone"}
    BY TypesAssumption
  <2>2. ASSUME NEW p \in Queries, lock'[p] # None
        PROVE  bound'[lock'[p]] = p /\ kind'[lock'[p]] \notin {"fresh", "gone"}
    BY <1>1, <1>4, <2>1, <2>2, NoneAssumption DEF IInv, LockTypes, OneCursor, InUse
  <2>3. ASSUME NEW d \in Cursors, bound'[d] # None
        PROVE  lock'[bound'[d]] = d /\ state'[bound'[d]] = "open"
    BY <1>1, <1>4, <2>3, NoneAssumption DEF IInv, LockTypes, OneCursor, InUse
  <2>4. OneCursor'
    BY <2>2, <2>3 DEF OneCursor, InUse
  <2>. QED  BY <1>2, <2>4 DEF IInv
<1>. QED  BY <1>3, <1>4

(* A typed cursor is bound to a query that is free.  (bind)                *)
LEMMA BindIInv ==
  ASSUME IInv, NEW c \in Cursors, NEW w \in Queries, Bind(c, w)
  PROVE  IInv'
<1>1. /\ kind[c] \in Types /\ bound[c] = None /\ state[w] = "open" /\ lock[w] = None
      /\ lock' = [lock EXCEPT ![w] = c] /\ bound' = [bound EXCEPT ![c] = w]
      /\ UNCHANGED <<state, kind>>
  BY DEF Bind, query, cursor
<1>2. LockTypes'
  BY <1>1 DEF IInv, LockTypes
<1>3. kind[c] \notin {"fresh", "gone"}
  BY <1>1, TypesAssumption
<1>4. ASSUME NEW p \in Queries, lock'[p] # None
      PROVE  bound'[lock'[p]] = p /\ kind'[lock'[p]] \notin {"fresh", "gone"}
  BY <1>1, <1>3, <1>4, NoneAssumption DEF IInv, LockTypes, OneCursor, InUse
<1>5. ASSUME NEW d \in Cursors, bound'[d] # None
      PROVE  lock'[bound'[d]] = d /\ state'[bound'[d]] = "open"
  BY <1>1, <1>5, NoneAssumption DEF IInv, LockTypes, OneCursor, InUse
<1>6. OneCursor'
  BY <1>4, <1>5 DEF OneCursor, InUse
<1>. QED  BY <1>2, <1>6 DEF IInv

(* A cursor lets go of its query.  (unbind and the destructors)            *)
LEMMA ReleaseIInv ==
  ASSUME IInv, NEW c \in Cursors, Unbind(c) \/ Drop(c)
  PROVE  IInv'
<1>1. /\ UNCHANGED state
      /\ kind' \in {kind, [kind EXCEPT ![c] = "gone"]}
      /\ bound' = [bound EXCEPT ![c] = None]
      /\ \/ bound[c] = None /\ lock' = lock
         \/ bound[c] # None /\ lock' = [lock EXCEPT ![bound[c]] = None]
  BY DEF Unbind, Drop, query, cursor, InUse
<1>2. LockTypes'
  BY <1>1 DEF IInv, LockTypes
<1>3. ASSUME NEW p \in Queries, lock'[p] # None
      PROVE  bound'[lock'[p]] = p /\ kind'[lock'[p]] \notin {"fresh", "gone"}
  <2>1. lock'[p] = lock[p] /\ lock[p] # c
    BY <1>1, <1>3, NoneAssumption DEF IInv, LockTypes, OneCursor
  <2>2. bound[lock[p]] = p /\ InUse(lock[p]) /\ lock[p] \in Cursors
    BY <1>3, <2>1 DEF IInv, LockTypes, OneCursor
  <2>. QED  BY <1>1, <2>1, <2>2 DEF IInv, LockTypes, InUse
<1>4. ASSUME NEW d \in Cursors, bound'[d] # None
      PROVE  lock'[bound'[d]] = d /\ state'[bound'[d]] = "open"
  <2>1. d # c /\ bound'[d] = bound[d] /\ bound[d] # None
    BY <1>1, <1>4 DEF IInv, LockTypes
  <2>2. lock[bound[d]] = d /\ state[bound[d]] = "open" /\ bound[d] \in Queries
    BY <2>1 DEF IInv, LockTypes, OneCursor
  <2>3. bound[c] # None => bound[c] # bound[d]
    BY <2>1, <2>2 DEF IInv, OneCursor
  <2>. QED  BY <1>1, <2>1, <2>2, <2>3 DEF IInv, LockTypes
<1>5. OneCursor'
  BY <1>3, <1>4 DEF OneCursor, InUse
<1>. QED  BY <1>2, <1>5 DEF IInv

(* Every other step leaves locks and cursors alone. *)
LEMMA OthersIInv ==
  ASSUME IInv, UNCHANGED <<state, lock, bound, kind>>
  PROVE  IInv'
BY DEF IInv, LockTypes, OneCursor, InUse

(* A step of any cursor or query.                                          *)
LEMMA NextIInv == IInv /\ [CursorNext]_cursorVars => IInv'
<1>. SUFFICES ASSUME IInv, [CursorNext]_cursorVars PROVE IInv'
  OBVIOUS
<1>1. CASE \E w \in Queries : Open(w) \/ Close(w)
  BY <1>1, OpenIInv
<1>2. CASE \E c \in Cursors : Unbind(c) \/ Drop(c)
  BY <1>2, ReleaseIInv
<1>3. CASE \E c \in Cursors, w \in Queries : Bind(c, w)
  BY <1>3, BindIInv
<1>4. ASSUME NEW w \in Queries, NEW c \in Cursors, NEW o \in Objects, GenericOn(w, c, o)
      PROVE  IInv'
  BY <1>4, NewCursorIInv DEF GenericOn
<1>5. ASSUME NEW w \in Queries, NEW c \in Cursors, NEW t \in Types, Typed(w, c, t)
      PROVE  IInv'
  BY <1>5, NewCursorIInv DEF Typed
<1>6. ASSUME NEW w \in Queries, NEW c \in Cursors, NEW t \in Types, NoConverter(w, c, t)
      PROVE  IInv'
  BY <1>6, NewCursorIInv DEF NoConverter, query
<1>7. ASSUME NEW w \in Queries, NEW c \in Cursors, NEW t \in Types, NEW o \in Objects,
             TypedOn(w, c, t, o)
      PROVE  IInv'
  BY <1>7, NewCursorIInv DEF TypedOn
<1>8. ASSUME NEW c \in Cursors, Advance(c)
      PROVE  IInv'
  BY <1>8, OthersIInv DEF Advance, cursor
<1>9. ASSUME NEW c \in Cursors, NEW o \in Objects, Reset(c, o)
      PROVE  IInv'
  BY <1>9, OthersIInv DEF Reset, cursor
<1>10. ASSUME NEW c \in Cursors, NEW t \in Types, Get(c, t)
       PROVE  IInv'
  BY <1>10, OthersIInv DEF Get, cursor
<1>11. CASE UNCHANGED cursorVars
  BY <1>11, OthersIInv DEF cursorVars, query, cursor
<1>. QED
  BY <1>1, <1>2, <1>3, <1>4, <1>5, <1>6, <1>7, <1>8, <1>9, <1>10, <1>11 DEF CursorNext

(* The lock of a query and the query of a cursor are a pair, and no query  *)
(* is destroyed under a cursor, for all numbers of queries and cursors and *)
(* whichever constructor throws (query.cc, _lock_by and _unlock).          *)
THEOREM CursorsExclusive == CursorSpec => []OneCursor
<1>1. CursorInit => IInv
  BY InitIInv
<1>2. IInv /\ [CursorNext]_cursorVars => IInv'
  BY NextIInv
<1>3. IInv => OneCursor
  BY DEF IInv
<1>. QED  BY <1>1, <1>2, <1>3, PTL DEF CursorSpec
-----------------------------------------------------------------------------
(* The tables of what is allocated for a query. *)
BufferTypes ==
  /\ DOMAIN held = Queries /\ held = [w \in Queries |-> held[w]]
  /\ DOMAIN convs = Queries /\ convs = [w \in Queries |-> convs[w]]

BufferInv == BufferTypes /\ NothingLeft

(* A step that opens no query and closes none may add buffers to open      *)
(* queries only.                                                           *)
LEMMA BuffersOfOpen ==
  ASSUME IInv, BufferInv, UNCHANGED <<state, held>>, NEW w \in Queries, state[w] = "open",
         NEW s, convs' = [convs EXCEPT ![w] = s] \/ UNCHANGED convs
  PROVE  BufferInv'
<1>1. BufferTypes'
  BY DEF BufferInv, BufferTypes
<1>2. NothingLeft'
  BY DEF BufferInv, BufferTypes, NothingLeft
<1>. QED  BY <1>1, <1>2 DEF BufferInv

(* A step that touches no buffer.                                          *)
LEMMA NoBuffers ==
  ASSUME BufferInv, UNCHANGED <<state, held, convs>>
  PROVE  BufferInv'
BY DEF BufferInv, BufferTypes, NothingLeft

(* The constructor and the destructor of a query.                          *)
LEMMA OpenBuffers ==
  ASSUME IInv, BufferInv, NEW w \in Queries, Open(w) \/ Close(w)
  PROVE  BufferInv'
<1>1. CASE Open(w)
  <2>1. PICK h : held' = [held EXCEPT ![w] = h]
    BY <1>1 DEF Open
  <2>2. /\ state[w] = "fresh" /\ convs' = convs
        /\ state' \in {[state EXCEPT ![w] = "thrown"], [state EXCEPT ![w] = "open"]}
    BY <1>1 DEF Open
  <2>3. BufferTypes'
    BY <2>1, <2>2 DEF BufferInv, BufferTypes
  <2>4. NothingLeft'
    BY <2>1, <2>2 DEF BufferInv, BufferTypes, NothingLeft, IInv, LockTypes
  <2>. QED  BY <2>3, <2>4 DEF BufferInv
<1>2. CASE Close(w)
  <2>1. /\ state' = [state EXCEPT ![w] = "closed"]
        /\ held' = [held EXCEPT ![w] = {}] /\ convs' = [convs EXCEPT ![w] = {}]
    BY <1>2 DEF Close
  <2>2. BufferTypes'
    BY <2>1 DEF BufferInv, BufferTypes
  <2>3. NothingLeft'
    BY <2>1 DEF BufferInv, BufferTypes, NothingLeft, IInv, LockTypes
  <2>. QED  BY <2>2, <2>3 DEF BufferInv
<1>. QED  BY <1>1, <1>2

(* Results are read through cursors that are bound, so of open queries. *)
LEMMA GetBuffers ==
  ASSUME IInv, BufferInv, NEW c \in Cursors, NEW t \in Types, Get(c, t)
  PROVE  BufferInv'
<1>1. bound[c] \in Queries /\ state[bound[c]] = "open"
  BY DEF Get, IInv, LockTypes, OneCursor
<1>2. UNCHANGED <<state, held>>
  BY DEF Get
<1>3. \/ UNCHANGED convs
      \/ \E e : convs' = [convs EXCEPT ![bound[c]] = @ \cup ({e} \ {None})]
  BY DEF Get, Remember
<1>. QED  BY <1>1, <1>2, <1>3, BuffersOfOpen

(* A step of any cursor or query.                                          *)
LEMMA NextBuffers == IInv /\ BufferInv /\ [CursorNext]_cursorVars => BufferInv'
<1>. SUFFICES ASSUME IInv, BufferInv, [CursorNext]_cursorVars PROVE BufferInv'
  OBVIOUS
<1>1. CASE \E w \in Queries : Open(w) \/ Close(w)
  BY <1>1, OpenBuffers
<1>2. CASE \E c \in Cursors : Unbind(c) \/ Drop(c)
  BY <1>2, NoBuffers DEF Unbind, Drop, query
<1>3. CASE \E c \in Cursors, w \in Queries : Bind(c, w)
  BY <1>3, NoBuffers DEF Bind, query
<1>4. CASE \E w \in Queries, c \in Cursors, o \in Objects : GenericOn(w, c, o)
  BY <1>4, NoBuffers DEF GenericOn
<1>5. ASSUME NEW w \in Queries, NEW c \in Cursors, NEW t \in Types, Typed(w, c, t)
      PROVE  BufferInv'
  BY <1>5, BuffersOfOpen DEF Typed, Remember
<1>6. CASE \E w \in Queries, c \in Cursors, t \in Types : NoConverter(w, c, t)
  BY <1>6, NoBuffers DEF NoConverter, query
<1>7. ASSUME NEW w \in Queries, NEW c \in Cursors, NEW t \in Types, NEW o \in Objects,
             TypedOn(w, c, t, o)
      PROVE  BufferInv'
  BY <1>7, BuffersOfOpen DEF TypedOn, Remember
<1>8. CASE \E c \in Cursors : Advance(c)
  BY <1>8, NoBuffers DEF Advance
<1>9. CASE \E c \in Cursors, o \in Objects : Reset(c, o)
  BY <1>9, NoBuffers DEF Reset
<1>10. CASE \E c \in Cursors, t \in Types : Get(c, t)
  BY <1>10, GetBuffers
<1>11. CASE UNCHANGED cursorVars
  BY <1>11, NoBuffers DEF cursorVars, query
<1>. QED
  BY <1>1, <1>2, <1>3, <1>4, <1>5, <1>6, <1>7, <1>8, <1>9, <1>10, <1>11 DEF CursorNext

(* A query that was opened and destroyed holds nothing, the buffers that   *)
(* cursors had it allocate included (query.cc, ~Query).                    *)
THEOREM BuffersReleased == CursorSpec => []NothingLeft
<1>1. CursorInit => IInv /\ BufferInv
  BY InitIInv DEF CursorInit, BufferInv, BufferTypes, NothingLeft
<1>2. IInv /\ BufferInv /\ [CursorNext]_cursorVars => (IInv /\ BufferInv)'
  BY NextIInv, NextBuffers
<1>3. BufferInv => NothingLeft
  BY DEF BufferInv
<1>. QED  BY <1>1, <1>2, <1>3, PTL DEF CursorSpec

-----------------------------------------------------------------------------
(***************************************************************************)
(* Keys.  What is known of the blocks of cells `ls', the blocks of data    *)
(* `ds' and the keys' own blocks `rs'; `gone' are the cells that a running *)
(* destruction has visited: they still hold what they pointed to.          *)
(***************************************************************************)
CellsOfKeys == [code : {0, 1}, pl : {"plain", "list"}, term : BOOLEAN, ptr : Blocks \cup {0}]

SoundCell(cell) ==
  /\ cell.pl = "list" => cell.ptr # 0 /\ cell.code = 0
  /\ cell.pl = "plain" /\ cell.code = 0 => cell.ptr = 0

CellsAreSound(ls) ==
  /\ DOMAIN ls \subseteq Blocks
  /\ ls \in [DOMAIN ls -> Seq(CellsOfKeys)]
  /\ \A b \in DOMAIN ls :
       ls[b] # <<>> /\ \A i \in DOMAIN ls[b] : SoundCell(ls[b][i])

RootsAreCells(ls, rs) ==
  /\ rs \in [Keys -> Blocks \cup {0}]
  /\ \A k \in Keys : rs[k] # 0 => rs[k] \in DOMAIN ls /\ Len(ls[rs[k]]) = 1 /\ ls[rs[k]][1].code = 0
  /\ \A j, k \in Keys : rs[j] = rs[k] /\ rs[j] # 0 => j = k

BlocksApart(ls, ds) == DOMAIN ds \subseteq Blocks /\ DOMAIN ls \cap DOMAIN ds = {}

(* The cells that own a block: all that are not gone and point to one.     *)
Owning(ls, gone, b, i) ==
  b \in DOMAIN ls /\ i \in DOMAIN ls[b] /\ <<b, i>> \notin gone /\ ls[b][i].ptr # 0

PointToLive(ls, ds, gone) ==
  \A b, i : Owning(ls, gone, b, i) =>
    ls[b][i].ptr \in (IF ls[b][i].pl = "list" THEN DOMAIN ls ELSE DOMAIN ds)

PointApart(ls, rs, gone) ==
  /\ \A b, i, d, j : Owning(ls, gone, b, i) /\ Owning(ls, gone, d, j)
                     /\ ls[b][i].ptr = ls[d][j].ptr => b = d /\ i = j
  /\ \A b, i : Owning(ls, gone, b, i) => \A k \in Keys : rs[k] # ls[b][i].ptr

HaveOwner(ls, ds, rs, gone) ==
  \A b \in DOMAIN ls \cup DOMAIN ds :
    \/ \E k \in Keys : rs[k] = b
    \/ \E d, i : Owning(ls, gone, d, i) /\ ls[d][i].ptr = b

Owned(ls, ds, rs, gone) ==
  /\ CellsAreSound(ls) /\ RootsAreCells(ls, rs) /\ BlocksApart(ls, ds)
  /\ PointToLive(ls, ds, gone) /\ PointApart(ls, rs, gone) /\ HaveOwner(ls, ds, rs, gone)

(* The last cell of a list is marked, but for a list `open' whose          *)
(* reservation is at its end.                                              *)
LastMarked(ls, rs, open) ==
  \A b \in DOMAIN ls \ {rs[k] : k \in Keys} : \A i \in DOMAIN ls[b] :
    /\ i < Len(ls[b]) => ~ls[b][i].term
    /\ i = Len(ls[b]) /\ b \notin open => ls[b][i].term

Gone ==
  IF task.op = "destroy"
  THEN {a \in Blocks \X Nat : \E d \in DOMAIN stack : stack[d].list = a[1] /\ a[2] \in 1..(stack[d].i - 1)}
  ELSE {}

OpenLists ==
  IF task.op = "reserve" /\ Inner.i > Len(Inner.links) THEN {Inner.cells[1][1]} ELSE {}

WalkFrames == [list : Blocks, i : Nat \ {0}]

(* The loops of a walk: each is over the list of the cell the one outside  *)
(* is at.                                                                  *)
WalkLoops ==
  /\ stack \in Seq(WalkFrames) /\ stack # <<>>
  /\ stack[1].list = root[task.key]
  /\ \A d \in DOMAIN stack :
       /\ stack[d].list \in DOMAIN lists
       /\ stack[d].i <= Len(lists[stack[d].list]) + 1
       /\ d > 1 =>
            LET a == <<stack[d - 1].list, stack[d - 1].i>>
            IN stack[d - 1].i <= Len(lists[stack[d - 1].list]) /\ At(a).pl = "list"
               /\ At(a).ptr = stack[d].list
  /\ \A d, x \in DOMAIN stack : stack[d].list = stack[x].list => d = x

(* The loops of a reservation: the cells to come are not in use, but for   *)
(* those of bound queries, which the first call has marked as lists.       *)
LoopFrames == [links : Seq(KeyLinks), cells : Seq(Blocks \X Nat), i : Nat \ {0}]

LoopIsWhole(f) ==
  /\ f.links # <<>> /\ f.i <= Len(f.links) + 1 /\ Len(f.cells) = Len(f.links)
  /\ \A j \in DOMAIN f.links : IsLink(f.links[j], DOMAIN keyed.chains)

LoopOver(f, ls, rs) ==
  LET b == f.cells[1][1]
  IN /\ f.cells = CellsOf(b, f.links)
     /\ b \in DOMAIN ls /\ \A k \in Keys : rs[k] # b
     /\ Len(ls[b]) = Len(f.links)
     /\ \A j \in f.i..Len(f.links) :
          f.links[j].kind = "fwd" \/ (ls[b][j].pl = "plain" /\ ls[b][j].code = 0)

LoopsOf(st, ls, rs, k) ==
  /\ st \in Seq(LoopFrames) /\ st # <<>>
  /\ st[1].links = <<Whole>> /\ st[1].cells = <<<<rs[k], 1>>>>
  /\ \A d \in DOMAIN st : LoopIsWhole(st[d])
  /\ \A d \in 2..Len(st) : LoopOver(st[d], ls, rs)
  /\ \A d, x \in 2..Len(st) : st[d].cells[1][1] = st[x].cells[1][1] => d = x

ReserveLoops == LoopsOf(stack, lists, root, task.key)

ProductListsOf(ls, rs) ==
  keyed.direct =>
    \A k \in Keys : rs[k] # 0 /\ ls[rs[k]][1].pl = "list" =>
      Len(ls[ls[rs[k]][1].ptr]) = Len(keyed.chains[1][1].sub)

(* The keys but the one that is being destroyed.                           *)
Remaining == IF task.op = "destroy" THEN [root EXCEPT ![task.key] = 0] ELSE root

ProductLists == ProductListsOf(lists, Remaining)

OwnsInv ==
  /\ keyed \in KeyedQueries
  /\ broken # "memory"
  /\ task.op \in {"reserve", "view", "destroy"} => task.key \in Keys /\ root[task.key] # 0
  /\ Owned(lists, data, root, Gone)
  /\ LastMarked(lists, root, OpenLists)
  /\ task.op \in {"view", "destroy"} => WalkLoops
  /\ task.op = "reserve" => ReserveLoops
  /\ ProductLists

(* A block of memory that was not in use is put to use.                    *)
LEMMA FreshIsFree ==
  ASSUME Free # {}
  PROVE  Fresh \in Blocks /\ Fresh \notin Live /\ Fresh # 0
BY BlocksAssumption DEF Fresh, Free

LEMMA VoidIsSound == Void \in CellsOfKeys /\ SoundCell(Void)
BY DEF Void, CellsOfKeys, SoundCell

(* A new key: one cell that points nowhere.                                *)
LEMMA NewKeyOwned ==
  ASSUME NEW ls, NEW ds, NEW rs, Owned(ls, ds, rs, {}), NEW k \in Keys, rs[k] = 0,
         NEW n \in Blocks, n \notin DOMAIN ls, n \notin DOMAIN ds,
         NEW open, LastMarked(ls, rs, open)
  PROVE  LET ls2 == With(ls, n, <<Void>>)
             rs2 == [rs EXCEPT ![k] = n]
         IN Owned(ls2, ds, rs2, {}) /\ LastMarked(ls2, rs2, open)
<1> DEFINE ls2 == With(ls, n, <<Void>>)
           rs2 == [rs EXCEPT ![k] = n]
<1> n # 0
  BY BlocksAssumption
<1>1. /\ DOMAIN ls2 = DOMAIN ls \cup {n}
      /\ ls2[n] = <<Void>>
      /\ \A b \in DOMAIN ls : ls2[b] = ls[b]
      /\ ls2 = [b \in DOMAIN ls2 |-> ls2[b]]
  BY DEF With
<1>2. rs2 \in [Keys -> Blocks \cup {0}] /\ rs2[k] = n /\ \A j \in Keys : j # k => rs2[j] = rs[j]
  BY DEF Owned, RootsAreCells
<1> HIDE DEF ls2, rs2
<1>3. CellsAreSound(ls2)
  <2>1. <<Void>> \in Seq(CellsOfKeys) /\ <<Void>> # <<>>
    BY VoidIsSound
  <2>2. \A i \in DOMAIN <<Void>> : SoundCell(<<Void>>[i])
    BY VoidIsSound
  <2> QED
    BY <1>1, <2>1, <2>2 DEF Owned, CellsAreSound
<1>4. RootsAreCells(ls2, rs2)
  <2>1. Len(ls2[n]) = 1 /\ ls2[n][1].code = 0
    BY <1>1 DEF Void
  <2>2. \A j \in Keys : rs[j] # n /\ (rs[j] # 0 => rs[j] \in DOMAIN ls)
    BY DEF Owned, RootsAreCells
  <2>3. ASSUME NEW j \in Keys, rs2[j] # 0
        PROVE  rs2[j] \in DOMAIN ls2 /\ Len(ls2[rs2[j]]) = 1 /\ ls2[rs2[j]][1].code = 0
    <3>1. CASE j = k
      BY <3>1, <2>1, <1>1, <1>2
    <3>2. CASE j # k
      BY <3>2, <2>2, <2>3, <1>1, <1>2 DEF Owned, RootsAreCells
    <3> QED
      BY <3>1, <3>2
  <2>4. \A i, j \in Keys : rs2[i] = rs2[j] /\ rs2[i] # 0 => i = j
    BY <1>2, <2>2 DEF Owned, RootsAreCells
  <2> QED
    BY <1>2, <2>3, <2>4 DEF RootsAreCells
<1>5. BlocksApart(ls2, ds)
  BY <1>1 DEF Owned, BlocksApart
<1>6. \A b, i : Owning(ls2, {}, b, i) <=> Owning(ls, {}, b, i)
  BY <1>1 DEF Owning, Void
<1>7. \A b, i : Owning(ls, {}, b, i) => ls2[b][i] = ls[b][i] /\ ls[b][i].ptr # n
  BY <1>1 DEF Owning, Owned, PointToLive
<1>8. PointToLive(ls2, ds, {})
  BY <1>1, <1>6, <1>7 DEF Owned, PointToLive
<1>9. PointApart(ls2, rs2, {})
  BY <1>2, <1>6, <1>7 DEF Owned, PointApart
<1>10. HaveOwner(ls2, ds, rs2, {})
  <2> SUFFICES ASSUME NEW b \in DOMAIN ls2 \cup DOMAIN ds
               PROVE  \/ \E j \in Keys : rs2[j] = b
                      \/ \E d, i : Owning(ls2, {}, d, i) /\ ls2[d][i].ptr = b
    BY DEF HaveOwner
  <2>1. CASE b = n
    BY <2>1, <1>2
  <2>2. CASE \E j \in Keys : rs[j] = b
    <3>1. b # 0
      BY <1>1, BlocksAssumption DEF Owned, CellsAreSound, BlocksApart
    <3> QED
      BY <2>2, <3>1, <1>2
  <2>3. CASE \E d, i : Owning(ls, {}, d, i) /\ ls[d][i].ptr = b
    BY <2>3, <1>6, <1>7
  <2> QED
    BY <2>1, <2>2, <2>3, <1>1 DEF Owned, HaveOwner
<1>11. LastMarked(ls2, rs2, open)
  <2>1. DOMAIN ls2 \ {rs2[j] : j \in Keys} \subseteq DOMAIN ls \ {rs[j] : j \in Keys}
    <3> SUFFICES ASSUME NEW b \in DOMAIN ls2, \A j \in Keys : rs2[j] # b,
                        NEW j \in Keys, rs[j] = b
                 PROVE  FALSE
      BY <1>1, <1>2
    <3>1. b # 0
      BY <1>1, BlocksAssumption DEF Owned, CellsAreSound
    <3> QED
      BY <3>1, <1>2
  <2> QED
    BY <1>1, <2>1 DEF LastMarked
<1> QED
  BY <1>3, <1>4, <1>5, <1>8, <1>9, <1>10, <1>11 DEF Owned, ls2, rs2

(* One cell is written.                                                    *)
Replaced(ls, b, i, c) == [ls EXCEPT ![b][i] = c]

LEMMA CellReplaced ==
  ASSUME NEW ls, CellsAreSound(ls), NEW b \in DOMAIN ls, NEW i \in DOMAIN ls[b],
         NEW c \in CellsOfKeys, SoundCell(c), NEW ls2, ls2 = Replaced(ls, b, i, c)
  PROVE  /\ CellsAreSound(ls2)
         /\ DOMAIN ls2 = DOMAIN ls
         /\ \A d \in DOMAIN ls : DOMAIN ls2[d] = DOMAIN ls[d] /\ Len(ls2[d]) = Len(ls[d])
         /\ ls2[b][i] = c
         /\ \A d \in DOMAIN ls : \A j \in DOMAIN ls[d] :
              d # b \/ j # i => ls2[d][j] = ls[d][j]
<1> DEFINE cells == [ls[b] EXCEPT ![i] = c]
<1>1. \A d \in DOMAIN ls : ls[d] \in Seq(CellsOfKeys) /\ ls[d] # <<>>
  BY DEF CellsAreSound
<1>2. ls[b] \in Seq(CellsOfKeys) /\ i \in 1..Len(ls[b])
  BY <1>1
<1>3. /\ cells \in Seq(CellsOfKeys) /\ Len(cells) = Len(ls[b]) /\ cells # <<>>
      /\ cells[i] = c /\ \A j \in DOMAIN ls[b] : j # i => cells[j] = ls[b][j]
      /\ DOMAIN cells = DOMAIN ls[b]
  BY <1>2
<1>4. ls2 = [ls EXCEPT ![b] = cells]
  BY DEF Replaced
<1> HIDE DEF cells
<1>5. DOMAIN ls2 = DOMAIN ls /\ ls2[b] = cells /\ \A d \in DOMAIN ls : d # b => ls2[d] = ls[d]
  BY <1>4 DEF CellsAreSound
<1>6. ls2 \in [DOMAIN ls2 -> Seq(CellsOfKeys)]
  BY <1>1, <1>3, <1>4, <1>5 DEF CellsAreSound
<1>7. \A d \in DOMAIN ls2 : ls2[d] # <<>> /\ \A j \in DOMAIN ls2[d] : SoundCell(ls2[d][j])
  <2> TAKE d \in DOMAIN ls2
  <2>1. CASE d = b
    BY <2>1, <1>3, <1>5 DEF CellsAreSound
  <2>2. CASE d # b
    BY <2>2, <1>1, <1>5 DEF CellsAreSound
  <2> QED
    BY <2>1, <2>2
<1>8. CellsAreSound(ls2)
  BY <1>5, <1>6, <1>7 DEF CellsAreSound
<1> QED
  BY <1>3, <1>5, <1>8

(* A block of cells is added.                                              *)
LEMMA BlockAdded ==
  ASSUME NEW ls, CellsAreSound(ls), NEW n \in Blocks, n \notin DOMAIN ls,
         NEW new \in Seq(CellsOfKeys), new # <<>>, \A j \in DOMAIN new : SoundCell(new[j]),
         NEW ls2, ls2 = With(ls, n, new)
  PROVE  /\ CellsAreSound(ls2)
         /\ \A d : d \in DOMAIN ls2 <=> d \in DOMAIN ls \/ d = n
         /\ ls2[n] = new /\ \A d \in DOMAIN ls : ls2[d] = ls[d]
<1>1. /\ DOMAIN ls2 = DOMAIN ls \cup {n}
      /\ ls2[n] = new
      /\ \A d \in DOMAIN ls : ls2[d] = ls[d]
      /\ ls2 = [d \in DOMAIN ls2 |-> ls2[d]]
  BY DEF With
<1>2. CellsAreSound(ls2)
  BY <1>1 DEF CellsAreSound
<1> QED
  BY <1>1, <1>2

(* The roots do not change and their cells are not the data of a key.      *)
LEMMA RootsKept ==
  ASSUME NEW ls, NEW rs, RootsAreCells(ls, rs), NEW ls2,
         DOMAIN ls \subseteq DOMAIN ls2,
         \A k \in Keys : rs[k] # 0 =>
           Len(ls2[rs[k]]) = Len(ls[rs[k]]) /\ ls2[rs[k]][1].code = 0
  PROVE  RootsAreCells(ls2, rs)
BY DEF RootsAreCells

(* A cell that pointed nowhere comes to own a block that was free; cells   *)
(* in that block own nothing yet.                                          *)
LEMMA Acquired ==
  ASSUME NEW ls, NEW ds, NEW rs, Owned(ls, ds, rs, {}),
         NEW ls2, NEW ds2, CellsAreSound(ls2), RootsAreCells(ls2, rs), BlocksApart(ls2, ds2),
         NEW n, n \notin DOMAIN ls, n \notin DOMAIN ds, n # 0,
         \A x \in DOMAIN ls : x \in DOMAIN ls2, \A x \in DOMAIN ds : x \in DOMAIN ds2,
         \A x \in DOMAIN ls2 : x = n \/ x \in DOMAIN ls,
         \A x \in DOMAIN ds2 : x = n \/ x \in DOMAIN ds,
         NEW b \in DOMAIN ls, NEW i \in DOMAIN ls[b], ls[b][i].ptr = 0,
         ls2[b][i].ptr = n,
         n \in (IF ls2[b][i].pl = "list" THEN DOMAIN ls2 ELSE DOMAIN ds2),
         \A d \in DOMAIN ls : DOMAIN ls2[d] = DOMAIN ls[d],
         \A d \in DOMAIN ls : \A j \in DOMAIN ls[d] : d # b \/ j # i => ls2[d][j] = ls[d][j],
         \A j \in DOMAIN ls2[n] : n \in DOMAIN ls2 => ls2[n][j].ptr = 0
  PROVE  Owned(ls2, ds2, rs, {})
<1>1. \A d, j : Owning(ls2, {}, d, j) <=> Owning(ls, {}, d, j) \/ (d = b /\ j = i)
  <2> TAKE d, j
  <2>1. CASE d \in DOMAIN ls
    BY <2>1 DEF Owning
  <2>2. CASE d \notin DOMAIN ls
    <3>1. d \in DOMAIN ls2 => d = n
      BY <2>2 DEF Owned, BlocksApart
    <3> QED
      BY <2>2, <3>1 DEF Owning
  <2> QED
    BY <2>1, <2>2
<1>2. \A d, j : Owning(ls, {}, d, j) =>
        (d # b \/ j # i) /\ ls2[d][j] = ls[d][j] /\ ls[d][j].ptr # n
  BY DEF Owning, Owned, PointToLive
<1>3. PointToLive(ls2, ds2, {})
  BY <1>1, <1>2 DEF Owned, PointToLive
<1>4. \A k \in Keys : rs[k] # n
  BY DEF Owned, RootsAreCells
<1>5. \A x, j, d, e : Owning(ls2, {}, x, j) /\ Owning(ls2, {}, d, e)
                      /\ ls2[x][j].ptr = ls2[d][e].ptr => x = d /\ j = e
  <2>1. \A x, j, d, e : Owning(ls, {}, x, j) /\ Owning(ls, {}, d, e)
                        /\ ls[x][j].ptr = ls[d][e].ptr => x = d /\ j = e
    BY DEF Owned, PointApart
  <2> SUFFICES ASSUME NEW x, NEW j, NEW d, NEW e, Owning(ls2, {}, x, j), Owning(ls2, {}, d, e),
                      ls2[x][j].ptr = ls2[d][e].ptr
               PROVE  x = d /\ j = e
    OBVIOUS
  <2>2. CASE x = b /\ j = i
    BY <2>2, <1>1, <1>2
  <2>3. CASE Owning(ls, {}, x, j) /\ Owning(ls, {}, d, e)
    <3>1. ls2[x][j] = ls[x][j] /\ ls2[d][e] = ls[d][e]
      BY <2>3, <1>2
    <3> QED
      BY <2>1, <2>3, <3>1
  <2>4. CASE Owning(ls, {}, x, j) /\ ~Owning(ls, {}, d, e)
    <3>1. ls2[x][j].ptr # n /\ ls2[d][e].ptr = n
      BY <2>4, <1>1, <1>2
    <3> QED
      BY <3>1
  <2> QED
    BY <2>2, <2>3, <2>4, <1>1
<1>6. \A x, j : Owning(ls2, {}, x, j) => \A k \in Keys : rs[k] # ls2[x][j].ptr
  BY <1>1, <1>2, <1>4 DEF Owned, PointApart
<1>7. HaveOwner(ls2, ds2, rs, {})
  <2> SUFFICES ASSUME NEW x \in DOMAIN ls2 \cup DOMAIN ds2
               PROVE  \/ \E k \in Keys : rs[k] = x
                      \/ \E d, j : Owning(ls2, {}, d, j) /\ ls2[d][j].ptr = x
    BY DEF HaveOwner
  <2>1. CASE x = n
    BY <2>1, <1>1
  <2>2. CASE x # n
    BY <2>2, <1>1, <1>2 DEF Owned, HaveOwner
  <2> QED
    BY <2>1, <2>2
<1> QED
  BY <1>3, <1>5, <1>6, <1>7 DEF Owned, PointApart

(* A cell changes, but what it points to.                                  *)
LEMMA Rewritten ==
  ASSUME NEW ls, NEW ds, NEW rs, NEW gone, Owned(ls, ds, rs, gone),
         NEW ls2, CellsAreSound(ls2), RootsAreCells(ls2, rs), DOMAIN ls2 = DOMAIN ls,
         \A d \in DOMAIN ls : DOMAIN ls2[d] = DOMAIN ls[d],
         \A d \in DOMAIN ls : \A j \in DOMAIN ls[d] :
           ls2[d][j].ptr = ls[d][j].ptr /\ ls2[d][j].pl = ls[d][j].pl
  PROVE  Owned(ls2, ds, rs, gone)
<1>1. \A d, j : Owning(ls2, gone, d, j) <=> Owning(ls, gone, d, j)
  BY DEF Owning
<1>2. \A d, j : Owning(ls, gone, d, j) =>
        ls2[d][j].ptr = ls[d][j].ptr /\ ls2[d][j].pl = ls[d][j].pl
  BY DEF Owning
<1>3. PointToLive(ls2, ds, gone)
  BY <1>1, <1>2 DEF Owned, PointToLive
<1>4. PointApart(ls2, rs, gone)
  BY <1>1, <1>2 DEF Owned, PointApart
<1>5. HaveOwner(ls2, ds, rs, gone)
  BY <1>1, <1>2 DEF Owned, HaveOwner
<1>6. BlocksApart(ls2, ds)
  BY DEF Owned, BlocksApart
<1> QED
  BY <1>3, <1>4, <1>5, <1>6 DEF Owned

(* A cell without a block is left behind.                                  *)
LEMMA LeftBehind ==
  ASSUME NEW ls, NEW ds, NEW rs, NEW gone, Owned(ls, ds, rs, gone),
         NEW b \in DOMAIN ls, NEW i \in DOMAIN ls[b], ls[b][i].ptr = 0
  PROVE  Owned(ls, ds, rs, gone \cup {<<b, i>>})
<1> DEFINE gone2 == gone \cup {<<b, i>>}
<1>1. \A d, j : Owning(ls, gone2, d, j) <=> Owning(ls, gone, d, j)
  BY DEF Owning
<1> HIDE DEF gone2
<1>2. PointToLive(ls, ds, gone2)
  BY <1>1 DEF Owned, PointToLive
<1>3. PointApart(ls, rs, gone2)
  BY <1>1 DEF Owned, PointApart
<1>4. HaveOwner(ls, ds, rs, gone2)
  BY <1>1 DEF Owned, HaveOwner
<1> QED
  BY <1>2, <1>3, <1>4 DEF Owned, gone2

(* The data of a cell are freed.                                           *)
LEMMA DatumFreed ==
  ASSUME NEW ls, NEW ds, NEW rs, NEW gone, Owned(ls, ds, rs, gone),
         NEW b, NEW i, Owning(ls, gone, b, i), ls[b][i].pl # "list"
  PROVE  /\ ls[b][i].ptr \in DOMAIN ds
         /\ Owned(ls, Without(ds, ls[b][i].ptr), rs, gone \cup {<<b, i>>})
<1> DEFINE n == ls[b][i].ptr
           ds2 == Without(ds, n)
           gone2 == gone \cup {<<b, i>>}
<1>1. n \in DOMAIN ds /\ DOMAIN ds2 = DOMAIN ds \ {n}
  BY DEF Owned, PointToLive, Without
<1> HIDE DEF ds2
<1>2. \A d, j : Owning(ls, gone2, d, j) <=> Owning(ls, gone, d, j) /\ (d # b \/ j # i)
  BY DEF Owning
<1> HIDE DEF gone2
<1>3. \A d, j : Owning(ls, gone2, d, j) => ls[d][j].ptr # n
  BY <1>2 DEF Owned, PointApart
<1>4. PointToLive(ls, ds2, gone2)
  BY <1>1, <1>2, <1>3 DEF Owned, PointToLive
<1>5. PointApart(ls, rs, gone2)
  BY <1>2 DEF Owned, PointApart
<1>6. HaveOwner(ls, ds2, rs, gone2)
  <2>1. n \notin DOMAIN ls
    BY <1>1 DEF Owned, BlocksApart
  <2> QED
    BY <1>1, <1>2, <2>1 DEF Owned, HaveOwner
<1>7. BlocksApart(ls, ds2)
  BY <1>1 DEF Owned, BlocksApart
<1> QED
  BY <1>1, <1>4, <1>5, <1>6, <1>7 DEF Owned, ds2, gone2

(* A list whose cells are gone is freed.                                   *)
LEMMA ListFreed ==
  ASSUME NEW ls, NEW ds, NEW rs, NEW gone, Owned(ls, ds, rs, gone),
         NEW b, NEW i, Owning(ls, gone, b, i), ls[b][i].pl = "list",
         \A j \in DOMAIN ls[ls[b][i].ptr] : <<ls[b][i].ptr, j>> \in gone,
         NEW gone2,
         \A d, j : d # ls[b][i].ptr => (<<d, j>> \in gone2 <=> <<d, j>> \in gone \cup {<<b, i>>})
  PROVE  /\ ls[b][i].ptr \in DOMAIN ls
         /\ Owned(Without(ls, ls[b][i].ptr), ds, rs, gone2)
<1> DEFINE n == ls[b][i].ptr
           ls2 == Without(ls, n)
<1>1. n \in DOMAIN ls /\ DOMAIN ls2 = DOMAIN ls \ {n}
      /\ (\A d \in DOMAIN ls2 : ls2[d] = ls[d]) /\ ls2 = [d \in DOMAIN ls2 |-> ls2[d]]
  BY DEF Owned, PointToLive, Without
<1>2. \A k \in Keys : rs[k] # n
  BY DEF Owned, PointApart
<1> HIDE DEF ls2
<1>3. \A d, j : Owning(ls2, gone2, d, j) <=> Owning(ls, gone, d, j) /\ (d # b \/ j # i)
  <2> TAKE d, j
  <2>1. CASE d = n
    BY <2>1, <1>1 DEF Owning
  <2>2. CASE d # n
    BY <2>2, <1>1 DEF Owning
  <2> QED
    BY <2>1, <2>2
<1>4. \A d, j : Owning(ls2, gone2, d, j) => ls2[d][j] = ls[d][j] /\ ls[d][j].ptr # n
  <2> TAKE d, j
  <2> HAVE Owning(ls2, gone2, d, j)
  <2>1. ls2[d] = ls[d]
    BY <1>1 DEF Owning
  <2>2. Owning(ls, gone, d, j) /\ (d # b \/ j # i)
    BY <1>3
  <2> QED
    BY <2>1, <2>2 DEF Owned, PointApart
<1>5. CellsAreSound(ls2)
  BY <1>1 DEF Owned, CellsAreSound
<1>6. RootsAreCells(ls2, rs)
  BY <1>1, <1>2 DEF Owned, RootsAreCells
<1>7. PointToLive(ls2, ds, gone2)
  BY <1>1, <1>3, <1>4 DEF Owned, PointToLive
<1>8. PointApart(ls2, rs, gone2)
  BY <1>3, <1>4 DEF Owned, PointApart
<1>9. HaveOwner(ls2, ds, rs, gone2)
  <2>1. n \notin DOMAIN ds
    BY <1>1 DEF Owned, BlocksApart
  <2> QED
    BY <1>1, <1>3, <1>4, <2>1 DEF Owned, HaveOwner
<1>10. BlocksApart(ls2, ds)
  BY <1>1 DEF Owned, BlocksApart
<1> QED
  BY <1>1, <1>5, <1>6, <1>7, <1>8, <1>9, <1>10 DEF Owned, ls2

(* The own cell of a key is freed last.                                    *)
LEMMA RootFreed ==
  ASSUME NEW ls, NEW ds, NEW rs, NEW gone, Owned(ls, ds, rs, gone),
         NEW k \in Keys, rs[k] # 0,
         \A j \in DOMAIN ls[rs[k]] : <<rs[k], j>> \in gone,
         \A d, j : <<d, j>> \in gone => d = rs[k]
  PROVE  Owned(Without(ls, rs[k]), ds, [rs EXCEPT ![k] = 0], {})
<1> DEFINE n == rs[k]
           ls2 == Without(ls, n)
           rs2 == [rs EXCEPT ![k] = 0]
<1>1. n \in DOMAIN ls /\ DOMAIN ls2 = DOMAIN ls \ {n}
      /\ (\A d \in DOMAIN ls2 : ls2[d] = ls[d]) /\ ls2 = [d \in DOMAIN ls2 |-> ls2[d]]
  BY DEF Owned, RootsAreCells, Without
<1>2. rs2 \in [Keys -> Blocks \cup {0}] /\ rs2[k] = 0 /\ \A j \in Keys : j # k => rs2[j] = rs[j]
  BY DEF Owned, RootsAreCells
<1>3. \A j \in Keys : j # k => rs[j] # n
  BY DEF Owned, RootsAreCells
<1> HIDE DEF ls2, rs2
<1>4. \A d, j : Owning(ls2, {}, d, j) <=> Owning(ls, gone, d, j)
  <2> TAKE d, j
  <2>1. CASE d = n
    BY <2>1, <1>1 DEF Owning
  <2>2. CASE d # n
    BY <2>2, <1>1 DEF Owning
  <2> QED
    BY <2>1, <2>2
<1>5. \A d, j : Owning(ls2, {}, d, j) => ls2[d][j] = ls[d][j] /\ ls[d][j].ptr # n
  <2> TAKE d, j
  <2> HAVE Owning(ls2, {}, d, j)
  <2>1. ls2[d] = ls[d]
    BY <1>1 DEF Owning
  <2> QED
    BY <2>1, <1>4 DEF Owned, PointApart
<1>6. CellsAreSound(ls2)
  BY <1>1 DEF Owned, CellsAreSound
<1>7. RootsAreCells(ls2, rs2)
  <2>1. \A j \in Keys : rs2[j] # 0 =>
          rs2[j] \in DOMAIN ls2 /\ Len(ls2[rs2[j]]) = 1 /\ ls2[rs2[j]][1].code = 0
    BY <1>1, <1>2, <1>3 DEF Owned, RootsAreCells
  <2>2. \A i, j \in Keys : rs2[i] = rs2[j] /\ rs2[i] # 0 => i = j
    BY <1>2 DEF Owned, RootsAreCells
  <2> QED
    BY <1>2, <2>1, <2>2 DEF RootsAreCells
<1>8. PointToLive(ls2, ds, {})
  BY <1>1, <1>4, <1>5 DEF Owned, PointToLive
<1>9. PointApart(ls2, rs2, {})
  <2>1. \A d, j : Owning(ls, gone, d, j) => \A x \in Keys : rs[x] # ls[d][j].ptr
    BY DEF Owned, PointApart
  <2>2. \A x, j, d, e : Owning(ls, gone, x, j) /\ Owning(ls, gone, d, e)
                        /\ ls[x][j].ptr = ls[d][e].ptr => x = d /\ j = e
    BY DEF Owned, PointApart
  <2>3. \A d, j : Owning(ls2, {}, d, j) => ls2[d][j].ptr # 0
    BY DEF Owning
  <2>4. \A d, j : Owning(ls2, {}, d, j) => \A x \in Keys : rs2[x] # ls2[d][j].ptr
    BY <1>2, <1>4, <1>5, <2>1, <2>3
  <2>5. \A x, j, d, e : Owning(ls2, {}, x, j) /\ Owning(ls2, {}, d, e)
                        /\ ls2[x][j].ptr = ls2[d][e].ptr => x = d /\ j = e
    BY <1>4, <1>5, <2>2
  <2> QED
    BY <2>4, <2>5 DEF PointApart
<1>10. HaveOwner(ls2, ds, rs2, {})
  <2>1. n \notin DOMAIN ds
    BY <1>1 DEF Owned, BlocksApart
  <2> SUFFICES ASSUME NEW x \in DOMAIN ls2 \cup DOMAIN ds
               PROVE  \/ \E j \in Keys : rs2[j] = x
                      \/ \E d, j : Owning(ls2, {}, d, j) /\ ls2[d][j].ptr = x
    BY DEF HaveOwner
  <2>2. x # n /\ x \in DOMAIN ls \cup DOMAIN ds
    BY <1>1, <2>1
  <2> QED
    BY <1>2, <1>4, <1>5, <2>2 DEF Owned, HaveOwner
<1>11. BlocksApart(ls2, ds)
  BY <1>1 DEF Owned, BlocksApart
<1> QED
  BY <1>6, <1>7, <1>8, <1>9, <1>10, <1>11 DEF Owned, ls2, rs2

(* What the stack of loops is after a turn, a push and a pop.              *)
LEMMA StackPopped ==
  ASSUME NEW S, stack \in Seq(S), stack # <<>>
  PROVE  /\ Depth \in Nat \ {0} /\ Inner \in S
         /\ Outer \in Seq(S) /\ Len(Outer) = Depth - 1
         /\ \A d \in 1..(Depth - 1) : Outer[d] = stack[d]
<1>1. Depth \in Nat \ {0} /\ Inner \in S
  BY DEF Depth, Inner
<1>2. /\ SubSeq(stack, 1, Depth - 1) \in Seq(S) /\ Len(SubSeq(stack, 1, Depth - 1)) = Depth - 1
      /\ \A d \in 1..(Depth - 1) : SubSeq(stack, 1, Depth - 1)[d] = stack[d]
  <2>1. Len(stack) = Depth /\ 1 \in 1..(Len(stack) + 1) /\ Depth - 1 \in (1 - 1)..Len(stack)
    BY <1>1 DEF Depth
  <2> QED
    BY <1>1, <2>1, SubSeqProperties
<1>3. Outer = SubSeq(stack, 1, Depth - 1)
  BY DEF Outer
<1> QED
  BY <1>1, <1>2, <1>3

LEMMA StackTurned ==
  ASSUME NEW S, stack \in Seq(S), stack # <<>>, [Inner EXCEPT !.i = @ + 1] \in S
  PROVE  /\ NextTurn \in Seq(S) /\ Len(NextTurn) = Depth
         /\ NextTurn[Depth] = [Inner EXCEPT !.i = @ + 1]
         /\ \A d \in 1..(Depth - 1) : NextTurn[d] = stack[d]
<1> DEFINE f == [Inner EXCEPT !.i = @ + 1]
<1>1. Depth \in Nat \ {0} /\ Depth = Len(stack)
  BY DEF Depth
<1>2. NextTurn = [stack EXCEPT ![Depth] = f]
  BY DEF NextTurn, Inner
<1> HIDE DEF f
<1> QED
  BY <1>1, <1>2 DEF f

LEMMA StackPushed ==
  ASSUME NEW S, NEW st \in Seq(S), NEW f \in S
  PROVE  /\ Append(st, f) \in Seq(S) /\ Len(Append(st, f)) = Len(st) + 1
         /\ Append(st, f)[Len(st) + 1] = f
         /\ \A d \in 1..Len(st) : Append(st, f)[d] = st[d]
OBVIOUS

(* What the table of chains says of a link and of the list it has.         *)
LEMMA ChainsAre ==
  ASSUME keyed \in KeyedQueries
  PROVE  /\ keyed.chains \in Seq(Seq(KeyLinks)) /\ 1 \in DOMAIN keyed.chains
         /\ \A n \in DOMAIN keyed.chains :
              /\ keyed.chains[n] \in Seq(KeyLinks) /\ keyed.chains[n] # <<>>
              /\ \A i \in DOMAIN keyed.chains[n] :
                   IsLink(keyed.chains[n][i], DOMAIN keyed.chains)
         /\ keyed.direct \in BOOLEAN
         /\ keyed.direct => keyed.chains[1][1].kind = "product" /\ keyed.chains[1][1].filter = <<>>
<1>1. IsKeyedQuery(keyed)
  BY KeyedAssumption
<1>2. keyed.chains \in Seq(Seq(KeyLinks)) /\ keyed.chains # <<>> /\ keyed.direct \in BOOLEAN
  BY <1>1 DEF IsKeyedQuery
<1>3. \A n \in DOMAIN keyed.chains : keyed.chains[n] \in Seq(KeyLinks) /\ keyed.chains[n] # <<>>
  BY <1>1, <1>2 DEF IsKeyedQuery
<1>4. ASSUME NEW n \in DOMAIN keyed.chains, NEW i \in DOMAIN keyed.chains[n]
      PROVE  IsLink(keyed.chains[n][i], DOMAIN keyed.chains)
  <2>1. IsLink(keyed.chains[n][i], (n + 1)..Len(keyed.chains))
    BY <1>1 DEF IsKeyedQuery
  <2>2. (n + 1)..Len(keyed.chains) \subseteq DOMAIN keyed.chains
    BY <1>2
  <2> QED
    BY <2>1, <2>2 DEF IsLink
<1> QED
  BY <1>1, <1>2, <1>3, <1>4 DEF IsKeyedQuery

LEMMA ForwardIs ==
  ASSUME NEW n \in Nat
  PROVE  Forward(n) \in KeyLinks /\ Forward(n).kind = "fwd" /\ Forward(n).sub = <<n>>
         /\ Forward(n).filter = <<>>
BY DEF Forward, KeyLinks, LinkKinds

LEMMA ForwardIsLink ==
  ASSUME NEW D, NEW n \in D, D \subseteq Nat
  PROVE  IsLink(Forward(n), D)
<1>1. n \in Nat
  OBVIOUS
<1>2. Forward(n).kind = "fwd" /\ Forward(n).sub = <<n>> /\ Forward(n).filter = <<>>
  BY <1>1, ForwardIs
<1>3. \A j \in DOMAIN <<n>> : <<n>>[j] \in D
  OBVIOUS
<1> QED
  BY <1>2, <1>3 DEF IsLink

LEMMA ForwardingIs ==
  ASSUME NEW subs \in Seq(Nat), NEW D, D \subseteq Nat, \A j \in DOMAIN subs : subs[j] \in D
  PROVE  /\ Forwarding(subs) \in Seq(KeyLinks) /\ Len(Forwarding(subs)) = Len(subs)
         /\ DOMAIN Forwarding(subs) = DOMAIN subs
         /\ \A j \in DOMAIN subs :
              Forwarding(subs)[j] = Forward(subs[j]) /\ IsLink(Forwarding(subs)[j], D)
<1>1. \A j \in DOMAIN subs : Forward(subs[j]) \in KeyLinks /\ IsLink(Forward(subs[j]), D)
  BY ForwardIs, ForwardIsLink
<1>2. Forwarding(subs) = [j \in 1..Len(subs) |-> Forward(subs[j])]
  BY DEF Forwarding
<1> QED
  BY <1>1, <1>2

LEMMA ListedIs ==
  ASSUME keyed \in KeyedQueries, NEW l \in KeyLinks, IsLink(l, DOMAIN keyed.chains)
  PROVE  /\ Listed(l) \in Seq(KeyLinks)
         /\ \A j \in DOMAIN Listed(l) : IsLink(Listed(l)[j], DOMAIN keyed.chains)
         /\ l.kind \in {"fwd", "product"} => Listed(l) # <<>>
         /\ l.kind = "product" =>
              Len(Listed(l)) = Len(l.sub) /\ \A j \in DOMAIN Listed(l) : Listed(l)[j].kind = "fwd"
         /\ l.kind = "typed" => Listed(l) = <<>>
<1> DEFINE D == DOMAIN keyed.chains
<1>1. D \subseteq Nat /\ l.sub \in Seq(Nat) /\ \A j \in DOMAIN l.sub : l.sub[j] \in D
  <2>1. keyed.chains \in Seq(Seq(KeyLinks))
    BY ChainsAre
  <2>2. l.sub \in Seq(Nat)
    BY DEF KeyLinks
  <2>3. \A j \in DOMAIN l.sub : l.sub[j] \in D
    BY DEF IsLink
  <2> QED
    BY <2>1, <2>2, <2>3
<1>2. CASE l.kind = "fwd"
  <2>1. Listed(l) = keyed.chains[l.sub[1]]
    BY <1>2 DEF Listed
  <2>2. l.sub[1] \in D
    BY <1>1, <1>2 DEF IsLink
  <2> QED
    BY <1>2, <2>1, <2>2, ChainsAre
<1>3. CASE l.kind = "product"
  <2>1. Listed(l) = Forwarding(l.sub)
    BY <1>3 DEF Listed
  <2>2. l.sub # <<>>
    BY <1>3 DEF IsLink
  <2>3. /\ Forwarding(l.sub) \in Seq(KeyLinks) /\ Len(Forwarding(l.sub)) = Len(l.sub)
        /\ DOMAIN Forwarding(l.sub) = DOMAIN l.sub
        /\ \A j \in DOMAIN l.sub : Forwarding(l.sub)[j] = Forward(l.sub[j]) /\ IsLink(Forwarding(l.sub)[j], D)
    BY <1>1, ForwardingIs
  <2>4. \A j \in DOMAIN l.sub : Forward(l.sub[j]).kind = "fwd"
    BY <1>1, ForwardIs
  <2>5. Forwarding(l.sub) # <<>>
    BY <1>1, <2>2, <2>3
  <2> QED
    BY <1>3, <2>1, <2>3, <2>4, <2>5
<1>4. CASE l.kind = "arith" /\ \E j \in DOMAIN l.sub : ~FullyScalar[l.sub[j]]
  <2>1. Listed(l) = keyed.chains[CollectionOf(l)]
    BY <1>4 DEF Listed
  <2>2. Len(l.sub) \in {1, 2}
    BY <1>4 DEF IsLink
  <2>3. CollectionOf(l) \in D
    BY <1>1, <1>4, <2>2 DEF CollectionOf
  <2> QED
    BY <1>4, <2>1, <2>3, ChainsAre
<1>5. CASE l.kind \notin {"fwd", "product"} /\ ~(l.kind = "arith" /\ \E j \in DOMAIN l.sub : ~FullyScalar[l.sub[j]])
  <2>1. Listed(l) = <<>>
    BY <1>5 DEF Listed
  <2> QED
    BY <1>5, <2>1
<1> QED
  BY <1>2, <1>3, <1>4, <1>5

LEMMA WholeIs ==
  ASSUME keyed \in KeyedQueries
  PROVE  /\ Whole \in KeyLinks /\ IsLink(Whole, DOMAIN keyed.chains)
         /\ Whole.kind \in {"fwd", "product"} /\ Listed(Whole) # <<>>
         /\ Whole.kind = "product" <=> keyed.direct
         /\ keyed.direct => Whole = keyed.chains[1][1]
<1>1. CASE keyed.direct
  <2>1. Whole = keyed.chains[1][1] /\ Whole.kind = "product"
    BY <1>1, ChainsAre DEF Whole
  <2>2. 1 \in DOMAIN keyed.chains[1] /\ keyed.chains[1] \in Seq(KeyLinks)
    BY ChainsAre
  <2>3. Whole \in KeyLinks /\ IsLink(Whole, DOMAIN keyed.chains)
    BY <2>1, <2>2, ChainsAre
  <2> QED
    BY <1>1, <2>1, <2>3, ListedIs
<1>2. CASE ~keyed.direct
  <2>1. Whole = Forward(1)
    BY <1>2 DEF Whole
  <2>2. 1 \in DOMAIN keyed.chains /\ DOMAIN keyed.chains \subseteq Nat
    BY ChainsAre
  <2>3. Whole \in KeyLinks /\ Whole.kind = "fwd"
    BY <2>1, ForwardIs
  <2>4. IsLink(Whole, DOMAIN keyed.chains)
    BY <2>1, <2>2, ForwardIsLink
  <2> QED
    BY <1>2, <2>3, <2>4, ListedIs
<1> QED
  BY <1>1, <1>2

-----------------------------------------------------------------------------
LEMMA FrameIs ==
  ASSUME NEW f \in LoopFrames
  PROVE  /\ f.i \in Nat \ {0} /\ f.links \in Seq(KeyLinks) /\ Len(f.links) \in Nat
         /\ f.cells \in Seq(Blocks \X Nat)
         /\ [f EXCEPT !.i = @ + 1] \in LoopFrames
         /\ [f EXCEPT !.i = @ + 1].i = f.i + 1
         /\ [f EXCEPT !.i = @ + 1].links = f.links /\ [f EXCEPT !.i = @ + 1].cells = f.cells
<1> DEFINE C == Seq(Blocks \X Nat)
           L == Seq(KeyLinks)
<1>1. f \in [links : L, cells : C, i : Nat \ {0}]
  BY DEF LoopFrames
<1>2. Len(f.links) \in Nat
  BY <1>1
<1> HIDE DEF C, L
<1>3. f.i \in Nat \ {0} /\ f.links \in L /\ f.cells \in C
  BY <1>1
<1>4. /\ [f EXCEPT !.i = @ + 1] \in [links : L, cells : C, i : Nat \ {0}]
      /\ [f EXCEPT !.i = @ + 1].i = f.i + 1
      /\ [f EXCEPT !.i = @ + 1].links = f.links /\ [f EXCEPT !.i = @ + 1].cells = f.cells
  BY <1>1
<1> QED
  BY <1>2, <1>3, <1>4 DEF C, L, LoopFrames

(* The loops of a reservation after a turn: some are left, the lists of    *)
(* the others have the cells to come as they were.                         *)
LEMMA LoopsKept ==
  ASSUME NEW st, NEW ls, NEW rs, NEW k, LoopsOf(st, ls, rs, k),
         NEW st2 \in Seq(LoopFrames), st2 # <<>>, Len(st2) <= Len(st), NEW ls2,
         DOMAIN ls \subseteq DOMAIN ls2,
         \A d \in 1..Len(st2) :
           /\ st2[d].links = st[d].links /\ st2[d].cells = st[d].cells
           /\ st[d].i <= st2[d].i /\ st2[d].i <= Len(st[d].links) + 1,
         \A d \in 2..Len(st2) :
           /\ Len(ls2[st[d].cells[1][1]]) = Len(ls[st[d].cells[1][1]])
           /\ \A j \in st2[d].i..Len(st[d].links) :
                ls2[st[d].cells[1][1]][j] = ls[st[d].cells[1][1]][j]
  PROVE  LoopsOf(st2, ls2, rs, k)
<1>1. st \in Seq(LoopFrames) /\ 1 \in DOMAIN st2 /\ DOMAIN st2 = 1..Len(st2) /\ DOMAIN st = 1..Len(st)
      /\ 1..Len(st2) \subseteq 1..Len(st) /\ 2..Len(st2) \subseteq 2..Len(st)
  BY DEF LoopsOf
<1>2. \A d \in DOMAIN st2 : LoopIsWhole(st2[d])
  <2> TAKE d \in DOMAIN st2
  <2>1. LoopIsWhole(st[d]) /\ d \in 1..Len(st2)
    BY <1>1 DEF LoopsOf
  <2> QED
    BY <2>1 DEF LoopIsWhole
<1>3. \A d \in 2..Len(st2) : LoopOver(st2[d], ls2, rs)
  <2> TAKE d \in 2..Len(st2)
  <2> DEFINE b == st[d].cells[1][1]
  <2>1. LoopOver(st[d], ls, rs) /\ d \in 1..Len(st2) /\ st[d] \in LoopFrames /\ st2[d] \in LoopFrames
    BY <1>1 DEF LoopsOf
  <2>2. st2[d].cells[1][1] = b /\ b \in DOMAIN ls2 /\ Len(ls2[b]) = Len(st2[d].links)
        /\ (\A x \in Keys : rs[x] # b) /\ st2[d].cells = CellsOf(b, st2[d].links)
    BY <2>1 DEF LoopOver
  <2>3. st2[d].i..Len(st[d].links) \subseteq st[d].i..Len(st[d].links)
    <3>1. st[d].i \in Nat /\ st2[d].i \in Nat /\ Len(st[d].links) \in Nat
      BY <2>1, FrameIs
    <3>2. st[d].i <= st2[d].i
      BY <2>1
    <3> QED
      BY <3>1, <3>2
  <2>4. \A j \in st2[d].i..Len(st2[d].links) :
          st2[d].links[j].kind = "fwd" \/ (ls2[b][j].pl = "plain" /\ ls2[b][j].code = 0)
    BY <2>1, <2>3 DEF LoopOver
  <2> QED
    BY <2>2, <2>4 DEF LoopOver
<1>4. \A d, x \in 2..Len(st2) : st2[d].cells[1][1] = st2[x].cells[1][1] => d = x
  <2>1. \A d \in 2..Len(st2) : d \in 1..Len(st2) /\ d \in 2..Len(st)
    BY <1>1
  <2> QED
    BY <2>1 DEF LoopsOf
<1>5. st2[1].links = <<Whole>> /\ st2[1].cells = <<<<rs[k], 1>>>>
  BY <1>1 DEF LoopsOf
<1> QED
  BY <1>2, <1>3, <1>4, <1>5 DEF LoopsOf

LEMMA LoopsPushed ==
  ASSUME NEW st, NEW ls, NEW rs, NEW k, LoopsOf(st, ls, rs, k),
         NEW f \in LoopFrames, LoopIsWhole(f), LoopOver(f, ls, rs),
         \A d \in 2..Len(st) : st[d].cells[1][1] # f.cells[1][1]
  PROVE  LoopsOf(Append(st, f), ls, rs, k)
<1> DEFINE st2 == Append(st, f)
<1>1. st \in Seq(LoopFrames) /\ Len(st) \in Nat /\ Len(st) >= 1
  BY DEF LoopsOf
<1>2. st2 \in Seq(LoopFrames) /\ Len(st2) = Len(st) + 1 /\ st2[Len(st) + 1] = f
      /\ st2 # <<>> /\ DOMAIN st2 = 1..(Len(st) + 1)
      /\ \A d \in 1..Len(st) : st2[d] = st[d]
  BY <1>1
<1> HIDE DEF st2
<1>3. \A d \in DOMAIN st2 : LoopIsWhole(st2[d])
  BY <1>1, <1>2 DEF LoopsOf
<1>4. \A d \in 2..Len(st2) : d # Len(st) + 1 => d \in 2..Len(st) /\ st2[d] = st[d]
  BY <1>1, <1>2
<1>5. \A d \in 2..Len(st2) : LoopOver(st2[d], ls, rs)
  BY <1>2, <1>4 DEF LoopsOf
<1>6. \A d, x \in 2..Len(st2) : st2[d].cells[1][1] = st2[x].cells[1][1] => d = x
  BY <1>2, <1>4 DEF LoopsOf
<1>7. st2[1] = st[1]
  BY <1>1, <1>2
<1> QED
  BY <1>2, <1>3, <1>5, <1>6, <1>7 DEF LoopsOf, st2

(* The turn of the innermost loop: its link and its cell.                  *)
LEMMA TurnIs ==
  ASSUME OwnsInv, task.op = "reserve", Inner.i <= Len(Inner.links)
  PROVE  LET l == Inner.links[Inner.i]
             a == Inner.cells[Inner.i]
         IN /\ l \in KeyLinks /\ IsLink(l, DOMAIN keyed.chains)
            /\ a = <<a[1], a[2]>>
            /\ a[1] \in DOMAIN lists /\ a[2] \in DOMAIN lists[a[1]]
            /\ Depth = 1 => l = Whole /\ a = <<root[task.key], 1>>
            /\ Depth # 1 =>
                 /\ a = <<Inner.cells[1][1], Inner.i>> /\ \A k \in Keys : root[k] # a[1]
                 /\ l.kind = "fwd" \/ (At(a).pl = "plain" /\ At(a).code = 0)
<1> DEFINE l == Inner.links[Inner.i]
           a == Inner.cells[Inner.i]
<1>1. LoopsOf(stack, lists, root, task.key) /\ CellsAreSound(lists) /\ RootsAreCells(lists, root)
      /\ task.key \in Keys /\ root[task.key] # 0
  BY DEF OwnsInv, ReserveLoops, Owned
<1>2. stack \in Seq(LoopFrames) /\ stack # <<>>
  BY <1>1 DEF LoopsOf
<1>3. Depth \in Nat \ {0} /\ Inner \in LoopFrames /\ Depth = Len(stack) /\ Inner = stack[Depth]
  BY <1>2, StackPopped DEF Depth, Inner
<1>4. LoopIsWhole(Inner)
  BY <1>1, <1>3 DEF LoopsOf
<1>5. Inner.i \in 1..Len(Inner.links) /\ Inner.links \in Seq(KeyLinks)
  <2>1. Inner.i \in Nat \ {0} /\ Len(Inner.links) \in Nat /\ Inner.links \in Seq(KeyLinks)
    BY <1>3, FrameIs
  <2> QED
    BY <2>1
<1>6. l \in KeyLinks /\ IsLink(l, DOMAIN keyed.chains)
  BY <1>4, <1>5 DEF LoopIsWhole
<1>7. CASE Depth = 1
  <2>1. Inner.links = <<Whole>> /\ Inner.cells = <<<<root[task.key], 1>>>>
    BY <1>1, <1>3, <1>7 DEF LoopsOf
  <2>2. Inner.i = 1
    BY <1>5, <2>1
  <2>3. l = Whole /\ a = <<root[task.key], 1>>
    BY <2>1, <2>2
  <2>4. root[task.key] \in DOMAIN lists /\ Len(lists[root[task.key]]) = 1
        /\ lists[root[task.key]] \in Seq(CellsOfKeys)
    BY <1>1 DEF RootsAreCells, CellsAreSound
  <2>5. 1 \in DOMAIN lists[root[task.key]]
    BY <2>4
  <2> QED
    BY <1>6, <1>7, <2>3, <2>4, <2>5
<1>8. CASE Depth # 1
  <2> DEFINE b == Inner.cells[1][1]
  <2>1. LoopOver(Inner, lists, root)
    BY <1>1, <1>3, <1>8 DEF LoopsOf
  <2>2. a = <<b, Inner.i>>
    BY <1>5, <2>1 DEF LoopOver, CellsOf
  <2>3. b \in DOMAIN lists /\ Len(lists[b]) = Len(Inner.links) /\ lists[b] \in Seq(CellsOfKeys)
    BY <1>1, <2>1 DEF LoopOver, CellsAreSound
  <2>4. Inner.i \in DOMAIN lists[b]
    BY <1>5, <2>3
  <2>5. l.kind = "fwd" \/ (lists[b][Inner.i].pl = "plain" /\ lists[b][Inner.i].code = 0)
    BY <1>5, <2>1 DEF LoopOver
  <2> QED
    BY <1>6, <1>8, <2>1, <2>2, <2>3, <2>4, <2>5 DEF LoopOver, At
<1> QED
  BY <1>7, <1>8

(* The next turn of the innermost loop, when only its cell was written.    *)
LEMMA LoopsTurned ==
  ASSUME OwnsInv, task.op = "reserve", Inner.i <= Len(Inner.links),
         NEW ls2, DOMAIN lists \subseteq DOMAIN ls2,
         \A d \in DOMAIN lists : Len(ls2[d]) = Len(lists[d]),
         \A d \in DOMAIN lists : \A j \in DOMAIN lists[d] :
           <<d, j>> # Inner.cells[Inner.i] => ls2[d][j] = lists[d][j]
  PROVE  /\ LoopsOf(NextTurn, ls2, root, task.key)
         /\ Len(NextTurn) = Depth /\ NextTurn[Depth] = [Inner EXCEPT !.i = @ + 1]
         /\ \A d \in 1..(Depth - 1) : NextTurn[d] = stack[d]
         /\ Depth > 1 =>
              LoopsOf(Outer, ls2, root, task.key) /\ Outer \in Seq(LoopFrames) /\ Outer # <<>>
<1> DEFINE a == Inner.cells[Inner.i]
<1>1. LoopsOf(stack, lists, root, task.key) /\ stack \in Seq(LoopFrames) /\ stack # <<>>
      /\ CellsAreSound(lists)
  BY DEF OwnsInv, ReserveLoops, LoopsOf, Owned
<1>2. /\ Depth \in Nat \ {0} /\ Inner \in LoopFrames /\ Depth = Len(stack) /\ Inner = stack[Depth]
      /\ Outer \in Seq(LoopFrames) /\ Len(Outer) = Depth - 1
      /\ \A d \in 1..(Depth - 1) : Outer[d] = stack[d]
  BY <1>1, StackPopped DEF Depth, Inner
<1>3. [Inner EXCEPT !.i = @ + 1] \in LoopFrames
  BY <1>2, FrameIs
<1>4. /\ NextTurn \in Seq(LoopFrames) /\ Len(NextTurn) = Depth
      /\ NextTurn[Depth] = [Inner EXCEPT !.i = @ + 1]
      /\ \A d \in 1..(Depth - 1) : NextTurn[d] = stack[d]
  BY <1>1, <1>3, StackTurned
<1>5. Depth # 1 => a = <<Inner.cells[1][1], Inner.i>>
  BY TurnIs
<1>6. Depth = 1 => a = <<root[task.key], 1>>
  BY TurnIs
<1>7. \A d \in 1..Depth : LoopIsWhole(stack[d]) /\ stack[d] \in LoopFrames
  BY <1>1, <1>2 DEF LoopsOf
<1>8. \A d \in 2..Depth : LoopOver(stack[d], lists, root)
  BY <1>1, <1>2 DEF LoopsOf
<1>9. \A d \in 2..Depth : \A j \in stack[d].i..Len(stack[d].links) :
        j \in DOMAIN lists[stack[d].cells[1][1]]
  <2> TAKE d \in 2..Depth
  <2> DEFINE b == stack[d].cells[1][1]
  <2>1. b \in DOMAIN lists /\ Len(lists[b]) = Len(stack[d].links) /\ lists[b] \in Seq(CellsOfKeys)
    BY <1>1, <1>8 DEF LoopOver, CellsAreSound
  <2>2. stack[d].i \in Nat \ {0} /\ Len(stack[d].links) \in Nat
    <3>1. d \in 1..Depth
      BY <1>2
    <3> QED
      BY <1>7, <3>1, FrameIs
  <2> QED
    BY <2>1, <2>2
<1>10. \A d \in 2..(Depth - 1) : \A j \in stack[d].i..Len(stack[d].links) :
         <<stack[d].cells[1][1], j>> # a
  <2> TAKE d \in 2..(Depth - 1)
  <2>1. Depth # 1 /\ d # Depth /\ d \in 2..Len(stack) /\ Depth \in 2..Len(stack)
    BY <1>2
  <2>2. stack[d].cells[1][1] # Inner.cells[1][1]
    BY <1>1, <1>2, <2>1 DEF LoopsOf
  <2> QED
    BY <1>5, <2>1, <2>2
<1>11. LoopsOf(NextTurn, ls2, root, task.key)
  <2>1. NextTurn # <<>> /\ Len(NextTurn) <= Len(stack)
    BY <1>2, <1>4
  <2>2. ASSUME NEW d \in 1..Len(NextTurn)
        PROVE  /\ NextTurn[d].links = stack[d].links /\ NextTurn[d].cells = stack[d].cells
               /\ stack[d].i <= NextTurn[d].i /\ NextTurn[d].i <= Len(stack[d].links) + 1
    <3>1. CASE d = Depth
      <4>1. NextTurn[d].links = Inner.links /\ NextTurn[d].cells = Inner.cells
            /\ NextTurn[d].i = Inner.i + 1 /\ Inner.i \in Nat
        BY <1>2, <1>4, <3>1, FrameIs
      <4>2. Len(Inner.links) \in Nat
        BY <1>2, FrameIs
      <4> QED
        BY <1>2, <3>1, <4>1, <4>2
    <3>2. CASE d # Depth
      <4>1. d \in 1..(Depth - 1) /\ d \in 1..Depth
        BY <1>2, <1>4, <3>2
      <4>2. stack[d].i \in Nat /\ stack[d].i <= Len(stack[d].links) + 1
        BY <1>7, <4>1, FrameIs DEF LoopIsWhole
      <4> QED
        BY <1>4, <4>1, <4>2
    <3> QED
      BY <3>1, <3>2
  <2>3. ASSUME NEW d \in 2..Len(NextTurn)
        PROVE  /\ Len(ls2[stack[d].cells[1][1]]) = Len(lists[stack[d].cells[1][1]])
               /\ \A j \in NextTurn[d].i..Len(stack[d].links) :
                    ls2[stack[d].cells[1][1]][j] = lists[stack[d].cells[1][1]][j]
    <3> DEFINE b == stack[d].cells[1][1]
    <3>1. d \in 2..Depth /\ b \in DOMAIN lists
      BY <1>4, <1>8 DEF LoopOver
    <3>2. ASSUME NEW j \in NextTurn[d].i..Len(stack[d].links)
          PROVE  j \in stack[d].i..Len(stack[d].links) /\ <<b, j>> # a
      <4>1. CASE d = Depth
        <5>1. NextTurn[d].i = Inner.i + 1 /\ Inner.i \in Nat /\ Len(stack[d].links) \in Nat
          BY <1>2, <1>4, <4>1, FrameIs
        <5>2. j \in Inner.i..Len(stack[d].links) /\ j # Inner.i
          BY <5>1
        <5> QED
          BY <1>2, <1>5, <3>1, <4>1, <5>2
      <4>2. CASE d # Depth
        <5>1. d \in 2..(Depth - 1) /\ d \in 1..(Depth - 1)
          BY <1>2, <3>1, <4>2
        <5> QED
          BY <1>4, <1>10, <5>1
      <4> QED
        BY <4>1, <4>2
    <3> QED
      BY <1>9, <3>1, <3>2
  <2> QED
    BY <1>1, <1>4, <2>1, <2>2, <2>3, LoopsKept
<1>12. ASSUME Depth > 1
       PROVE  LoopsOf(Outer, ls2, root, task.key) /\ Outer # <<>>
  <2>1. Outer # <<>> /\ Len(Outer) <= Len(stack)
    BY <1>2, <1>12
  <2>2. ASSUME NEW d \in 1..Len(Outer)
        PROVE  /\ Outer[d].links = stack[d].links /\ Outer[d].cells = stack[d].cells
               /\ stack[d].i <= Outer[d].i /\ Outer[d].i <= Len(stack[d].links) + 1
    <3>1. d \in 1..(Depth - 1) /\ d \in 1..Depth
      BY <1>2
    <3>2. stack[d].i \in Nat /\ stack[d].i <= Len(stack[d].links) + 1
      BY <1>7, <3>1, FrameIs DEF LoopIsWhole
    <3> QED
      BY <1>2, <3>1, <3>2
  <2>3. ASSUME NEW d \in 2..Len(Outer)
        PROVE  /\ Len(ls2[stack[d].cells[1][1]]) = Len(lists[stack[d].cells[1][1]])
               /\ \A j \in Outer[d].i..Len(stack[d].links) :
                    ls2[stack[d].cells[1][1]][j] = lists[stack[d].cells[1][1]][j]
    <3>1. d \in 2..(Depth - 1) /\ d \in 2..Depth /\ d \in 1..(Depth - 1) /\ Outer[d] = stack[d]
      BY <1>2
    <3>2. stack[d].cells[1][1] \in DOMAIN lists
      BY <1>8, <3>1 DEF LoopOver
    <3> QED
      BY <1>9, <1>10, <3>1, <3>2
  <2> QED
    BY <1>1, <1>2, <2>1, <2>2, <2>3, LoopsKept
<1> QED
  BY <1>2, <1>4, <1>11, <1>12

(* The memory of a reservation.                                            *)
LEMMA ReserveHeap ==
  ASSUME OwnsInv, task.op = "reserve"
  PROVE  /\ Owned(lists, data, root, {}) /\ CellsAreSound(lists) /\ RootsAreCells(lists, root)
         /\ ProductListsOf(lists, root)
         /\ task.key \in Keys /\ root[task.key] # 0
         /\ Inner.i <= Len(Inner.links) => LastMarked(lists, root, {})
<1>1. Gone = {}
  BY DEF Gone
<1>2. LoopsOf(stack, lists, root, task.key) /\ stack \in Seq(LoopFrames) /\ stack # <<>>
  BY DEF OwnsInv, ReserveLoops, LoopsOf
<1>3. Inner \in LoopFrames
  BY <1>2, StackPopped
<1>4. Inner.i \in Nat /\ Len(Inner.links) \in Nat
  BY <1>3, FrameIs
<1>5. Inner.i <= Len(Inner.links) => OpenLists = {}
  BY <1>4 DEF OpenLists
<1> QED
  BY <1>1, <1>5 DEF OwnsInv, Owned, ProductLists, Remaining

(* The cells of a new list.                                                *)
NewCells(links) == [j \in DOMAIN links |-> [Void EXCEPT !.term = (j = Len(links))]]

LEMMA NewCellsAre ==
  ASSUME NEW links \in Seq(KeyLinks), links # <<>>, NEW new, new = NewCells(links)
  PROVE  /\ new \in Seq(CellsOfKeys) /\ new # <<>> /\ Len(new) = Len(links)
         /\ DOMAIN new = DOMAIN links
         /\ \A j \in DOMAIN new :
              /\ SoundCell(new[j]) /\ new[j].ptr = 0 /\ new[j].code = 0 /\ new[j].pl = "plain"
              /\ new[j].term <=> j = Len(links)
<1>1. new = [j \in 1..Len(links) |-> [Void EXCEPT !.term = (j = Len(links))]]
  BY DEF NewCells
<1>2. ASSUME NEW j \in 1..Len(links)
      PROVE  /\ new[j] \in CellsOfKeys /\ SoundCell(new[j])
             /\ new[j].ptr = 0 /\ new[j].code = 0 /\ new[j].pl = "plain"
             /\ new[j].term <=> j = Len(links)
  <2>1. new[j] = [Void EXCEPT !.term = (j = Len(links))]
    BY <1>1
  <2>2. PICK t \in BOOLEAN : t <=> j = Len(links)
    OBVIOUS
  <2>3. new[j] = [code |-> 0, pl |-> "plain", term |-> t, ptr |-> 0]
    BY <2>1, <2>2 DEF Void
  <2> QED
    BY <2>2, <2>3 DEF CellsOfKeys, SoundCell
<1>3. Len(links) \in Nat \ {0} /\ DOMAIN links = 1..Len(links)
  OBVIOUS
<1>4. new \in Seq(CellsOfKeys) /\ Len(new) = Len(links) /\ DOMAIN new = DOMAIN links
  BY <1>1, <1>2, <1>3
<1>5. new # <<>>
  BY <1>3, <1>4
<1> QED
  BY <1>2, <1>3, <1>4, <1>5, ZenonT(40)

LEMMA NewLoopIs ==
  ASSUME NEW n \in Blocks, NEW links \in Seq(KeyLinks), links # <<>>,
         \A j \in DOMAIN links : IsLink(links[j], DOMAIN keyed.chains)
  PROVE  /\ Loop(links, CellsOf(n, links)) \in LoopFrames
         /\ LoopIsWhole(Loop(links, CellsOf(n, links)))
         /\ CellsOf(n, links)[1] = <<n, 1>>
         /\ Loop(links, CellsOf(n, links)).i = 1
         /\ Loop(links, CellsOf(n, links)).links = links
         /\ Loop(links, CellsOf(n, links)).cells = CellsOf(n, links)
<1> DEFINE f == Loop(links, CellsOf(n, links))
<1>1. f.i = 1 /\ f.links = links /\ f.cells = CellsOf(n, links)
      /\ f = [links |-> links, cells |-> CellsOf(n, links), i |-> 1]
  BY DEF Loop
<1>2. Len(links) \in Nat \ {0} /\ DOMAIN links = 1..Len(links)
  OBVIOUS
<1>3. CellsOf(n, links) = [j \in 1..Len(links) |-> <<n, j>>]
  BY <1>2 DEF CellsOf
<1>4. \A j \in 1..Len(links) : <<n, j>> \in Blocks \X Nat
  OBVIOUS
<1>5. CellsOf(n, links) \in Seq(Blocks \X Nat) /\ Len(CellsOf(n, links)) = Len(links)
  <2> DEFINE C == Blocks \X Nat
  <2>1. \A j \in 1..Len(links) : <<n, j>> \in C
    BY <1>4
  <2> HIDE DEF C
  <2>2. [j \in 1..Len(links) |-> <<n, j>>] \in Seq(C)
    BY <1>2, <2>1
  <2> QED
    BY <1>2, <1>3, <2>2 DEF C
<1>6. f \in LoopFrames
  <2> DEFINE C == Seq(Blocks \X Nat)
  <2>1. CellsOf(n, links) \in C
    BY <1>5
  <2> HIDE DEF C
  <2>2. [links |-> links, cells |-> CellsOf(n, links), i |-> 1]
          \in [links : Seq(KeyLinks), cells : C, i : Nat \ {0}]
    BY <2>1
  <2> QED
    BY <1>1, <2>2 DEF C, LoopFrames
<1>7. LoopIsWhole(f)
  BY <1>1, <1>2, <1>5 DEF LoopIsWhole
<1>8. CellsOf(n, links)[1] = <<n, 1>>
  BY <1>2, <1>3
<1> QED
  BY <1>1, <1>6, <1>7, <1>8

(* A cell that points nowhere is made a list.                              *)
MadeList(cell, n) == [cell EXCEPT !.pl = "list", !.ptr = n]

LEMMA ListAdded ==
  ASSUME NEW ls, NEW ds, NEW rs, Owned(ls, ds, rs, {}), LastMarked(ls, rs, {}),
         NEW b \in DOMAIN ls, NEW i \in DOMAIN ls[b], ls[b][i].pl = "plain", ls[b][i].code = 0,
         NEW n \in Blocks, n \notin DOMAIN ls, n \notin DOMAIN ds,
         NEW links \in Seq(KeyLinks), links # <<>>,
         NEW c, c = MadeList(ls[b][i], n),
         NEW ls2, ls2 = With(Replaced(ls, b, i, c), n, NewCells(links))
  PROVE  /\ Owned(ls2, ds, rs, {}) /\ LastMarked(ls2, rs, {})
         /\ \A d : d \in DOMAIN ls2 <=> d \in DOMAIN ls \/ d = n
         /\ Len(ls2[n]) = Len(links)
         /\ \A j \in DOMAIN links : ls2[n][j].pl = "plain" /\ ls2[n][j].code = 0
         /\ \A d \in DOMAIN ls : Len(ls2[d]) = Len(ls[d])
         /\ \A d \in DOMAIN ls : \A j \in DOMAIN ls[d] : d # b \/ j # i => ls2[d][j] = ls[d][j]
         /\ ls2[b][i] = c
         /\ c.ptr = n
<1>1. CellsAreSound(ls) /\ RootsAreCells(ls, rs) /\ n # 0 /\ BlocksApart(ls, ds)
  BY BlocksAssumption DEF Owned
<1>2. ls[b][i] \in CellsOfKeys /\ ls[b][i].ptr = 0
  <2>1. ls[b] \in Seq(CellsOfKeys) /\ SoundCell(ls[b][i])
    BY <1>1 DEF CellsAreSound
  <2> QED
    BY <2>1 DEF SoundCell
<1>3. c \in CellsOfKeys /\ SoundCell(c) /\ c.ptr = n /\ c.pl = "list" /\ c.code = 0
      /\ c.term = ls[b][i].term
  BY <1>1, <1>2 DEF CellsOfKeys, SoundCell, MadeList
<1>4. PICK ls1 : ls1 = Replaced(ls, b, i, c)
  OBVIOUS
<1>5. PICK new : new = NewCells(links)
  OBVIOUS
<1>6. /\ CellsAreSound(ls1) /\ DOMAIN ls1 = DOMAIN ls
      /\ \A d \in DOMAIN ls : DOMAIN ls1[d] = DOMAIN ls[d] /\ Len(ls1[d]) = Len(ls[d])
      /\ ls1[b][i] = c
      /\ \A d \in DOMAIN ls : \A j \in DOMAIN ls[d] : d # b \/ j # i => ls1[d][j] = ls[d][j]
  BY <1>1, <1>3, <1>4, CellReplaced
<1>7. /\ new \in Seq(CellsOfKeys) /\ new # <<>> /\ Len(new) = Len(links) /\ DOMAIN new = DOMAIN links
      /\ \A j \in DOMAIN new :
           /\ SoundCell(new[j]) /\ new[j].ptr = 0 /\ new[j].code = 0 /\ new[j].pl = "plain"
           /\ new[j].term <=> j = Len(links)
  BY <1>5, NewCellsAre
<1>8. /\ CellsAreSound(ls2) /\ \A d : d \in DOMAIN ls2 <=> d \in DOMAIN ls \/ d = n
      /\ ls2[n] = new /\ \A d \in DOMAIN ls : ls2[d] = ls1[d]
  <2>1. ls2 = With(ls1, n, new) /\ n \notin DOMAIN ls1
    BY <1>4, <1>5, <1>6
  <2>2. CellsAreSound(ls1) /\ \A j \in DOMAIN new : SoundCell(new[j])
    BY <1>6, <1>7
  <2>3. new \in Seq(CellsOfKeys) /\ new # <<>>
    BY <1>7
  <2>4. /\ CellsAreSound(ls2) /\ ls2[n] = new
        /\ \A d : d \in DOMAIN ls2 <=> d \in DOMAIN ls1 \/ d = n
        /\ \A d \in DOMAIN ls1 : ls2[d] = ls1[d]
    BY <2>1, <2>2, <2>3, BlockAdded
  <2> QED
    BY <1>6, <2>4
<1>9. /\ \A d \in DOMAIN ls : DOMAIN ls2[d] = DOMAIN ls[d] /\ Len(ls2[d]) = Len(ls[d])
      /\ ls2[b][i] = c
      /\ \A d \in DOMAIN ls : \A j \in DOMAIN ls[d] : d # b \/ j # i => ls2[d][j] = ls[d][j]
  BY <1>6, <1>8
<1>10. \A d \in DOMAIN ls : \A j \in DOMAIN ls[d] :
         ls2[d][j].term = ls[d][j].term /\ ls2[d][j].code = ls[d][j].code
  BY <1>3, <1>9
<1>11. RootsAreCells(ls2, rs)
  <2>1. ASSUME NEW k \in Keys, rs[k] # 0
        PROVE  Len(ls2[rs[k]]) = Len(ls[rs[k]]) /\ ls2[rs[k]][1].code = 0
    <3>1. rs[k] \in DOMAIN ls /\ Len(ls[rs[k]]) = 1 /\ ls[rs[k]][1].code = 0
          /\ ls[rs[k]] \in Seq(CellsOfKeys)
      BY <1>1, <2>1 DEF RootsAreCells, CellsAreSound
    <3>2. 1 \in DOMAIN ls[rs[k]]
      BY <3>1
    <3> QED
      BY <1>9, <1>10, <3>1, <3>2
  <2> QED
    BY <1>1, <1>8, <2>1, RootsKept
<1>12. BlocksApart(ls2, ds)
  BY <1>1, <1>8 DEF BlocksApart
<1>13. Owned(ls2, ds, rs, {})
  <2>1. ls2[b][i].ptr = n /\ ls2[b][i].pl = "list"
    BY <1>3, <1>9
  <2>2. n \in (IF ls2[b][i].pl = "list" THEN DOMAIN ls2 ELSE DOMAIN ds)
    BY <1>8, <2>1
  <2>3. \A j \in DOMAIN ls2[n] : n \in DOMAIN ls2 => ls2[n][j].ptr = 0
    BY <1>7, <1>8
  <2>4. (\A x \in DOMAIN ls : x \in DOMAIN ls2) /\ \A x \in DOMAIN ls2 : x = n \/ x \in DOMAIN ls
    BY <1>8
  <2>5. /\ \A d \in DOMAIN ls : DOMAIN ls2[d] = DOMAIN ls[d]
        /\ \A d \in DOMAIN ls : \A j \in DOMAIN ls[d] :
             d # b \/ j # i => ls2[d][j] = ls[d][j]
    BY <1>9
  <2> QED
    BY <1>1, <1>2, <1>8, <1>11, <1>12, <2>1, <2>2, <2>3, <2>4, <2>5, Acquired
<1>14. LastMarked(ls2, rs, {})
  <2> SUFFICES ASSUME NEW d \in DOMAIN ls2, \A k \in Keys : rs[k] # d, NEW j \in DOMAIN ls2[d]
               PROVE  /\ j < Len(ls2[d]) => ~ls2[d][j].term
                      /\ j = Len(ls2[d]) => ls2[d][j].term
    BY DEF LastMarked
  <2>1. CASE d = n
    <3>1. Len(links) \in Nat /\ j \in 1..Len(links) /\ Len(ls2[d]) = Len(links)
      BY <1>7, <1>8, <2>1
    <3>2. ls2[d][j].term <=> j = Len(links)
      BY <1>7, <1>8, <2>1
    <3> QED
      BY <3>1, <3>2
  <2>2. CASE d # n
    <3>1. d \in DOMAIN ls /\ j \in DOMAIN ls[d] /\ Len(ls2[d]) = Len(ls[d])
          /\ ls2[d][j].term = ls[d][j].term
      BY <1>8, <1>9, <1>10, <2>2
    <3>2. d \in DOMAIN ls \ {rs[k] : k \in Keys}
      BY <3>1
    <3> QED
      BY <3>1, <3>2 DEF LastMarked
  <2> QED
    BY <2>1, <2>2
<1> QED
  BY <1>3, <1>7, <1>8, <1>9, <1>13, <1>14

(* A list is allocated for the cell of the turn.                           *)
LEMMA MarkOwns ==
  ASSUME OwnsInv, Runs("reserve"), Inner.i <= Len(Inner.links),
         NEW l, l = Inner.links[Inner.i], NEW a, a = Inner.cells[Inner.i],
         Listed(l) # <<>>, At(a).code = 0, At(a).pl = "plain", Free # {},
         NEW n, n = Fresh, NEW links, links = Listed(l),
         lists' = With(Put(a, [At(a) EXCEPT !.pl = "list", !.ptr = n]), n, NewCells(links)),
         stack' = Append(NextTurn, Loop(links, CellsOf(n, links))),
         UNCHANGED <<data, task, broken, keyed, root>>
  PROVE  OwnsInv'
<1>1. n \in Blocks /\ n \notin DOMAIN lists /\ n \notin DOMAIN data /\ n # 0
  BY FreshIsFree DEF Live
<1>2. task.op = "reserve" /\ broken # "memory" /\ keyed \in KeyedQueries
  BY DEF Runs, OwnsInv
<1>3. /\ Owned(lists, data, root, {}) /\ CellsAreSound(lists) /\ RootsAreCells(lists, root)
      /\ ProductListsOf(lists, root) /\ LastMarked(lists, root, {})
      /\ task.key \in Keys /\ root[task.key] # 0
  BY <1>2, ReserveHeap
<1>4. PICK b, i : b = a[1] /\ i = a[2]
  OBVIOUS
<1>5. /\ l \in KeyLinks /\ IsLink(l, DOMAIN keyed.chains) /\ a = <<b, i>>
      /\ b \in DOMAIN lists /\ i \in DOMAIN lists[b]
      /\ Depth = 1 => l = Whole /\ a = <<root[task.key], 1>>
      /\ Depth # 1 => \A k \in Keys : root[k] # b
  BY <1>2, <1>4, TurnIs
<1>6. /\ links \in Seq(KeyLinks) /\ links # <<>>
      /\ \A j \in DOMAIN links : IsLink(links[j], DOMAIN keyed.chains)
      /\ l.kind = "product" => Len(links) = Len(l.sub)
  BY <1>2, <1>5, ListedIs
<1>7. PICK c : c = MadeList(lists[b][i], n)
  OBVIOUS
<1>8. lists' = With(Replaced(lists, b, i, c), n, NewCells(links)) /\ At(a) = lists[b][i]
  BY <1>5, <1>7 DEF Replaced, Put, At, MadeList
<1>9. PICK ls2 : ls2 = lists'
  OBVIOUS
<1>10. /\ Owned(ls2, data, root, {}) /\ LastMarked(ls2, root, {})
       /\ \A d : d \in DOMAIN ls2 <=> d \in DOMAIN lists \/ d = n
       /\ Len(ls2[n]) = Len(links)
       /\ \A j \in DOMAIN links : ls2[n][j].pl = "plain" /\ ls2[n][j].code = 0
       /\ \A d \in DOMAIN lists : Len(ls2[d]) = Len(lists[d])
       /\ \A d \in DOMAIN lists : \A j \in DOMAIN lists[d] :
            d # b \/ j # i => ls2[d][j] = lists[d][j]
       /\ ls2[b][i] = c
       /\ c.ptr = n
  <2>1. ls2 = With(Replaced(lists, b, i, c), n, NewCells(links))
    BY <1>8, <1>9
  <2>2. lists[b][i].pl = "plain" /\ lists[b][i].code = 0
    BY <1>8
  <2>3. /\ Owned(lists, data, root, {}) /\ LastMarked(lists, root, {})
        /\ b \in DOMAIN lists /\ i \in DOMAIN lists[b]
    BY <1>3, <1>5
  <2>4. links \in Seq(KeyLinks) /\ links # <<>>
    BY <1>6
  <2> QED
    BY SMTT(30), <1>1, <1>7, <2>1, <2>2, <2>3, <2>4, ListAdded
<1>11. LoopsOf(NextTurn, ls2, root, task.key)
       /\ Len(NextTurn) = Depth /\ NextTurn[Depth] = [Inner EXCEPT !.i = @ + 1]
       /\ \A d \in 1..(Depth - 1) : NextTurn[d] = stack[d]
  <2>1. Inner.cells[Inner.i] = <<b, i>> /\ DOMAIN lists \subseteq DOMAIN ls2
    BY <1>5, <1>10
  <2>2. \A d \in DOMAIN lists : Len(ls2[d]) = Len(lists[d])
    BY <1>10
  <2>3. \A d \in DOMAIN lists : \A j \in DOMAIN lists[d] :
          <<d, j>> # Inner.cells[Inner.i] => ls2[d][j] = lists[d][j]
    BY <1>10, <2>1
  <2> QED
    BY <1>2, <2>1, <2>2, <2>3, LoopsTurned
<1>12. PICK f : f = Loop(links, CellsOf(n, links))
  OBVIOUS
<1>13. /\ f \in LoopFrames /\ LoopIsWhole(f) /\ f.cells[1][1] = n
       /\ f.i = 1 /\ f.links = links /\ f.cells = CellsOf(n, links)
  <2>1. /\ f \in LoopFrames /\ LoopIsWhole(f) /\ CellsOf(n, links)[1] = <<n, 1>>
        /\ f.i = 1 /\ f.links = links /\ f.cells = CellsOf(n, links)
    BY <1>1, <1>6, <1>12, NewLoopIs
  <2> QED
    BY <2>1
<1>14. LoopOver(f, ls2, root)
  <2>1. \A k \in Keys : root[k] # n
    BY <1>1, <1>3 DEF RootsAreCells
  <2>2. \A j \in f.i..Len(f.links) : ls2[n][j].pl = "plain" /\ ls2[n][j].code = 0
    <3>1. DOMAIN links = 1..Len(links)
      BY <1>6
    <3> QED
      BY <1>10, <1>13, <3>1
  <2>3. n \in DOMAIN ls2 /\ Len(ls2[n]) = Len(f.links) /\ f.cells = CellsOf(n, f.links)
    BY <1>10, <1>13
  <2> QED
    BY <1>13, <2>1, <2>2, <2>3 DEF LoopOver
<1>15. \A d \in 2..Len(NextTurn) : NextTurn[d].cells[1][1] # n
  <2> TAKE d \in 2..Len(NextTurn)
  <2>1. stack \in Seq(LoopFrames) /\ stack # <<>> /\ LoopsOf(stack, lists, root, task.key)
    BY <1>2 DEF OwnsInv, ReserveLoops, LoopsOf
  <2>2. Depth = Len(stack) /\ Depth \in Nat \ {0} /\ Inner \in LoopFrames /\ Inner = stack[Depth]
    BY <2>1, StackPopped DEF Depth, Inner
  <2>3. NextTurn[d].cells = stack[d].cells
    <3>1. NextTurn[Depth].cells = stack[Depth].cells
      BY <1>11, <2>2, FrameIs
    <3>2. d = Depth \/ d \in 1..(Depth - 1)
      BY <1>11, <2>2
    <3> QED
      BY <1>11, <3>1, <3>2
  <2>4. LoopOver(stack[d], lists, root)
    <3>1. d \in 2..Len(stack)
      BY <1>11, <2>2
    <3> QED
      BY <2>1, <3>1 DEF LoopsOf
  <2> QED
    BY <1>1, <2>3, <2>4 DEF LoopOver
<1>16. LoopsOf(Append(NextTurn, f), ls2, root, task.key)
  BY <1>11, <1>13, <1>14, <1>15, LoopsPushed
<1>17. stack' = Append(NextTurn, f)
  BY <1>12
<1>18. OpenLists' = {}
  <2>1. Inner' = f
    <3>1. NextTurn \in Seq(LoopFrames)
      BY <1>11 DEF LoopsOf
    <3>2. Len(stack') = Len(NextTurn) + 1 /\ stack'[Len(NextTurn) + 1] = f
      BY <1>13, <1>17, <3>1
    <3> QED
      BY <3>2 DEF Inner, Depth
  <2>2. Len(links) \in Nat \ {0}
    BY <1>6
  <2>3. ~(f.i > Len(f.links))
    BY <1>13, <2>2
  <2> QED
    BY <2>1, <2>3 DEF OpenLists
<1>19. ProductListsOf(ls2, root)
  <2> SUFFICES ASSUME keyed.direct, NEW k \in Keys, root[k] # 0, ls2[root[k]][1].pl = "list"
               PROVE  Len(ls2[ls2[root[k]][1].ptr]) = Len(keyed.chains[1][1].sub)
    BY DEF ProductListsOf
  <2>1. root[k] \in DOMAIN lists /\ 1 \in DOMAIN lists[root[k]]
    <3>1. root[k] \in DOMAIN lists /\ Len(lists[root[k]]) = 1
      BY <1>3 DEF RootsAreCells
    <3>2. lists[root[k]] \in Seq(CellsOfKeys)
      BY <1>3, <3>1 DEF CellsAreSound
    <3> QED
      BY <3>1, <3>2
  <2>2. CASE root[k] = b /\ i = 1
    <3>1. Depth = 1
      BY <1>5, <2>2
    <3>2. l = keyed.chains[1][1] /\ l.kind = "product"
      BY <1>2, <1>5, <3>1, WholeIs
    <3>3. ls2[root[k]][1].ptr = n
      BY <1>10, <2>2
    <3> QED
      BY <1>6, <1>10, <3>2, <3>3
  <2>3. CASE ~(root[k] = b /\ i = 1)
    <3>1. ls2[root[k]][1] = lists[root[k]][1]
      BY <1>10, <2>1, <2>3
    <3>2. Owning(lists, {}, root[k], 1)
      <4>1. SoundCell(lists[root[k]][1])
        BY <1>3, <2>1 DEF CellsAreSound
      <4> QED
        BY <2>1, <3>1, <4>1 DEF Owning, SoundCell
    <3>3. lists[root[k]][1].ptr \in DOMAIN lists
      BY <1>3, <3>1, <3>2 DEF Owned, PointToLive
    <3>4. Len(lists[lists[root[k]][1].ptr]) = Len(keyed.chains[1][1].sub)
      BY <1>3, <3>1 DEF ProductListsOf
    <3> QED
      BY <1>10, <3>1, <3>3, <3>4
  <2> QED
    BY <2>2, <2>3
<1>20. Gone' = {}
  BY <1>2 DEF Gone
<1>21. Owned(lists, data, root, Gone)' /\ LastMarked(lists, root, OpenLists)'
  BY <1>9, <1>10, <1>18, <1>20
<1>22. ReserveLoops'
  BY <1>9, <1>16, <1>17, SMTT(30) DEF ReserveLoops, LoopsOf, LoopIsWhole, Whole
<1>23. ProductLists'
  <2>1. keyed' = keyed /\ root' = root /\ lists' = ls2 /\ task' = task /\ task.op # "destroy"
    BY <1>2, <1>9
  <2>2. PICK rs : rs = root
    OBVIOUS
  <2>3. Remaining' = rs
    BY <2>1, <2>2 DEF Remaining
  <2>4. ProductListsOf(ls2, rs)'
    BY <1>19, <2>1, <2>2 DEF ProductListsOf
  <2> QED
    BY <2>1, <2>3, <2>4 DEF ProductLists
<1> QED
  BY <1>2, <1>3, <1>21, <1>22, <1>23 DEF OwnsInv

(* What is known of the lists of products stays true where no cell of a    *)
(* key, and no number of cells, changes.                                   *)
LEMMA ProductListsKept ==
  ASSUME NEW ls, NEW ds, NEW rs, NEW gone, Owned(ls, ds, rs, gone), ProductListsOf(ls, rs), NEW ls2,
         \A k \in Keys : rs[k] # 0 => <<rs[k], 1>> \notin gone,
         \A d \in DOMAIN ls : d \in DOMAIN ls2 => Len(ls2[d]) = Len(ls[d]),
         \A k \in Keys : rs[k] # 0 /\ ls[rs[k]][1].ptr \in DOMAIN ls => ls[rs[k]][1].ptr \in DOMAIN ls2,
         \A k \in Keys : rs[k] # 0 =>
           ls2[rs[k]][1].pl = ls[rs[k]][1].pl /\ ls2[rs[k]][1].ptr = ls[rs[k]][1].ptr
  PROVE  ProductListsOf(ls2, rs)
<1> SUFFICES ASSUME keyed.direct, NEW k \in Keys, rs[k] # 0, ls2[rs[k]][1].pl = "list"
             PROVE  Len(ls2[ls2[rs[k]][1].ptr]) = Len(keyed.chains[1][1].sub)
  BY DEF ProductListsOf
<1>1. rs[k] \in DOMAIN ls /\ 1 \in DOMAIN ls[rs[k]]
  <2>1. rs[k] \in DOMAIN ls /\ Len(ls[rs[k]]) = 1
    BY DEF Owned, RootsAreCells
  <2>2. ls[rs[k]] \in Seq(CellsOfKeys)
    BY <2>1 DEF Owned, CellsAreSound
  <2> QED
    BY <2>1, <2>2
<1>2. Owning(ls, gone, rs[k], 1)
  <2>1. SoundCell(ls[rs[k]][1])
    BY <1>1 DEF Owned, CellsAreSound
  <2> QED
    BY <1>1, <2>1 DEF Owning, SoundCell
<1>3. ls[rs[k]][1].ptr \in DOMAIN ls
  BY <1>2 DEF Owned, PointToLive
<1>4. Len(ls[ls[rs[k]][1].ptr]) = Len(keyed.chains[1][1].sub)
  BY DEF ProductListsOf
<1> QED
  BY <1>3, <1>4

LEMMA CellRewritten ==
  ASSUME NEW ls, NEW ds, NEW rs, Owned(ls, ds, rs, {}), ProductListsOf(ls, rs),
         NEW b \in DOMAIN ls, NEW i \in DOMAIN ls[b], \A k \in Keys : rs[k] # b,
         NEW c \in CellsOfKeys, SoundCell(c), c.ptr = ls[b][i].ptr, c.pl = ls[b][i].pl,
         NEW ls2, ls2 = Replaced(ls, b, i, c)
  PROVE  /\ Owned(ls2, ds, rs, {}) /\ ProductListsOf(ls2, rs)
         /\ \A d : d \in DOMAIN ls2 <=> d \in DOMAIN ls
         /\ \A d \in DOMAIN ls : DOMAIN ls2[d] = DOMAIN ls[d] /\ Len(ls2[d]) = Len(ls[d])
         /\ ls2[b][i] = c
         /\ \A d \in DOMAIN ls : \A j \in DOMAIN ls[d] : d # b \/ j # i => ls2[d][j] = ls[d][j]
<1>1. CellsAreSound(ls) /\ RootsAreCells(ls, rs)
  BY DEF Owned
<1>2. /\ CellsAreSound(ls2) /\ DOMAIN ls2 = DOMAIN ls
      /\ \A d \in DOMAIN ls : DOMAIN ls2[d] = DOMAIN ls[d] /\ Len(ls2[d]) = Len(ls[d])
      /\ ls2[b][i] = c
      /\ \A d \in DOMAIN ls : \A j \in DOMAIN ls[d] : d # b \/ j # i => ls2[d][j] = ls[d][j]
  BY <1>1, CellReplaced
<1>3. \A d \in DOMAIN ls : \A j \in DOMAIN ls[d] :
        ls2[d][j].ptr = ls[d][j].ptr /\ ls2[d][j].pl = ls[d][j].pl
  BY <1>2
<1>4. ASSUME NEW k \in Keys, rs[k] # 0
      PROVE  Len(ls2[rs[k]]) = Len(ls[rs[k]]) /\ ls2[rs[k]][1] = ls[rs[k]][1] /\ ls[rs[k]][1].code = 0
  <2>1. rs[k] \in DOMAIN ls /\ Len(ls[rs[k]]) = 1 /\ ls[rs[k]][1].code = 0
        /\ ls[rs[k]] \in Seq(CellsOfKeys) /\ rs[k] # b
    BY <1>1, <1>4 DEF RootsAreCells, CellsAreSound
  <2>2. 1 \in DOMAIN ls[rs[k]]
    BY <2>1
  <2> QED
    BY <1>2, <2>1, <2>2
<1>5. RootsAreCells(ls2, rs)
  BY SMTT(30), <1>1, <1>2, <1>4, RootsKept
<1>6. Owned(ls2, ds, rs, {})
  BY <1>2, <1>3, <1>5, Rewritten
<1>7. ProductListsOf(ls2, rs)
  BY SMTT(30), <1>2, <1>4, ProductListsKept
<1> QED
  BY <1>2, <1>6, <1>7

LEMMA DatumAdded ==
  ASSUME NEW ls, NEW ds, NEW rs, Owned(ls, ds, rs, {}), ProductListsOf(ls, rs),
         NEW b \in DOMAIN ls, NEW i \in DOMAIN ls[b], \A k \in Keys : rs[k] # b,
         ls[b][i].ptr = 0, NEW n \in Blocks, n \notin DOMAIN ls, n \notin DOMAIN ds,
         NEW c \in CellsOfKeys, SoundCell(c), c.ptr = n, c.pl = "plain",
         NEW ls2, ls2 = Replaced(ls, b, i, c),
         NEW x, NEW ds2, ds2 = With(ds, n, x)
  PROVE  /\ Owned(ls2, ds2, rs, {}) /\ ProductListsOf(ls2, rs)
         /\ \A d : d \in DOMAIN ls2 <=> d \in DOMAIN ls
         /\ \A d \in DOMAIN ls : DOMAIN ls2[d] = DOMAIN ls[d] /\ Len(ls2[d]) = Len(ls[d])
         /\ ls2[b][i] = c
         /\ \A d \in DOMAIN ls : \A j \in DOMAIN ls[d] : d # b \/ j # i => ls2[d][j] = ls[d][j]
<1>1. CellsAreSound(ls) /\ RootsAreCells(ls, rs) /\ BlocksApart(ls, ds) /\ n # 0
  BY BlocksAssumption DEF Owned
<1>2. /\ CellsAreSound(ls2) /\ DOMAIN ls2 = DOMAIN ls
      /\ \A d \in DOMAIN ls : DOMAIN ls2[d] = DOMAIN ls[d] /\ Len(ls2[d]) = Len(ls[d])
      /\ ls2[b][i] = c
      /\ \A d \in DOMAIN ls : \A j \in DOMAIN ls[d] : d # b \/ j # i => ls2[d][j] = ls[d][j]
  BY <1>1, CellReplaced
<1>3. ASSUME NEW k \in Keys, rs[k] # 0
      PROVE  Len(ls2[rs[k]]) = Len(ls[rs[k]]) /\ ls2[rs[k]][1] = ls[rs[k]][1] /\ ls[rs[k]][1].code = 0
  <2>1. rs[k] \in DOMAIN ls /\ Len(ls[rs[k]]) = 1 /\ ls[rs[k]][1].code = 0
        /\ ls[rs[k]] \in Seq(CellsOfKeys) /\ rs[k] # b
    BY <1>1, <1>3 DEF RootsAreCells, CellsAreSound
  <2>2. 1 \in DOMAIN ls[rs[k]]
    BY <2>1
  <2> QED
    BY <1>2, <2>1, <2>2
<1>4. RootsAreCells(ls2, rs)
  BY <1>1, <1>2, <1>3, RootsKept
<1>5. DOMAIN ds2 = DOMAIN ds \cup {n}
  BY DEF With
<1>6. BlocksApart(ls2, ds2)
  BY <1>1, <1>2, <1>5 DEF BlocksApart
<1>7. Owned(ls2, ds2, rs, {})
  <2>1. n \in (IF ls2[b][i].pl = "list" THEN DOMAIN ls2 ELSE DOMAIN ds2)
    BY <1>2, <1>5
  <2>2. \A j \in DOMAIN ls2[n] : n \in DOMAIN ls2 => ls2[n][j].ptr = 0
    BY <1>2
  <2>3. /\ \A y \in DOMAIN ls : y \in DOMAIN ls2
        /\ \A y \in DOMAIN ds : y \in DOMAIN ds2
        /\ \A y \in DOMAIN ls2 : y = n \/ y \in DOMAIN ls
        /\ \A y \in DOMAIN ds2 : y = n \/ y \in DOMAIN ds
    BY <1>2, <1>5
  <2>4. ls2[b][i].ptr = n /\ \A d \in DOMAIN ls : DOMAIN ls2[d] = DOMAIN ls[d]
    BY <1>2
  <2>5. \A d \in DOMAIN ls : \A j \in DOMAIN ls[d] : d # b \/ j # i => ls2[d][j] = ls[d][j]
    BY <1>2
  <2>6. CellsAreSound(ls2)
    BY <1>2
  <2> QED
    BY <1>1, <1>4, <1>6, <2>1, <2>2, <2>3, <2>4, <2>5, <2>6, Acquired
<1>8. ProductListsOf(ls2, rs)
  BY <1>2, <1>3, ProductListsKept
<1> QED
  BY <1>2, <1>7, <1>8

(* The marks of a block where one cell is written.                         *)
LEMMA MarksKept ==
  ASSUME NEW ls, NEW rs, NEW open, LastMarked(ls, rs, open), CellsAreSound(ls),
         NEW b \in DOMAIN ls, NEW i \in DOMAIN ls[b],
         NEW ls2, \A d : d \in DOMAIN ls2 <=> d \in DOMAIN ls,
         \A d \in DOMAIN ls : DOMAIN ls2[d] = DOMAIN ls[d] /\ Len(ls2[d]) = Len(ls[d]),
         \A d \in DOMAIN ls : \A j \in DOMAIN ls[d] : d # b \/ j # i => ls2[d][j] = ls[d][j],
         NEW open2, \A d : d \in open => d \in open2 \/ (d = b /\ i = Len(ls[b])),
         \/ ls2[b][i].term = ls[b][i].term /\ (b \in open => b \in open2)
         \/ i # Len(ls[b]) /\ ~ls2[b][i].term
         \/ i = Len(ls[b]) /\ (ls2[b][i].term \/ b \in open2)
  PROVE  LastMarked(ls2, rs, open2)
<1> SUFFICES ASSUME NEW d \in DOMAIN ls2, \A k \in Keys : rs[k] # d, NEW j \in DOMAIN ls2[d]
             PROVE  /\ j < Len(ls2[d]) => ~ls2[d][j].term
                    /\ j = Len(ls2[d]) /\ d \notin open2 => ls2[d][j].term
  BY DEF LastMarked
<1>1. d \in DOMAIN ls /\ j \in DOMAIN ls[d] /\ Len(ls2[d]) = Len(ls[d])
  OBVIOUS
<1>2. ls[d] \in Seq(CellsOfKeys)
  BY <1>1 DEF CellsAreSound
<1>3. j \in Nat /\ Len(ls[d]) \in Nat
  BY <1>1, <1>2
<1>4. /\ j < Len(ls[d]) => ~ls[d][j].term
      /\ j = Len(ls[d]) /\ d \notin open => ls[d][j].term
  <2>1. d \in DOMAIN ls \ {rs[k] : k \in Keys}
    BY <1>1
  <2> QED
    BY <1>1, <2>1 DEF LastMarked
<1>5. CASE d = b /\ j = i
  BY <1>1, <1>3, <1>4, <1>5
<1>6. CASE ~(d = b /\ j = i)
  <2>1. ls2[d][j] = ls[d][j]
    BY <1>1, <1>6
  <2> QED
    BY <1>1, <1>3, <1>4, <1>6, <2>1
<1> QED
  BY <1>5, <1>6

-----------------------------------------------------------------------------
LEMMA AllMarked ==
  ASSUME NEW ls, NEW rs, LastMarked(ls, rs, {}), NEW open
  PROVE  LastMarked(ls, rs, open)
BY DEF LastMarked

(* A reservation that goes on, and one that returns.                       *)
LEMMA StillReserves ==
  ASSUME OwnsInv, Runs("reserve"), NEW ls2, lists' = ls2, NEW ds2, data' = ds2,
         NEW st2, stack' = st2, UNCHANGED <<keyed, root, task>>, broken' # "memory",
         Owned(ls2, ds2, root, {}), ProductListsOf(ls2, root),
         LoopsOf(st2, ls2, root, task.key), LastMarked(lists, root, OpenLists)'
  PROVE  OwnsInv'
<1>1. task.op = "reserve" /\ keyed \in KeyedQueries /\ task.key \in Keys /\ root[task.key] # 0
  BY DEF OwnsInv, Runs
<1>2. Gone' = {}
  BY <1>1 DEF Gone
<1>3. Owned(lists, data, root, Gone)'
  BY <1>2
<1>4. ReserveLoops'
  BY DEF ReserveLoops, LoopsOf, LoopIsWhole, Whole
<1>5. ProductLists'
  BY DEF ProductLists, ProductListsOf, Remaining
<1> QED
  BY <1>1, <1>3, <1>4, <1>5 DEF OwnsInv

LEMMA ReserveStops ==
  ASSUME OwnsInv, NEW ls2, lists' = ls2, NEW ds2, data' = ds2,
         UNCHANGED <<keyed, root>>, task' = NoTask, broken' # "memory",
         Owned(ls2, ds2, root, {}), ProductListsOf(ls2, root), LastMarked(ls2, root, {})
  PROVE  OwnsInv'
<1>1. keyed \in KeyedQueries
  BY DEF OwnsInv
<1>2. task'.op = "none" /\ task'.op # "reserve" /\ task'.op # "destroy" /\ task'.op # "view"
  BY DEF NoTask
<1>3. Gone' = {} /\ OpenLists' = {}
  BY <1>2 DEF Gone, OpenLists
<1>4. Owned(lists, data, root, Gone)' /\ LastMarked(lists, root, OpenLists)'
  BY <1>3
<1>5. ProductLists'
  BY DEF ProductLists, ProductListsOf, Remaining
<1> QED
  BY <1>1, <1>2, <1>4, <1>5 DEF OwnsInv

(* A loop that is left.                                                    *)
LEMMA LoopsLeft ==
  ASSUME OwnsInv, task.op = "reserve", Depth # 1, NEW ls2,
         \A d : d \in DOMAIN ls2 <=> d \in DOMAIN lists,
         \A d \in DOMAIN lists : Len(ls2[d]) = Len(lists[d]),
         \A d \in DOMAIN lists : d # Inner.cells[1][1] => \A j \in DOMAIN lists[d] : ls2[d][j] = lists[d][j]
  PROVE  LoopsOf(Outer, ls2, root, task.key) /\ LoopOver(Inner, lists, root)
         /\ Inner \in LoopFrames /\ LoopIsWhole(Inner)
<1>1. LoopsOf(stack, lists, root, task.key) /\ stack \in Seq(LoopFrames) /\ stack # <<>>
      /\ CellsAreSound(lists)
  BY DEF OwnsInv, ReserveLoops, LoopsOf, Owned
<1>2. /\ Depth \in Nat \ {0} /\ Inner \in LoopFrames /\ Depth = Len(stack) /\ Inner = stack[Depth]
      /\ Outer \in Seq(LoopFrames) /\ Len(Outer) = Depth - 1
      /\ \A d \in 1..(Depth - 1) : Outer[d] = stack[d]
  BY <1>1, StackPopped DEF Depth, Inner
<1>3. \A d \in 1..Depth : LoopIsWhole(stack[d]) /\ stack[d] \in LoopFrames
  BY <1>1, <1>2 DEF LoopsOf
<1>4. \A d \in 2..Depth : LoopOver(stack[d], lists, root)
  BY <1>1, <1>2 DEF LoopsOf
<1>5. Outer # <<>> /\ Len(Outer) <= Len(stack) /\ DOMAIN lists \subseteq DOMAIN ls2
  BY <1>2
<1>6. ASSUME NEW d \in 1..Len(Outer)
      PROVE  /\ Outer[d].links = stack[d].links /\ Outer[d].cells = stack[d].cells
             /\ stack[d].i <= Outer[d].i /\ Outer[d].i <= Len(stack[d].links) + 1
  <2>1. d \in 1..(Depth - 1) /\ d \in 1..Depth
    BY <1>2
  <2>2. stack[d].i \in Nat /\ stack[d].i <= Len(stack[d].links) + 1
    BY <1>3, <2>1, FrameIs DEF LoopIsWhole
  <2> QED
    BY <1>2, <2>1, <2>2
<1>7. ASSUME NEW d \in 2..Len(Outer)
      PROVE  /\ Len(ls2[stack[d].cells[1][1]]) = Len(lists[stack[d].cells[1][1]])
             /\ \A j \in Outer[d].i..Len(stack[d].links) :
                  ls2[stack[d].cells[1][1]][j] = lists[stack[d].cells[1][1]][j]
  <2>1. d \in 2..Depth /\ d \in 1..Depth /\ d \in 1..(Depth - 1) /\ Outer[d] = stack[d]
    BY <1>2
  <2>2. PICK b : b = stack[d].cells[1][1]
    OBVIOUS
  <2>3. b \in DOMAIN lists /\ Len(lists[b]) = Len(stack[d].links) /\ lists[b] \in Seq(CellsOfKeys)
    BY <1>1, <1>4, <2>1, <2>2 DEF LoopOver, CellsAreSound
  <2>4. stack[d].i \in Nat \ {0} /\ Len(stack[d].links) \in Nat
    BY <1>3, <2>1, FrameIs
  <2>5. \A j \in Outer[d].i..Len(stack[d].links) : j \in DOMAIN lists[b]
    BY <2>1, <2>3, <2>4
  <2>6. b # Inner.cells[1][1]
    <3>1. d # Depth /\ d \in 2..Len(stack) /\ Depth \in 2..Len(stack)
      BY <1>2, <2>1
    <3> QED
      BY <1>1, <1>2, <2>2, <3>1 DEF LoopsOf
  <2> QED
    BY <2>2, <2>3, <2>5, <2>6
<1>8. LoopsOf(Outer, ls2, root, task.key)
  BY <1>1, <1>2, <1>5, <1>6, <1>7, LoopsKept
<1>9. LoopOver(Inner, lists, root)
  <2>1. Depth \in 2..Depth
    BY <1>2
  <2> QED
    BY <1>2, <1>4, <2>1
<1>10. LoopIsWhole(Inner)
  <2>1. Depth \in 1..Depth
    BY <1>2
  <2> QED
    BY <1>2, <1>3, <2>1
<1> QED
  BY <1>2, <1>8, <1>9, <1>10

(* The product that is reserved for once more: its cells are there.        *)
LEMMA ReuseOwns ==
  ASSUME OwnsInv, Runs("reserve"), Inner.i <= Len(Inner.links),
         NEW l, l = Inner.links[Inner.i], NEW a, a = Inner.cells[Inner.i],
         ~(At(a).code = 0 /\ At(a).pl = "plain"), l.kind = "product",
         NEW links, links = Listed(l), NEW n, n = At(a).ptr,
         stack' = Append(NextTurn, Loop(links, CellsOf(n, links))),
         UNCHANGED <<lists, data, task, broken, keyed, root>>
  PROVE  OwnsInv'
<1>1. task.op = "reserve" /\ broken # "memory" /\ keyed \in KeyedQueries
  BY DEF Runs, OwnsInv
<1>2. /\ Owned(lists, data, root, {}) /\ CellsAreSound(lists) /\ RootsAreCells(lists, root)
      /\ ProductListsOf(lists, root) /\ LastMarked(lists, root, {})
      /\ task.key \in Keys /\ root[task.key] # 0
  BY <1>1, ReserveHeap
<1>3. /\ l \in KeyLinks /\ IsLink(l, DOMAIN keyed.chains) /\ a = <<root[task.key], 1>> /\ l = Whole
      /\ a[1] \in DOMAIN lists /\ a[2] \in DOMAIN lists[a[1]] /\ Depth = 1
  BY <1>1, TurnIs
<1>4. keyed.direct /\ l = keyed.chains[1][1]
  BY <1>1, <1>3, WholeIs
<1>5. /\ links \in Seq(KeyLinks) /\ links # <<>>
      /\ \A j \in DOMAIN links : IsLink(links[j], DOMAIN keyed.chains)
      /\ Len(links) = Len(l.sub) /\ \A j \in DOMAIN links : links[j].kind = "fwd"
  BY <1>1, <1>3, ListedIs
<1>6. PICK b : b = root[task.key]
  OBVIOUS
<1>7. b \in DOMAIN lists /\ 1 \in DOMAIN lists[b] /\ At(a) = lists[b][1]
  BY <1>3, <1>6 DEF At
<1>8. lists[b][1].pl = "list" /\ lists[b][1].ptr = n /\ n # 0
  <2>1. lists[b][1].code = 0
    BY <1>2, <1>6 DEF RootsAreCells
  <2>2. lists[b][1] \in CellsOfKeys /\ SoundCell(lists[b][1])
    <3>1. lists[b] \in Seq(CellsOfKeys) /\ SoundCell(lists[b][1])
      BY <1>2, <1>7 DEF CellsAreSound
    <3> QED
      BY <1>7, <3>1
  <2> QED
    BY <1>7, <2>1, <2>2 DEF CellsOfKeys, SoundCell
<1>9. Owning(lists, {}, b, 1)
  BY <1>7, <1>8 DEF Owning
<1>10. n \in DOMAIN lists /\ n \in Blocks /\ \A k \in Keys : root[k] # n
  <2>1. n \in DOMAIN lists
    BY <1>2, <1>8, <1>9 DEF Owned, PointToLive
  <2>2. n \in Blocks
    BY <1>2, <2>1 DEF CellsAreSound
  <2>3. \A k \in Keys : root[k] # n
    BY <1>2, <1>8, <1>9 DEF Owned, PointApart
  <2> QED
    BY <2>1, <2>2, <2>3
<1>11. Len(lists[n]) = Len(links)
  BY <1>2, <1>4, <1>5, <1>6, <1>8 DEF ProductListsOf
<1>12. LoopsOf(NextTurn, lists, root, task.key) /\ Len(NextTurn) = 1
  BY <1>1, <1>3, LoopsTurned
<1>13. PICK f : f = Loop(links, CellsOf(n, links))
  OBVIOUS
<1>14. /\ f \in LoopFrames /\ LoopIsWhole(f) /\ f.cells[1][1] = n
       /\ f.i = 1 /\ f.links = links /\ f.cells = CellsOf(n, links)
  <2>1. /\ f \in LoopFrames /\ LoopIsWhole(f) /\ CellsOf(n, links)[1] = <<n, 1>>
        /\ f.i = 1 /\ f.links = links /\ f.cells = CellsOf(n, links)
    BY <1>5, <1>10, <1>13, NewLoopIs
  <2> QED
    BY <2>1
<1>15. LoopOver(f, lists, root)
  <2>1. \A j \in f.i..Len(f.links) : f.links[j].kind = "fwd"
    <3>1. DOMAIN links = 1..Len(links)
      BY <1>5
    <3> QED
      BY <1>5, <1>14, <3>1
  <2>2. Len(lists[n]) = Len(f.links) /\ f.cells = CellsOf(n, f.links)
    BY <1>11, <1>14
  <2> QED
    BY <1>10, <1>14, <2>1, <2>2 DEF LoopOver
<1>16. \A d \in 2..Len(NextTurn) : NextTurn[d].cells[1][1] # f.cells[1][1]
  BY <1>12
<1>17. LoopsOf(Append(NextTurn, f), lists, root, task.key)
  BY <1>12, <1>14, <1>15, <1>16, LoopsPushed
<1>18. LastMarked(lists, root, OpenLists)'
  BY <1>2, AllMarked
<1> QED
  BY <1>1, <1>2, <1>13, <1>17, <1>18, StillReserves

(* The data of a typed link's cell, or no data.                            *)
LEMMA DatumOwns ==
  ASSUME OwnsInv, Runs("reserve"), Inner.i <= Len(Inner.links),
         NEW l, l = Inner.links[Inner.i], NEW a, a = Inner.cells[Inner.i], l.kind = "typed",
         UNCHANGED <<keyed, root>>, ReserveDatum(a)
  PROVE  OwnsInv'
<1>1. task.op = "reserve" /\ broken # "memory" /\ keyed \in KeyedQueries
  BY DEF Runs, OwnsInv
<1>2. /\ Owned(lists, data, root, {}) /\ CellsAreSound(lists) /\ RootsAreCells(lists, root)
      /\ ProductListsOf(lists, root) /\ LastMarked(lists, root, {})
  BY <1>1, ReserveHeap
<1>3. PICK b, i : b = a[1] /\ i = a[2]
  OBVIOUS
<1>4. Depth # 1
  <2>1. Whole.kind \in {"fwd", "product"}
    BY <1>1, WholeIs
  <2> QED
    BY <1>1, <2>1, TurnIs
<1>5. /\ b \in DOMAIN lists /\ i \in DOMAIN lists[b] /\ a = <<b, i>> /\ (\A k \in Keys : root[k] # b)
      /\ At(a).pl = "plain" /\ At(a).code = 0
  BY <1>1, <1>3, <1>4, TurnIs
<1>6. At(a) = lists[b][i] /\ lists[b][i] \in CellsOfKeys /\ lists[b][i].ptr = 0
      /\ lists[b][i].pl = "plain" /\ lists[b][i].code = 0
  <2>1. At(a) = lists[b][i]
    BY <1>5 DEF At
  <2>2. lists[b] \in Seq(CellsOfKeys) /\ SoundCell(lists[b][i])
    BY <1>2, <1>5 DEF CellsAreSound
  <2> QED
    BY <1>5, <2>1, <2>2 DEF SoundCell
<1>7. PICK n : n = Fresh
  OBVIOUS
<1>8. CASE /\ Free # {}
           /\ lists' = Put(a, [At(a) EXCEPT !.code = 1, !.ptr = Fresh])
           /\ data' = With(data, Fresh, <<0, 0>>)
           /\ stack' = NextTurn
           /\ UNCHANGED <<task, result, faults, broken>>
  <2>1. n \in Blocks /\ n \notin DOMAIN lists /\ n \notin DOMAIN data /\ n # 0
    BY <1>7, <1>8, FreshIsFree DEF Live
  <2>2. PICK c : c = [lists[b][i] EXCEPT !.code = 1, !.ptr = n]
    OBVIOUS
  <2>3. c \in CellsOfKeys /\ SoundCell(c) /\ c.ptr = n /\ c.pl = "plain" /\ c.term = lists[b][i].term
    <3>1. PICK cell : cell = lists[b][i]
      OBVIOUS
    <3>2. cell \in CellsOfKeys /\ cell.pl = "plain" /\ c = [cell EXCEPT !.code = 1, !.ptr = n]
      BY <1>6, <2>2, <3>1
    <3>3. c \in CellsOfKeys /\ c.ptr = n /\ c.pl = "plain" /\ c.term = cell.term /\ c.code = 1
      BY <2>1, <3>2 DEF CellsOfKeys
    <3> QED
      BY <3>1, <3>3 DEF SoundCell
  <2>4. PICK ls2 : ls2 = lists'
    OBVIOUS
  <2>5. ls2 = Replaced(lists, b, i, c)
    BY <1>5, <1>6, <1>7, <1>8, <2>2, <2>4 DEF Replaced, Put
  <2>6. PICK ds2 : ds2 = data'
    OBVIOUS
  <2>7. ds2 = With(data, n, <<0, 0>>)
    BY <1>7, <1>8, <2>6
  <2>8. /\ Owned(ls2, ds2, root, {}) /\ ProductListsOf(ls2, root)
        /\ \A d : d \in DOMAIN ls2 <=> d \in DOMAIN lists
        /\ \A d \in DOMAIN lists : DOMAIN ls2[d] = DOMAIN lists[d] /\ Len(ls2[d]) = Len(lists[d])
        /\ ls2[b][i] = c
        /\ \A d \in DOMAIN lists : \A j \in DOMAIN lists[d] :
             d # b \/ j # i => ls2[d][j] = lists[d][j]
    <3>1. PICK x : x = <<0, 0>>
      OBVIOUS
    <3>2. ds2 = With(data, n, x)
      BY <2>7, <3>1
    <3> QED
      BY <1>2, <1>5, <1>6, <2>1, <2>3, <2>5, <3>2, DatumAdded
  <2>9. LastMarked(ls2, root, {})
    BY <1>2, <1>5, <2>3, <2>8, MarksKept
  <2>10. LoopsOf(NextTurn, ls2, root, task.key)
    <3>1. Inner.cells[Inner.i] = <<b, i>> /\ DOMAIN lists \subseteq DOMAIN ls2
      BY <1>5, <2>8
    <3>2. /\ \A d \in DOMAIN lists : Len(ls2[d]) = Len(lists[d])
          /\ \A d \in DOMAIN lists : \A j \in DOMAIN lists[d] :
               <<d, j>> # Inner.cells[Inner.i] => ls2[d][j] = lists[d][j]
      BY <2>8, <3>1
    <3> QED
      BY <1>1, <3>1, <3>2, LoopsTurned
  <2>11. LastMarked(lists, root, OpenLists)'
    BY <2>4, <2>9, AllMarked
  <2>12. stack' = NextTurn /\ UNCHANGED <<keyed, root, task>> /\ broken' # "memory"
    BY <1>1, <1>8
  <2> QED
    BY <2>4, <2>6, <2>8, <2>10, <2>11, <2>12, StillReserves
<1>9. CASE /\ AllocationFails
           /\ lists' = Put(a, [At(a) EXCEPT !.code = 1, !.ptr = 0])
           /\ Fails(Depth, "memory", Outer)
           /\ UNCHANGED <<data, broken>>
  <2>1. PICK c : c = [lists[b][i] EXCEPT !.code = 1, !.ptr = 0]
    OBVIOUS
  <2>2. c \in CellsOfKeys /\ SoundCell(c) /\ c.ptr = lists[b][i].ptr /\ c.pl = lists[b][i].pl
        /\ c.term = lists[b][i].term
    BY <1>6, <2>1 DEF CellsOfKeys, SoundCell
  <2>3. PICK ls2 : ls2 = lists'
    OBVIOUS
  <2>4. ls2 = Replaced(lists, b, i, c)
    BY <1>5, <1>6, <1>9, <2>1, <2>3 DEF Replaced, Put
  <2>5. /\ Owned(ls2, data, root, {}) /\ ProductListsOf(ls2, root)
        /\ \A d : d \in DOMAIN ls2 <=> d \in DOMAIN lists
        /\ \A d \in DOMAIN lists : DOMAIN ls2[d] = DOMAIN lists[d] /\ Len(ls2[d]) = Len(lists[d])
        /\ ls2[b][i] = c
        /\ \A d \in DOMAIN lists : \A j \in DOMAIN lists[d] :
             d # b \/ j # i => ls2[d][j] = lists[d][j]
    BY <1>2, <1>5, <2>2, <2>4, CellRewritten
  <2>6. LastMarked(ls2, root, {})
    BY <1>2, <1>5, <2>2, <2>5, MarksKept
  <2>7. CASE ReserveReturns("memory")
    <3>1. task' = NoTask /\ data' = data /\ broken' # "memory"
      BY <1>1, <1>9, <2>7 DEF ReserveReturns
    <3> QED
      BY <2>3, <2>5, <2>6, <3>1, ReserveStops
  <2>8. CASE stack' = Outer /\ UNCHANGED <<task, result>>
    <3>1. a[1] = Inner.cells[1][1]
      BY <1>1, <1>4, TurnIs
    <3>2. LoopsOf(Outer, ls2, root, task.key)
      BY <1>1, <1>3, <1>4, <2>5, <3>1, LoopsLeft
    <3>3. LastMarked(lists, root, OpenLists)'
      BY <2>3, <2>6, AllMarked
    <3>4. data' = data /\ UNCHANGED <<keyed, root, task>> /\ broken' # "memory"
      BY <1>1, <1>9, <2>8
    <3> QED
      BY <2>3, <2>5, <2>8, <3>2, <3>3, <3>4, StillReserves
  <2> QED
    BY <1>9, <2>7, <2>8 DEF Fails
<1> QED
  BY <1>8, <1>9 DEF ReserveDatum

(* A cell that is cleared, which loses the mark of a last one.             *)
LEMMA VoidOwns ==
  ASSUME OwnsInv, Runs("reserve"), Inner.i <= Len(Inner.links),
         NEW l, l = Inner.links[Inner.i], NEW a, a = Inner.cells[Inner.i],
         l.kind # "typed", Listed(l) = <<>>,
         lists' = Put(a, Void), stack' = NextTurn, UNCHANGED <<data, task, broken, keyed, root>>
  PROVE  OwnsInv'
<1>1. task.op = "reserve" /\ broken # "memory" /\ keyed \in KeyedQueries
  BY DEF Runs, OwnsInv
<1>2. /\ Owned(lists, data, root, {}) /\ CellsAreSound(lists) /\ RootsAreCells(lists, root)
      /\ ProductListsOf(lists, root) /\ LastMarked(lists, root, {})
  BY <1>1, ReserveHeap
<1>3. PICK b, i : b = a[1] /\ i = a[2]
  OBVIOUS
<1>4. Depth # 1
  <2>1. Listed(Whole) # <<>>
    BY <1>1, WholeIs
  <2> QED
    BY <1>1, <2>1, TurnIs
<1>5. l.kind # "fwd"
  BY <1>1, TurnIs, ListedIs
<1>6. /\ b \in DOMAIN lists /\ i \in DOMAIN lists[b] /\ a = <<b, i>> /\ (\A k \in Keys : root[k] # b)
      /\ At(a).pl = "plain" /\ At(a).code = 0 /\ b = Inner.cells[1][1] /\ i = Inner.i
  BY <1>1, <1>3, <1>4, <1>5, TurnIs
<1>7. lists[b][i].pl = "plain" /\ lists[b][i].ptr = 0
  <2>1. At(a) = lists[b][i]
    BY <1>6 DEF At
  <2>2. SoundCell(lists[b][i])
    BY <1>2, <1>6 DEF CellsAreSound
  <2> QED
    BY <1>6, <2>1, <2>2 DEF SoundCell
<1>8. PICK c : c = Void
  OBVIOUS
<1>9. c \in CellsOfKeys /\ SoundCell(c) /\ c.ptr = lists[b][i].ptr /\ c.pl = lists[b][i].pl /\ ~c.term
  BY <1>7, <1>8, VoidIsSound DEF Void
<1>10. PICK ls2 : ls2 = lists'
  OBVIOUS
<1>11. ls2 = Replaced(lists, b, i, c)
  <2>1. lists' = [lists EXCEPT ![b][i] = Void]
    BY <1>3 DEF Put
  <2> QED
    BY <1>8, <1>10, <2>1 DEF Replaced
<1>12. /\ Owned(ls2, data, root, {}) /\ ProductListsOf(ls2, root)
       /\ \A d : d \in DOMAIN ls2 <=> d \in DOMAIN lists
       /\ \A d \in DOMAIN lists : DOMAIN ls2[d] = DOMAIN lists[d] /\ Len(ls2[d]) = Len(lists[d])
       /\ ls2[b][i] = c
       /\ \A d \in DOMAIN lists : \A j \in DOMAIN lists[d] :
            d # b \/ j # i => ls2[d][j] = lists[d][j]
  BY <1>2, <1>6, <1>9, <1>11, CellRewritten
<1>13. /\ LoopsOf(NextTurn, ls2, root, task.key)
       /\ Len(NextTurn) = Depth /\ NextTurn[Depth] = [Inner EXCEPT !.i = @ + 1]
  <2>1. Inner.cells[Inner.i] = <<b, i>> /\ DOMAIN lists \subseteq DOMAIN ls2
    BY <1>6, <1>12
  <2>2. /\ \A d \in DOMAIN lists : Len(ls2[d]) = Len(lists[d])
        /\ \A d \in DOMAIN lists : \A j \in DOMAIN lists[d] :
             <<d, j>> # Inner.cells[Inner.i] => ls2[d][j] = lists[d][j]
    BY <1>12, <2>1
  <2> QED
    BY <1>1, <2>1, <2>2, LoopsTurned
<1>14. LoopOver(Inner, lists, root) /\ Inner \in LoopFrames
  BY <1>1, <1>4, LoopsLeft
<1>15. Len(lists[b]) = Len(Inner.links)
  BY <1>6, <1>14 DEF LoopOver
<1>16. PICK open : open = IF i = Len(lists[b]) THEN {b} ELSE {}
  OBVIOUS
<1>17. OpenLists' = open
  <2>1. Inner' = [Inner EXCEPT !.i = @ + 1]
    BY <1>13 DEF Inner, Depth
  <2>2. Inner'.i = Inner.i + 1 /\ Inner'.links = Inner.links /\ Inner'.cells = Inner.cells
        /\ Inner.i \in Nat /\ Len(Inner.links) \in Nat
    BY <1>14, <2>1, FrameIs
  <2>3. Inner'.i > Len(Inner'.links) <=> i = Len(lists[b])
    BY <1>6, <1>15, <2>2
  <2>4. task'.op = "reserve" /\ Inner'.cells[1][1] = b
    BY <1>1, <1>6, <2>2
  <2> QED
    BY <1>16, <2>3, <2>4 DEF OpenLists
<1>18. LastMarked(ls2, root, open)
  <2>1. PICK none : none = {}
    OBVIOUS
  <2>2. /\ LastMarked(lists, root, none) /\ CellsAreSound(lists)
        /\ \A d : d \in none => d \in open \/ (d = b /\ i = Len(lists[b]))
    BY <1>2, <2>1
  <2>3. \/ ls2[b][i].term = lists[b][i].term /\ (b \in none => b \in open)
        \/ i # Len(lists[b]) /\ ~ls2[b][i].term
        \/ i = Len(lists[b]) /\ (ls2[b][i].term \/ b \in open)
    BY <1>9, <1>12, <1>16
  <2>4. /\ \A d : d \in DOMAIN ls2 <=> d \in DOMAIN lists
        /\ \A d \in DOMAIN lists : DOMAIN ls2[d] = DOMAIN lists[d] /\ Len(ls2[d]) = Len(lists[d])
        /\ \A d \in DOMAIN lists : \A j \in DOMAIN lists[d] :
             d # b \/ j # i => ls2[d][j] = lists[d][j]
    BY <1>12
  <2>5. b \in DOMAIN lists /\ i \in DOMAIN lists[b]
    BY <1>6
  <2> QED
    BY <2>2, <2>3, <2>4, <2>5, MarksKept
<1>19. LastMarked(lists, root, OpenLists)'
  BY <1>10, <1>17, <1>18
<1> QED
  BY <1>1, <1>10, <1>12, <1>13, <1>19, StillReserves

LEMMA ReserveLinkOwns ==
  ASSUME OwnsInv, ReserveLink
  PROVE  OwnsInv'
<1>1. /\ Runs("reserve") /\ Inner.i <= Len(Inner.links) /\ UNCHANGED <<keyed, root>>
      /\ task.op = "reserve" /\ broken # "memory" /\ keyed \in KeyedQueries
  BY DEF ReserveLink, Runs, OwnsInv
<1>2. PICK l : l = Inner.links[Inner.i]
  OBVIOUS
<1>3. PICK a : a = Inner.cells[Inner.i]
  OBVIOUS
<1>4. l \in KeyLinks /\ IsLink(l, DOMAIN keyed.chains)
  BY <1>1, <1>2, TurnIs
<1>5. CASE l.kind = "typed"
  <2>1. ReserveDatum(a)
    <3>1. Listed(l) = <<>>
      BY <1>1, <1>4, <1>5, ListedIs
    <3> QED
      BY <1>2, <1>3, <1>5, <3>1 DEF ReserveLink
  <2> QED
    BY <1>1, <1>2, <1>3, <1>5, <2>1, DatumOwns
<1>6. CASE l.kind # "typed" /\ Listed(l) # <<>>
  <2>1. ReserveList(l, a)
    BY <1>2, <1>3, <1>6 DEF ReserveLink
  <2>2. CASE At(a).code = 0 /\ At(a).pl = "plain"
    <3>1. MarkAsList(a, Listed(l))
      BY <2>1, <2>2 DEF ReserveList
    <3>2. PICK links : links = Listed(l)
      OBVIOUS
    <3>3. PICK n : n = Fresh
      OBVIOUS
    <3>4. CASE /\ Free # {}
               /\ lists' = With(Put(a, [At(a) EXCEPT !.pl = "list", !.ptr = Fresh]), Fresh,
                                [j \in DOMAIN links |-> [Void EXCEPT !.term = (j = Len(links))]])
               /\ stack' = Append(NextTurn, Loop(links, CellsOf(Fresh, links)))
               /\ UNCHANGED <<data, task, result, faults, broken>>
      <4>1. lists' = With(Put(a, [At(a) EXCEPT !.pl = "list", !.ptr = n]), n, NewCells(links))
        BY <3>3, <3>4 DEF NewCells
      <4>2. stack' = Append(NextTurn, Loop(links, CellsOf(n, links)))
        BY <3>3, <3>4
      <4>3. Free # {} /\ UNCHANGED <<data, task, broken, keyed, root>>
        BY <1>1, <3>4
      <4> QED
        BY <1>1, <1>2, <1>3, <1>6, <2>2, <3>2, <3>3, <4>1, <4>2, <4>3, MarkOwns
    <3>5. CASE /\ AllocationFails /\ broken' = "assert"
               /\ UNCHANGED <<lists, data, task, result, stack>>
      BY <1>1, <3>5 DEF OwnsInv, Gone, OpenLists, Inner, Depth, ReserveLoops, LoopsOf, LoopIsWhole, Whole,
                        ProductLists, ProductListsOf, Remaining
    <3> QED
      BY <3>1, <3>2, <3>4, <3>5 DEF MarkAsList
  <2>3. CASE ~(At(a).code = 0 /\ At(a).pl = "plain")
    <3>1. UNCHANGED <<lists, data, faults, broken>>
      BY <2>1, <2>3 DEF ReserveList
    <3>2. CASE l.kind = "product"
      <4>1. PICK links : links = Listed(l)
        OBVIOUS
      <4>2. PICK n : n = At(a).ptr
        OBVIOUS
      <4>3. stack' = Append(NextTurn, Loop(links, CellsOf(n, links))) /\ UNCHANGED task
        BY <2>1, <2>3, <3>2, <4>1, <4>2 DEF ReserveList
      <4> QED
        BY <1>1, <1>2, <1>3, <2>3, <3>1, <3>2, <4>1, <4>2, <4>3, ReuseOwns
    <3>3. CASE l.kind # "product"
      <4>1. Fails(Depth + 1, "generic", NextTurn)
        BY <2>1, <2>3, <3>3 DEF ReserveList
      <4>2. /\ Owned(lists, data, root, {}) /\ ProductListsOf(lists, root) /\ LastMarked(lists, root, {})
        BY <1>1, ReserveHeap
      <4>3. lists' = lists /\ data' = data /\ broken' # "memory"
        BY <1>1, <3>1
      <4>4. CASE ReserveReturns("generic")
        <5>1. task' = NoTask
          BY <4>4 DEF ReserveReturns
        <5> QED
          BY <1>1, <4>2, <4>3, <5>1, ReserveStops
      <4>5. CASE stack' = NextTurn /\ UNCHANGED <<task, result>>
        <5>1. LoopsOf(NextTurn, lists, root, task.key)
          BY <1>1, LoopsTurned
        <5>2. LastMarked(lists, root, OpenLists)'
          BY <1>1, <4>2, <4>3, AllMarked
        <5> QED
          BY <1>1, <4>2, <4>3, <4>5, <5>1, <5>2, StillReserves
      <4> QED
        BY <4>1, <4>4, <4>5 DEF Fails
    <3> QED
      BY <3>2, <3>3
  <2> QED
    BY <2>2, <2>3
<1>7. CASE l.kind # "typed" /\ Listed(l) = <<>>
  <2>1. lists' = Put(a, Void) /\ stack' = NextTurn /\ UNCHANGED <<data, task, result, faults, broken>>
    BY <1>2, <1>3, <1>7 DEF ReserveLink
  <2> QED
    BY <1>1, <1>2, <1>3, <1>7, <2>1, VoidOwns
<1> QED
  BY <1>5, <1>6, <1>7

LEMMA ReserveEndOwns ==
  ASSUME OwnsInv, ReserveEnd
  PROVE  OwnsInv'
<1>1. /\ Runs("reserve") /\ Inner.i > Len(Inner.links) /\ task.op = "reserve" /\ broken # "memory"
      /\ UNCHANGED <<keyed, data, root, broken>>
  BY DEF ReserveEnd, Runs, OwnsInv
<1>2. /\ Owned(lists, data, root, {}) /\ CellsAreSound(lists) /\ RootsAreCells(lists, root)
      /\ ProductListsOf(lists, root) /\ task.key \in Keys
  BY <1>1, ReserveHeap
<1>3. PICK b : b = Inner.cells[1][1]
  OBVIOUS
<1>4. PICK open : open = {b}
  OBVIOUS
<1>5. LastMarked(lists, root, open)
  <2>1. OpenLists = open
    BY <1>1, <1>3, <1>4 DEF OpenLists
  <2> QED
    BY <2>1 DEF OwnsInv
<1>6. stack \in Seq(LoopFrames) /\ stack # <<>> /\ LoopsOf(stack, lists, root, task.key)
  BY <1>1 DEF OwnsInv, ReserveLoops, LoopsOf
<1>7. CASE Depth = 1
  <2>1. lists' = lists /\ task' = NoTask
    BY <1>7 DEF ReserveEnd, ReserveReturns
  <2>2. b = root[task.key]
    <3>1. Inner = stack[1]
      BY <1>7 DEF Inner
    <3> QED
      BY <1>3, <1>6, <3>1 DEF LoopsOf
  <2>3. LastMarked(lists, root, {})
    BY <1>2, <1>4, <1>5, <2>2 DEF LastMarked
  <2> QED
    BY <1>1, <1>2, <2>1, <2>3, ReserveStops
<1>8. CASE Depth # 1
  <2>1. LoopOver(Inner, lists, root) /\ Inner \in LoopFrames /\ LoopIsWhole(Inner)
    BY <1>1, <1>8, LoopsLeft
  <2>2. PICK i : i = Len(Inner.links)
    OBVIOUS
  <2>3. i \in Nat \ {0} /\ Inner.links \in Seq(KeyLinks) /\ Len(Inner.cells) = i /\ i \in DOMAIN Inner.links
    <3>1. Inner.links \in Seq(KeyLinks) /\ Inner.links # <<>> /\ Len(Inner.cells) = Len(Inner.links)
      BY <2>1, FrameIs DEF LoopIsWhole
    <3> QED
      BY <2>2, <3>1
  <2>4. b \in DOMAIN lists /\ Len(lists[b]) = i /\ (\A k \in Keys : root[k] # b)
        /\ Inner.cells = CellsOf(b, Inner.links)
    BY <1>3, <2>1, <2>2 DEF LoopOver
  <2>5. PICK a : a = Inner.cells[Len(Inner.cells)]
    OBVIOUS
  <2>6. a = <<b, i>>
    BY <2>3, <2>4, <2>5 DEF CellsOf
  <2>7. i \in DOMAIN lists[b] /\ lists[b][i] \in CellsOfKeys /\ SoundCell(lists[b][i])
    <3>1. lists[b] \in Seq(CellsOfKeys)
      BY <1>2, <2>4 DEF CellsAreSound
    <3>2. i \in DOMAIN lists[b]
      BY <2>3, <2>4, <3>1
    <3> QED
      BY <1>2, <2>4, <3>1, <3>2 DEF CellsAreSound
  <2>8. PICK c : c = [lists[b][i] EXCEPT !.term = TRUE]
    OBVIOUS
  <2>9. c \in CellsOfKeys /\ SoundCell(c) /\ c.ptr = lists[b][i].ptr /\ c.pl = lists[b][i].pl /\ c.term
    BY <2>7, <2>8 DEF CellsOfKeys, SoundCell
  <2>10. PICK ls2 : ls2 = lists'
    OBVIOUS
  <2>11. /\ lists' = Put(a, [At(a) EXCEPT !.term = TRUE])
         /\ stack' = Outer /\ UNCHANGED <<task, result>>
    BY <1>8, <2>5 DEF ReserveEnd
  <2>12. ls2 = Replaced(lists, b, i, c)
    BY <2>6, <2>8, <2>10, <2>11 DEF Replaced, Put, At
  <2>13. /\ Owned(ls2, data, root, {}) /\ ProductListsOf(ls2, root)
         /\ \A d : d \in DOMAIN ls2 <=> d \in DOMAIN lists
         /\ \A d \in DOMAIN lists : DOMAIN ls2[d] = DOMAIN lists[d] /\ Len(ls2[d]) = Len(lists[d])
         /\ ls2[b][i] = c
         /\ \A d \in DOMAIN lists : \A j \in DOMAIN lists[d] :
              d # b \/ j # i => ls2[d][j] = lists[d][j]
    BY <1>2, <2>4, <2>7, <2>9, <2>12, CellRewritten
  <2>14. LastMarked(ls2, root, {})
    <3>1. PICK none : none = {}
      OBVIOUS
    <3>2. \A d : d \in open => d \in none \/ (d = b /\ i = Len(lists[b]))
      BY <1>4, <2>4
    <3>3. i = Len(lists[b]) /\ (ls2[b][i].term \/ b \in none)
      BY <2>4, <2>9, <2>13
    <3>4. /\ \A d : d \in DOMAIN ls2 <=> d \in DOMAIN lists
          /\ \A d \in DOMAIN lists : DOMAIN ls2[d] = DOMAIN lists[d] /\ Len(ls2[d]) = Len(lists[d])
          /\ \A d \in DOMAIN lists : \A j \in DOMAIN lists[d] :
               d # b \/ j # i => ls2[d][j] = lists[d][j]
      BY <2>13
    <3>5. LastMarked(ls2, root, none)
      BY <1>2, <1>5, <2>4, <2>7, <3>2, <3>3, <3>4, MarksKept
    <3> QED
      BY <3>1, <3>5
  <2>15. LoopsOf(Outer, ls2, root, task.key)
    <3>1. \A d \in DOMAIN lists : d # Inner.cells[1][1] => \A j \in DOMAIN lists[d] : ls2[d][j] = lists[d][j]
      BY <1>3, <2>13
    <3> QED
      BY <1>1, <1>8, <2>13, <3>1, LoopsLeft
  <2>16. LastMarked(lists, root, OpenLists)'
    BY <1>1, <2>10, <2>14, AllMarked
  <2> QED
    BY <1>1, <2>10, <2>11, <2>13, <2>15, <2>16, StillReserves
<1> QED
  BY <1>7, <1>8
-----------------------------------------------------------------------------
LEMMA OwnedData ==
  ASSUME NEW ls, NEW ds, NEW rs, NEW gone, Owned(ls, ds, rs, gone), NEW ds2, DOMAIN ds2 = DOMAIN ds
  PROVE  Owned(ls, ds2, rs, gone)
<1>1. BlocksApart(ls, ds2)
  BY DEF Owned, BlocksApart
<1>2. PointToLive(ls, ds2, gone)
  BY DEF Owned, PointToLive
<1>3. HaveOwner(ls, ds2, rs, gone)
  BY DEF Owned, HaveOwner
<1> QED
  BY <1>1, <1>2, <1>3 DEF Owned

(* Steps that write no cells, of calls that neither reserve nor destroy.   *)
LEMMA CellsStay ==
  ASSUME OwnsInv, UNCHANGED <<keyed, lists, root>>, DOMAIN data' = DOMAIN data, broken' # "memory",
         task.op \notin {"reserve", "destroy"}, task'.op \notin {"reserve", "view", "destroy"}
  PROVE  OwnsInv'
<1>1. Gone = {} /\ OpenLists = {} /\ Gone' = {} /\ OpenLists' = {} /\ Remaining = root /\ Remaining' = root
  BY DEF Gone, OpenLists, Remaining
<1>2. Owned(lists, data', root, {})
  <2>1. Owned(lists, data, root, {})
    BY <1>1 DEF OwnsInv
  <2> QED
    BY <2>1, OwnedData
<1>3. Owned(lists, data, root, Gone)'
  BY <1>1, <1>2
<1>4. LastMarked(lists, root, OpenLists)'
  BY <1>1 DEF OwnsInv
<1>5. ProductLists'
  BY <1>1 DEF OwnsInv, ProductLists, ProductListsOf
<1> QED
  BY <1>3, <1>4, <1>5 DEF OwnsInv

LEMMA QuietIs ==
  ASSUME OwnsInv, Quiet
  PROVE  /\ task.op = "none" /\ broken # "memory" /\ keyed \in KeyedQueries
         /\ Owned(lists, data, root, {}) /\ LastMarked(lists, root, {}) /\ ProductListsOf(lists, root)
<1>1. task.op = "none" /\ broken # "memory"
  BY DEF Quiet, NoTask
<1>2. Gone = {} /\ OpenLists = {} /\ Remaining = root
  BY <1>1 DEF Gone, OpenLists, Remaining
<1> QED
  BY <1>1, <1>2 DEF OwnsInv, ProductLists

LEMMA InitOwns ==
  ASSUME KeyInit
  PROVE  OwnsInv
<1>1. /\ keyed \in KeyedQueries /\ lists = <<>> /\ data = <<>> /\ root = [k \in Keys |-> 0]
      /\ task.op = "none" /\ broken = "no"
  BY DEF KeyInit, NoTask
<1>2. Gone = {} /\ OpenLists = {} /\ Remaining = root
  BY <1>1 DEF Gone, OpenLists, Remaining
<1>3. DOMAIN lists = {} /\ DOMAIN data = {} /\ lists \in [DOMAIN lists -> Seq(CellsOfKeys)]
  BY <1>1
<1>4. \A b, i : ~Owning(lists, {}, b, i)
  BY <1>3 DEF Owning
<1>5. Owned(lists, data, root, {})
  <2>1. CellsAreSound(lists) /\ BlocksApart(lists, data)
    BY <1>3 DEF CellsAreSound, BlocksApart
  <2>2. RootsAreCells(lists, root)
    BY <1>1 DEF RootsAreCells
  <2>3. PointToLive(lists, data, {}) /\ PointApart(lists, root, {})
    BY <1>4 DEF PointToLive, PointApart
  <2>4. HaveOwner(lists, data, root, {})
    BY <1>3 DEF HaveOwner
  <2> QED
    BY <2>1, <2>2, <2>3, <2>4 DEF Owned
<1>6. LastMarked(lists, root, {})
  BY <1>3 DEF LastMarked
<1>7. ProductLists
  BY <1>1, <1>2 DEF ProductLists, ProductListsOf
<1> QED
  BY <1>1, <1>2, <1>5, <1>6, <1>7 DEF OwnsInv

LEMMA NewKeyOwns ==
  ASSUME OwnsInv, NEW k \in Keys, NewKey(k)
  PROVE  OwnsInv'
<1>1. /\ task.op = "none" /\ broken # "memory" /\ keyed \in KeyedQueries
      /\ Owned(lists, data, root, {}) /\ LastMarked(lists, root, {}) /\ ProductListsOf(lists, root)
  BY QuietIs DEF NewKey
<1>2. PICK n : n = Fresh
  OBVIOUS
<1>3. n \in Blocks /\ n \notin DOMAIN lists /\ n \notin DOMAIN data /\ n # 0 /\ root[k] = 0
  BY <1>2, FreshIsFree DEF NewKey, Live
<1>4. lists' = With(lists, n, <<Void>>) /\ root' = [root EXCEPT ![k] = n]
      /\ UNCHANGED <<keyed, data, task, broken>>
  BY <1>2 DEF NewKey
<1>5. Owned(lists', data, root', {}) /\ LastMarked(lists', root', {})
  BY <1>1, <1>3, <1>4, NewKeyOwned
<1>6. Gone' = {} /\ OpenLists' = {} /\ Remaining' = root'
  BY <1>1, <1>4 DEF Gone, OpenLists, Remaining
<1>7. Owned(lists, data, root, Gone)' /\ LastMarked(lists, root, OpenLists)'
  BY <1>4, <1>5, <1>6
<1>8. ProductLists'
  <2> SUFFICES ASSUME keyed.direct, NEW j \in Keys, root'[j] # 0, lists'[root'[j]][1].pl = "list"
               PROVE  Len(lists'[lists'[root'[j]][1].ptr]) = Len(keyed.chains[1][1].sub)
    BY <1>4, <1>6 DEF ProductLists, ProductListsOf
  <2>1. RootsAreCells(lists, root) /\ CellsAreSound(lists) /\ root \in [Keys -> Blocks \cup {0}]
    BY <1>1 DEF Owned, RootsAreCells
  <2>2. lists'[n] = <<Void>> /\ \A d \in DOMAIN lists : lists'[d] = lists[d]
    BY <1>3, <1>4 DEF With
  <2>3. j # k
    BY <1>4, <2>1, <2>2 DEF Void
  <2>4. root'[j] = root[j] /\ root[j] \in DOMAIN lists /\ Len(lists[root[j]]) = 1
    BY <1>4, <2>1, <2>3 DEF RootsAreCells
  <2>5. lists[root[j]] \in Seq(CellsOfKeys) /\ 1 \in DOMAIN lists[root[j]]
    <3>1. lists[root[j]] \in Seq(CellsOfKeys)
      BY <2>1, <2>4 DEF CellsAreSound
    <3> QED
      BY <2>4, <3>1
  <2>6. lists'[root'[j]][1] = lists[root[j]][1] /\ lists[root[j]][1].pl = "list"
    BY <2>2, <2>4
  <2>7. Owning(lists, {}, root[j], 1)
    <3>1. SoundCell(lists[root[j]][1])
      BY <2>1, <2>4, <2>5 DEF CellsAreSound
    <3> QED
      BY <2>4, <2>5, <2>6, <3>1 DEF Owning, SoundCell
  <2>8. lists[root[j]][1].ptr \in DOMAIN lists
    BY <1>1, <2>6, <2>7 DEF Owned, PointToLive
  <2>9. Len(lists[lists[root[j]][1].ptr]) = Len(keyed.chains[1][1].sub)
    BY <1>1, <2>4, <2>6 DEF ProductListsOf
  <2> QED
    BY <2>2, <2>6, <2>8, <2>9
<1> QED
  BY <1>1, <1>4, <1>7, <1>8 DEF OwnsInv

LEMMA ReserveKeyOwns ==
  ASSUME OwnsInv, NEW k \in Keys, ReserveKey(k)
  PROVE  OwnsInv'
<1>1. /\ task.op = "none" /\ broken # "memory" /\ keyed \in KeyedQueries
      /\ Owned(lists, data, root, {}) /\ LastMarked(lists, root, {}) /\ ProductListsOf(lists, root)
  BY QuietIs DEF ReserveKey
<1>2. /\ root[k] # 0 /\ task'.op = "reserve" /\ task'.key = k
      /\ stack' = <<Loop(<<Whole>>, <<Own(k)>>)>>
      /\ UNCHANGED <<keyed, lists, data, root, broken>>
  BY DEF ReserveKey
<1>3. PICK f : f = Loop(<<Whole>>, <<Own(k)>>)
  OBVIOUS
<1>4. f.links = <<Whole>> /\ f.cells = <<<<root[k], 1>>>> /\ f.i = 1
      /\ f = [links |-> <<Whole>>, cells |-> <<<<root[k], 1>>>>, i |-> 1]
  BY <1>3 DEF Loop, Own
<1>5. Whole \in KeyLinks /\ IsLink(Whole, DOMAIN keyed.chains)
  BY <1>1, WholeIs
<1>6. f \in LoopFrames
  <2>1. root[k] \in Blocks
    BY <1>1, <1>2 DEF Owned, RootsAreCells, CellsAreSound
  <2>2. PICK C : C = Seq(Blocks \X Nat)
    OBVIOUS
  <2>3. PICK L : L = Seq(KeyLinks)
    OBVIOUS
  <2>4. <<Whole>> \in L
    BY <1>5, <2>3
  <2>5. <<<<root[k], 1>>>> \in C
    <3>1. PICK P : P = Blocks \X Nat
      OBVIOUS
    <3>2. <<root[k], 1>> \in P
      BY <2>1, <3>1
    <3>3. <<<<root[k], 1>>>> \in Seq(P)
      BY <3>2
    <3> QED
      BY <2>2, <3>1, <3>3
  <2>6. f \in [links : L, cells : C, i : Nat \ {0}]
    BY <1>4, <2>4, <2>5
  <2> QED
    BY <2>2, <2>3, <2>6 DEF LoopFrames
<1>7. LoopIsWhole(f)
  BY <1>4, <1>5 DEF LoopIsWhole
<1>8. PICK st : st = <<f>>
  OBVIOUS
<1>9. st \in Seq(LoopFrames) /\ st # <<>> /\ Len(st) = 1 /\ st[1] = f /\ DOMAIN st = {1}
  BY <1>6, <1>8
<1>10. LoopsOf(st, lists, root, k)
  BY <1>4, <1>7, <1>9 DEF LoopsOf
<1>11. stack' = st
  BY <1>2, <1>3, <1>8
<1>12. ReserveLoops'
  BY <1>2, <1>10, <1>11 DEF ReserveLoops, LoopsOf, LoopIsWhole, Whole
<1>13. Inner' = f
  BY <1>9, <1>11 DEF Inner, Depth
<1>14. Gone' = {} /\ OpenLists' = {}
  BY <1>2, <1>4, <1>13 DEF Gone, OpenLists
<1>15. Owned(lists, data, root, Gone)' /\ LastMarked(lists, root, OpenLists)'
  BY <1>1, <1>2, <1>14
<1>16. ProductLists'
  BY <1>1, <1>2 DEF ProductLists, ProductListsOf, Remaining
<1> QED
  BY <1>1, <1>2, <1>12, <1>15, <1>16 DEF OwnsInv

-----------------------------------------------------------------------------
(* A walk starts at the own cell of a key.                                 *)
LEMMA WalkStarts ==
  ASSUME OwnsInv, Quiet, NEW k \in Keys, root[k] # 0,
         task'.op \in {"view", "destroy"}, task'.key = k,
         stack' = <<[list |-> root[k], i |-> 1]>>,
         UNCHANGED <<keyed, lists, data, root, broken>>
  PROVE  OwnsInv'
<1>1. /\ task.op = "none" /\ broken # "memory" /\ keyed \in KeyedQueries
      /\ Owned(lists, data, root, {}) /\ LastMarked(lists, root, {}) /\ ProductListsOf(lists, root)
  BY QuietIs
<1>2. PICK st : st = <<[list |-> root[k], i |-> 1]>>
  OBVIOUS
<1>3. root[k] \in Blocks /\ root[k] \in DOMAIN lists /\ Len(lists[root[k]]) = 1
  BY <1>1 DEF Owned, RootsAreCells, CellsAreSound
<1>4. [list |-> root[k], i |-> 1] \in WalkFrames
  BY <1>3 DEF WalkFrames
<1>5. st \in Seq(WalkFrames) /\ st # <<>> /\ Len(st) = 1 /\ DOMAIN st = {1}
      /\ st[1].list = root[k] /\ st[1].i = 1
  BY <1>2, <1>4
<1>6. stack' = st
  BY <1>2
<1>7. WalkLoops'
  BY <1>3, <1>5, <1>6 DEF WalkLoops
<1>8. Gone' = {} /\ OpenLists' = {}
  <2>1. Gone' = {}
    BY <1>5, <1>6 DEF Gone
  <2> QED
    BY <2>1 DEF OpenLists
<1>9. Owned(lists, data, root, Gone)' /\ LastMarked(lists, root, OpenLists)'
  BY <1>1, <1>8
<1>10. ProductLists'
  <2>1. root \in [Keys -> Blocks \cup {0}]
    BY <1>1 DEF Owned, RootsAreCells
  <2>2. ASSUME NEW j \in Keys, Remaining'[j] # 0
        PROVE  Remaining'[j] = root[j]
    BY <2>1, <2>2 DEF Remaining
  <2> QED
    BY <1>1, <2>2 DEF ProductLists, ProductListsOf
<1> QED
  BY <1>1, <1>7, <1>9, <1>10 DEF OwnsInv

(* The cells a destruction has visited.                                    *)
LEMMA GoneIs ==
  ASSUME task.op = "destroy", WalkLoops, DOMAIN lists \subseteq Blocks, NEW b, NEW i
  PROVE  <<b, i>> \in Gone <=> \E d \in DOMAIN stack : stack[d].list = b /\ i \in 1..(stack[d].i - 1)
<1>1. \A d \in DOMAIN stack : stack[d].list \in Blocks
  BY DEF WalkLoops
<1>2. \A d \in DOMAIN stack : 1..(stack[d].i - 1) \subseteq Nat
  OBVIOUS
<1>3. Gone = {a \in Blocks \X Nat :
                \E d \in DOMAIN stack : stack[d].list = a[1] /\ a[2] \in 1..(stack[d].i - 1)}
  BY DEF Gone
<1> QED
  BY <1>1, <1>2, <1>3

(* Where a walk is.                                                        *)
LEMMA WalkIs ==
  ASSUME OwnsInv, Walking
  PROVE  /\ WalkLoops /\ Owned(lists, data, root, Gone) /\ LastMarked(lists, root, {})
         /\ task.op \in {"view", "destroy"} /\ broken # "memory" /\ broken = "no" /\ keyed \in KeyedQueries
         /\ task.key \in Keys /\ root[task.key] # 0
         /\ Depth = Len(stack) /\ Depth \in Nat \ {0} /\ Inner = stack[Depth] /\ Inner \in WalkFrames
         /\ stack \in Seq(WalkFrames)
         /\ Inner.list \in DOMAIN lists /\ lists[Inner.list] \in Seq(CellsOfKeys)
         /\ ~PassedLast(Inner.list) => Inner.i \in DOMAIN lists[Inner.list]
         /\ PassedLast(Inner.list) => Inner.i = Len(lists[Inner.list]) + 1
<1>1. task.op \in {"view", "destroy"} /\ broken = "no"
  BY DEF Walking, Runs
<1>2. WalkLoops /\ Owned(lists, data, root, Gone) /\ keyed \in KeyedQueries
      /\ task.key \in Keys /\ root[task.key] # 0
  BY <1>1 DEF OwnsInv
<1>3. LastMarked(lists, root, {})
  <2>1. OpenLists = {}
    BY <1>1 DEF OpenLists
  <2> QED
    BY <2>1 DEF OwnsInv
<1>4. stack \in Seq(WalkFrames) /\ stack # <<>>
  BY <1>2 DEF WalkLoops
<1>5. Depth = Len(stack) /\ Depth \in Nat \ {0} /\ Inner = stack[Depth] /\ Inner \in WalkFrames
      /\ Depth \in DOMAIN stack
  BY <1>4, StackPopped DEF Depth, Inner
<1>6. PICK b : b = Inner.list
  OBVIOUS
<1>7. PICK i : i = Inner.i
  OBVIOUS
<1>8. b \in DOMAIN lists /\ i <= Len(lists[b]) + 1 /\ i \in Nat \ {0}
  BY <1>2, <1>5, <1>6, <1>7 DEF WalkLoops, WalkFrames
<1>9. lists[b] \in Seq(CellsOfKeys) /\ lists[b] # <<>>
  BY <1>2, <1>8 DEF Owned, CellsAreSound
<1>10. PICK len : len = Len(lists[b])
  OBVIOUS
<1>11. len \in Nat \ {0} /\ DOMAIN lists[b] = 1..len
  BY <1>9, <1>10
<1>12. CASE Depth = 1
  <2>1. b = root[task.key] /\ len = 1
    BY <1>2, <1>5, <1>6, <1>10, <1>12 DEF WalkLoops, Owned, RootsAreCells
  <2>2. PassedLast(b) <=> i > 1
    BY <1>7, <1>12 DEF PassedLast
  <2>3. /\ ~PassedLast(b) => i \in DOMAIN lists[b]
        /\ PassedLast(b) => i = len + 1
    <3>1. i = 1 \/ i = 2
      <4>1. i <= len + 1 /\ i \in Nat \ {0}
        BY <1>8, <1>10
      <4> QED
        BY <2>1, <4>1
    <3>2. 1 \in DOMAIN lists[b] /\ len + 1 = 2
      BY <1>11, <2>1
    <3> QED
      BY <2>2, <3>1, <3>2
  <2> QED
    BY <1>1, <1>2, <1>3, <1>4, <1>5, <1>6, <1>7, <1>8, <1>9, <1>10, <2>3
<1>13. CASE Depth # 1
  <2>1. PICK d : d = Depth - 1
    OBVIOUS
  <2>2. d \in DOMAIN stack /\ d \in Nat \ {0} /\ d # Depth
    BY <1>4, <1>5, <1>13, <2>1
  <2>3. PICK p, j : p = stack[d].list /\ j = stack[d].i
    OBVIOUS
  <2>4. p \in DOMAIN lists /\ j \in Nat \ {0} /\ j <= Len(lists[p])
        /\ lists[p][j].pl = "list" /\ lists[p][j].ptr = b
    <3>1. Depth > 1
      BY <1>5, <1>13
    <3>2. stack[d] \in WalkFrames
      BY <1>4, <2>2
    <3> QED
      BY <1>2, <1>5, <1>6, <2>1, <2>2, <2>3, <3>1, <3>2 DEF WalkLoops, WalkFrames, At
  <2>5. j \in DOMAIN lists[p]
    <3>1. lists[p] \in Seq(CellsOfKeys)
      BY <1>2, <2>4 DEF Owned, CellsAreSound
    <3> QED
      BY <2>4, <3>1
  <2>6. <<p, j>> \notin Gone
    <3>1. CASE task.op = "destroy"
      <4>1. SUFFICES ASSUME NEW x \in DOMAIN stack, stack[x].list = p, j \in 1..(stack[x].i - 1)
                     PROVE  FALSE
        BY <1>2, <3>1, GoneIs DEF Owned, CellsAreSound
      <4>2. x = d
        BY <1>2, <2>2, <2>3, <4>1 DEF WalkLoops
      <4> QED
        BY <2>3, <2>4, <4>1, <4>2
    <3>2. CASE task.op # "destroy"
      BY <3>2 DEF Gone
    <3> QED
      BY <3>1, <3>2
  <2>7. Owning(lists, Gone, p, j)
    <3>1. SoundCell(lists[p][j])
      BY <1>2, <2>4, <2>5 DEF Owned, CellsAreSound
    <3> QED
      BY <2>4, <2>5, <2>6, <3>1 DEF Owning, SoundCell
  <2>8. \A k \in Keys : root[k] # b
    BY <1>2, <2>4, <2>7 DEF Owned, PointApart
  <2>9. \A x \in 1..len : lists[b][x].term <=> x = len
    <3>1. b \in DOMAIN lists \ {root[k] : k \in Keys}
      BY <1>8, <2>8
    <3>2. \A x \in DOMAIN lists[b] : (x < len => ~lists[b][x].term) /\ (x = len => lists[b][x].term)
      BY <1>3, <1>10, <3>1 DEF LastMarked
    <3> QED
      BY <1>11, <3>2
  <2>10. PassedLast(b) <=> i > 1 /\ lists[b][i - 1].term
    BY <1>7, <1>13 DEF PassedLast
  <2>11. /\ ~PassedLast(b) => i \in DOMAIN lists[b]
         /\ PassedLast(b) => i = len + 1
    <3>1. i > 1 => i - 1 \in 1..len
      BY <1>8, <1>10, <1>11
    <3>2. PassedLast(b) => i - 1 = len
      BY <2>9, <2>10, <3>1
    <3>3. i = len + 1 => PassedLast(b)
      BY <1>11, <2>9, <2>10
    <3> QED
      BY <1>8, <1>10, <1>11, <3>2, <3>3
  <2> QED
    BY <1>1, <1>2, <1>3, <1>4, <1>5, <1>6, <1>7, <1>8, <1>9, <1>10, <2>11
<1> QED
  BY <1>12, <1>13

(* The cell a walk is at, or was at when it went into a list.              *)
LEMMA WalkOwns ==
  ASSUME OwnsInv, Walking, NEW d \in DOMAIN stack,
         stack[d].i \in DOMAIN lists[stack[d].list]
  PROVE  /\ lists[stack[d].list][stack[d].i] \in CellsOfKeys
         /\ SoundCell(lists[stack[d].list][stack[d].i])
         /\ <<stack[d].list, stack[d].i>> \notin Gone
         /\ lists[stack[d].list][stack[d].i].ptr # 0 => Owning(lists, Gone, stack[d].list, stack[d].i)
<1>1. WalkLoops /\ Owned(lists, data, root, Gone) /\ stack \in Seq(WalkFrames)
  BY WalkIs
<1>2. PICK b : b = stack[d].list
  OBVIOUS
<1>3. PICK i : i = stack[d].i
  OBVIOUS
<1>4. b \in DOMAIN lists /\ i \in DOMAIN lists[b]
  BY <1>1, <1>2, <1>3 DEF WalkLoops
<1>5. lists[b][i] \in CellsOfKeys /\ SoundCell(lists[b][i])
  <2>1. lists[b] \in Seq(CellsOfKeys) /\ SoundCell(lists[b][i])
    BY <1>1, <1>4 DEF Owned, CellsAreSound
  <2> QED
    BY <1>4, <2>1
<1>6. i \in Nat
  <2>1. stack[d] \in WalkFrames
    BY <1>1
  <2> QED
    BY <1>3, <2>1 DEF WalkFrames
<1>7. <<b, i>> \notin Gone
  <2>1. CASE task.op = "destroy"
    <3>1. SUFFICES ASSUME NEW x \in DOMAIN stack, stack[x].list = b, i \in 1..(stack[x].i - 1)
                   PROVE  FALSE
      BY <1>1, <2>1, GoneIs DEF Owned, CellsAreSound
    <3>2. x = d
      BY <1>1, <1>2, <3>1 DEF WalkLoops
    <3> QED
      BY <1>3, <1>6, <3>1, <3>2
  <2>2. CASE task.op # "destroy"
    BY <2>2 DEF Gone
  <2> QED
    BY <2>1, <2>2
<1> QED
  BY <1>2, <1>3, <1>4, <1>5, <1>7 DEF Owning

(* The next turn of a walk.                                                *)
LEMMA WalkTurned ==
  ASSUME OwnsInv, Walking, ~PassedLast(Inner.list), stack' = NextTurn,
         UNCHANGED <<keyed, lists, root, task>>, broken' # "memory",
         NEW gone, gone = Gone \cup {<<Inner.list, Inner.i>>},
         task.op = "destroy" => Owned(lists, data', root, gone),
         task.op # "destroy" => data' = data
  PROVE  OwnsInv'
<1>1. /\ WalkLoops /\ Owned(lists, data, root, Gone) /\ LastMarked(lists, root, {})
      /\ task.op \in {"view", "destroy"} /\ keyed \in KeyedQueries
      /\ task.key \in Keys /\ root[task.key] # 0
      /\ Depth = Len(stack) /\ Depth \in Nat \ {0} /\ Inner = stack[Depth] /\ Inner \in WalkFrames
      /\ stack \in Seq(WalkFrames)
      /\ Inner.list \in DOMAIN lists /\ lists[Inner.list] \in Seq(CellsOfKeys)
      /\ Inner.i \in DOMAIN lists[Inner.list]
  BY WalkIs
<1>2. PICK f : f = [Inner EXCEPT !.i = @ + 1]
  OBVIOUS
<1>3. f \in WalkFrames /\ f.list = Inner.list /\ f.i = Inner.i + 1 /\ Inner.i \in Nat \ {0}
      /\ f.i <= Len(lists[Inner.list]) + 1
  BY <1>1, <1>2 DEF WalkFrames
<1>4. PICK st : st = NextTurn
  OBVIOUS
<1>5. /\ st \in Seq(WalkFrames) /\ Len(st) = Depth /\ st[Depth] = f
      /\ \A d \in 1..(Depth - 1) : st[d] = stack[d]
  BY <1>1, <1>2, <1>3, <1>4, StackTurned
<1>6. DOMAIN st = DOMAIN stack /\ DOMAIN stack = 1..Depth /\ st # <<>> /\ Depth \in DOMAIN stack
      /\ 1 \in DOMAIN stack
  BY <1>1, <1>5
<1>7. \A d \in DOMAIN stack : st[d].list = stack[d].list /\ (d # Depth => st[d] = stack[d])
  <2> TAKE d \in DOMAIN stack
  <2>1. d = Depth \/ d \in 1..(Depth - 1)
    BY <1>1, <1>6
  <2> QED
    BY <1>1, <1>3, <1>5, <2>1
<1>8. \A d \in DOMAIN stack : d > 1 => d - 1 \in DOMAIN stack /\ d - 1 # Depth /\ st[d - 1] = stack[d - 1]
  BY <1>1, <1>5, <1>6
<1>9. WalkLoops'
  <2>1. ASSUME NEW d \in DOMAIN st
        PROVE  /\ st[d].list \in DOMAIN lists
               /\ st[d].i <= Len(lists[st[d].list]) + 1
               /\ d > 1 =>
                    LET a == <<st[d - 1].list, st[d - 1].i>>
                    IN st[d - 1].i <= Len(lists[st[d - 1].list]) /\ At(a).pl = "list"
                       /\ At(a).ptr = st[d].list
    <3>1. st[d].i <= Len(lists[st[d].list]) + 1
      BY <1>1, <1>3, <1>5, <1>6, <1>7 DEF WalkLoops
    <3>2. d \in DOMAIN stack /\ st[d].list = stack[d].list
      BY <1>6, <1>7
    <3>3. st[d].list \in DOMAIN lists
      BY <1>1, <3>2 DEF WalkLoops
    <3>4. ASSUME d > 1
          PROVE  LET a == <<st[d - 1].list, st[d - 1].i>>
                 IN st[d - 1].i <= Len(lists[st[d - 1].list]) /\ At(a).pl = "list"
                    /\ At(a).ptr = st[d].list
      <4>1. st[d - 1] = stack[d - 1]
        BY <1>8, <3>2, <3>4
      <4> QED
        BY <1>1, <3>2, <3>4, <4>1 DEF WalkLoops
    <3> QED
      BY <3>1, <3>3, <3>4
  <2>2. \A d, x \in DOMAIN st : st[d].list = st[x].list => d = x
    BY <1>1, <1>6, <1>7 DEF WalkLoops
  <2>3. st[1].list = root[task.key]
    BY <1>1, <1>6, <1>7 DEF WalkLoops
  <2> QED
    BY <1>4, <1>5, <1>6, <2>1, <2>2, <2>3 DEF WalkLoops, At
<1>10. Owned(lists, data, root, Gone)'
  <2>1. CASE task.op = "destroy"
    <3>1. Gone' = gone
      <4>1. \A b, i : <<b, i>> \in Gone' <=>
              \E d \in DOMAIN st : st[d].list = b /\ i \in 1..(st[d].i - 1)
        <5>1. DOMAIN lists \subseteq Blocks
          BY <1>1 DEF Owned, CellsAreSound
        <5>2. \A d \in DOMAIN st : st[d].list \in Blocks
          BY <1>1, <1>6, <1>7, <5>1 DEF WalkLoops
        <5>3. Gone' = {a \in Blocks \X Nat :
                \E d \in DOMAIN st : st[d].list = a[1] /\ a[2] \in 1..(st[d].i - 1)}
          BY <1>4, <2>1 DEF Gone
        <5> QED
          BY <5>2, <5>3
      <4>2. \A b, i : <<b, i>> \in Gone <=>
              \E d \in DOMAIN stack : stack[d].list = b /\ i \in 1..(stack[d].i - 1)
        BY <1>1, <2>1, GoneIs, ZenonT(40) DEF Owned, CellsAreSound
      <4>3. \A i : i \in 1..(f.i - 1) <=> i \in 1..(Inner.i - 1) \/ i = Inner.i
        BY <1>3
      <4>4. \A b, i : <<b, i>> \in Gone' <=> <<b, i>> \in gone
        <5> TAKE b, i
        <5>1. <<b, i>> \in gone <=> <<b, i>> \in Gone \/ (b = Inner.list /\ i = Inner.i)
          OBVIOUS
        <5>2. ASSUME NEW d \in DOMAIN stack
              PROVE  (st[d].list = b /\ i \in 1..(st[d].i - 1)) <=>
                       \/ stack[d].list = b /\ i \in 1..(stack[d].i - 1)
                       \/ d = Depth /\ b = Inner.list /\ i = Inner.i
          BY <1>1, <1>3, <1>5, <1>7, <4>3
        <5> QED
          BY <1>6, <4>1, <4>2, <5>1, <5>2
      <4>5. Gone' \subseteq Blocks \X Nat /\ Gone \subseteq Blocks \X Nat
        BY <2>1 DEF Gone
      <4>6. <<Inner.list, Inner.i>> \in Blocks \X Nat
        BY <1>1, <1>3 DEF WalkFrames
      <4>7. gone \subseteq Blocks \X Nat
        BY <4>5, <4>6
      <4>8. \A a \in Blocks \X Nat : a = <<a[1], a[2]>>
        OBVIOUS
      <4> QED
        BY <4>4, <4>5, <4>7, <4>8
    <3> QED
      BY <2>1, <3>1
  <2>2. CASE task.op # "destroy"
    <3>1. Gone = {} /\ Gone' = {}
      BY <2>2 DEF Gone
    <3> QED
      BY <1>1, <2>2, <3>1
  <2> QED
    BY <2>1, <2>2
<1>11. LastMarked(lists, root, OpenLists)'
  <2>1. OpenLists' = {}
    BY <1>1 DEF OpenLists
  <2> QED
    BY <1>1, <2>1
<1>12. ProductLists'
  BY DEF OwnsInv, ProductLists, ProductListsOf, Remaining
<1> QED
  BY <1>1, <1>9, <1>10, <1>11, <1>12 DEF OwnsInv

(* The walk goes into the list of a cell.                                  *)
LEMMA WalkPushed ==
  ASSUME OwnsInv, Walking, ~PassedLast(Inner.list),
         lists[Inner.list][Inner.i].pl = "list",
         NEW n, n = lists[Inner.list][Inner.i].ptr,
         stack' = Append(stack, [list |-> n, i |-> 1]),
         UNCHANGED <<keyed, lists, data, root, task, broken>>
  PROVE  OwnsInv'
<1>1. /\ WalkLoops /\ Owned(lists, data, root, Gone) /\ LastMarked(lists, root, {})
      /\ task.op \in {"view", "destroy"} /\ keyed \in KeyedQueries /\ broken # "memory"
      /\ task.key \in Keys /\ root[task.key] # 0
      /\ Depth = Len(stack) /\ Depth \in Nat \ {0} /\ Inner = stack[Depth] /\ Inner \in WalkFrames
      /\ stack \in Seq(WalkFrames)
      /\ Inner.list \in DOMAIN lists /\ lists[Inner.list] \in Seq(CellsOfKeys)
      /\ Inner.i \in DOMAIN lists[Inner.list]
  BY WalkIs
<1>2. DOMAIN stack = 1..Depth /\ Depth \in DOMAIN stack /\ 1 \in DOMAIN stack
  BY <1>1
<1>3. PICK b, i : b = Inner.list /\ i = Inner.i
  OBVIOUS
<1>4. Owning(lists, Gone, b, i) /\ lists[b][i].pl = "list" /\ lists[b][i].ptr = n
  <2>1. SoundCell(lists[b][i]) /\ (n # 0 => Owning(lists, Gone, b, i))
    BY <1>1, <1>2, <1>3, WalkOwns
  <2> QED
    BY <1>3, <2>1 DEF SoundCell
<1>5. n \in DOMAIN lists /\ n \in Blocks /\ lists[n] \in Seq(CellsOfKeys) /\ \A k \in Keys : root[k] # n
  <2>1. n \in DOMAIN lists
    BY <1>1, <1>4 DEF Owned, PointToLive
  <2> QED
    BY <1>1, <1>4, <2>1 DEF Owned, CellsAreSound, PointApart
<1>6. PICK f : f = [list |-> n, i |-> 1]
  OBVIOUS
<1>7. f \in WalkFrames /\ f.list = n /\ f.i = 1
  BY <1>5, <1>6 DEF WalkFrames
<1>8. PICK st : st = Append(stack, f)
  OBVIOUS
<1>9. /\ st \in Seq(WalkFrames) /\ Len(st) = Depth + 1 /\ st[Depth + 1] = f
      /\ \A d \in 1..Depth : st[d] = stack[d]
  BY <1>1, <1>7, <1>8, StackPushed
<1>10. /\ DOMAIN st = 1..(Depth + 1) /\ st # <<>> /\ st[1] = stack[1]
       /\ \A d \in DOMAIN st : d = Depth + 1 \/ d \in DOMAIN stack
       /\ \A d \in DOMAIN stack : d \in DOMAIN st /\ st[d] = stack[d] /\ d # Depth + 1
  BY <1>1, <1>2, <1>9
<1>11. \A d \in DOMAIN stack : stack[d].list # n
  <2> SUFFICES ASSUME NEW d \in DOMAIN stack, stack[d].list = n PROVE FALSE
    OBVIOUS
  <2>1. CASE d = 1
    BY <1>1, <1>5, <2>1 DEF WalkLoops
  <2>2. CASE d # 1
    <3>1. PICK e : e = d - 1
      OBVIOUS
    <3>2. e \in DOMAIN stack /\ e # Depth /\ d > 1 /\ e \in Nat
      BY <1>1, <1>2, <2>2, <3>1
    <3>3. PICK p, j : p = stack[e].list /\ j = stack[e].i
      OBVIOUS
    <3>4. p \in DOMAIN lists /\ j <= Len(lists[p]) /\ lists[p][j].pl = "list" /\ lists[p][j].ptr = n
      BY <1>1, <3>1, <3>2, <3>3 DEF WalkLoops, At
    <3>5. j \in DOMAIN lists[p]
      <4>1. j \in Nat \ {0}
        <5>1. stack[e] \in WalkFrames
          BY <1>1, <3>2
        <5> QED
          BY <3>3, <5>1 DEF WalkFrames
      <4>2. lists[p] \in Seq(CellsOfKeys)
        BY <1>1, <3>4 DEF Owned, CellsAreSound
      <4> QED
        BY <3>4, <4>1, <4>2
    <3>6. Owning(lists, Gone, p, j)
      <4>1. SoundCell(lists[p][j]) /\ (lists[p][j].ptr # 0 => Owning(lists, Gone, p, j))
        BY <3>2, <3>3, <3>5, WalkOwns
      <4> QED
        BY <3>4, <4>1 DEF SoundCell
    <3>7. p = b
      BY <1>1, <1>4, <3>4, <3>6 DEF Owned, PointApart
    <3> QED
      BY <1>1, <1>2, <1>3, <3>2, <3>3, <3>7 DEF WalkLoops
  <2> QED
    BY <2>1, <2>2
<1>12. \A d, x \in DOMAIN st : st[d].list = st[x].list => d = x
  BY <1>1, <1>7, <1>9, <1>10, <1>11 DEF WalkLoops
<1>13. ASSUME NEW d \in DOMAIN st
       PROVE  /\ st[d].list \in DOMAIN lists
              /\ st[d].i <= Len(lists[st[d].list]) + 1
              /\ d > 1 =>
                   LET a == <<st[d - 1].list, st[d - 1].i>>
                   IN st[d - 1].i <= Len(lists[st[d - 1].list]) /\ At(a).pl = "list"
                      /\ At(a).ptr = st[d].list
  <2>1. CASE d = Depth + 1
    <3>1. st[d] = f /\ st[d - 1] = Inner
      BY <1>1, <1>2, <1>9, <1>10, <2>1
    <3>2. Len(lists[n]) \in Nat
      BY SMTT(30), <1>5
    <3>3. 1 <= Len(lists[n]) + 1
      BY SMTT(30), <3>2
    <3>4. st[d].list = n /\ st[d].i = 1
      BY <1>7, <3>1
    <3>5. st[d - 1].list = b /\ st[d - 1].i = i
      BY <1>3, <3>1
    <3>6. At(<<b, i>>) = lists[b][i]
      BY DEF At
    <3>7. i <= Len(lists[b])
      <4>1. lists[b] \in Seq(CellsOfKeys) /\ i \in DOMAIN lists[b]
        BY <1>1, <1>3
      <4> QED
        BY <4>1
    <3> QED
      BY <1>4, <1>5, <3>3, <3>4, <3>5, <3>6, <3>7
  <2>2. CASE d # Depth + 1
    <3>1. d \in DOMAIN stack /\ st[d] = stack[d] /\ (d > 1 => st[d - 1] = stack[d - 1])
      <4>1. d \in DOMAIN stack
        BY <1>10, <2>2
      <4>2. d > 1 => d - 1 \in DOMAIN stack
        BY <1>1, <1>2, <4>1
      <4> QED
        BY <1>10, <4>1, <4>2
    <3> QED
      BY <1>1, <3>1 DEF WalkLoops
  <2> QED
    BY <2>1, <2>2
<1>14. stack' = st
  BY <1>6, <1>8
<1>15. WalkLoops'
  <2>1. st[1].list = root[task.key]
    BY <1>1, <1>10 DEF WalkLoops
  <2> QED
    BY <1>9, <1>10, <1>12, <1>13, <1>14, <2>1, ZenonT(40) DEF WalkLoops, At
<1>16. Gone' = Gone
  <2>1. CASE task.op = "destroy"
    <3>1. \A b1, i1 : (\E d \in DOMAIN st : st[d].list = b1 /\ i1 \in 1..(st[d].i - 1))
                      <=> \E d \in DOMAIN stack : stack[d].list = b1 /\ i1 \in 1..(stack[d].i - 1)
      <4>1. \A i1 : i1 \notin 1..(f.i - 1)
        BY <1>7
      <4> QED
        BY <1>9, <1>10, <4>1
    <3>2. Gone' = {a \in Blocks \X Nat :
                \E d \in DOMAIN st : st[d].list = a[1] /\ a[2] \in 1..(st[d].i - 1)}
      BY <1>14, <2>1 DEF Gone
    <3>3. Gone = {a \in Blocks \X Nat :
                \E d \in DOMAIN stack : stack[d].list = a[1] /\ a[2] \in 1..(stack[d].i - 1)}
      BY <2>1 DEF Gone
    <3>4. ASSUME NEW a \in Blocks \X Nat
          PROVE  (\E d \in DOMAIN st : st[d].list = a[1] /\ a[2] \in 1..(st[d].i - 1))
                 <=> \E d \in DOMAIN stack : stack[d].list = a[1] /\ a[2] \in 1..(stack[d].i - 1)
      <4>1. PICK b1, i1 : b1 = a[1] /\ i1 = a[2]
        OBVIOUS
      <4>2. (\E d \in DOMAIN st : st[d].list = b1 /\ i1 \in 1..(st[d].i - 1))
            <=> \E d \in DOMAIN stack : stack[d].list = b1 /\ i1 \in 1..(stack[d].i - 1)
        BY <3>1, Zenon
      <4> QED
        BY <4>1, <4>2, Zenon
    <3> QED
      BY <3>2, <3>3, <3>4, Zenon
  <2>2. CASE task.op # "destroy"
    BY <2>2 DEF Gone
  <2> QED
    BY <2>1, <2>2
<1>17. Owned(lists, data, root, Gone)' /\ LastMarked(lists, root, OpenLists)'
  <2>1. OpenLists' = {}
    BY <1>1 DEF OpenLists
  <2> QED
    BY <1>1, <1>16, <2>1
<1>18. ProductLists'
  BY DEF OwnsInv, ProductLists, ProductListsOf, Remaining
<1> QED
  BY <1>1, <1>15, <1>17, <1>18 DEF OwnsInv

LEMMA WalkCellOwns ==
  ASSUME OwnsInv, WalkCell
  PROVE  OwnsInv'
<1>1. /\ Walking /\ ~PassedLast(Inner.list) /\ UNCHANGED <<keyed, root>>
  BY DEF WalkCell
<1>2. /\ Owned(lists, data, root, Gone) /\ CellsAreSound(lists)
      /\ task.op \in {"view", "destroy"} /\ broken # "memory" /\ broken = "no"
      /\ Inner = stack[Depth] /\ Depth \in DOMAIN stack
      /\ Inner.list \in DOMAIN lists /\ Inner.i \in DOMAIN lists[Inner.list]
  <2>1. Depth = Len(stack) /\ Depth \in Nat \ {0} /\ stack \in Seq(WalkFrames)
    BY <1>1, WalkIs
  <2>2. Depth \in DOMAIN stack
    BY <2>1
  <2> QED
    BY <1>1, <2>2, WalkIs DEF Owned
<1>3. PICK b, i : b = Inner.list /\ i = Inner.i
  OBVIOUS
<1>4. PICK a : a = <<b, i>>
  OBVIOUS
<1>5. Readable(a) /\ At(a) = lists[b][i]
  BY <1>2, <1>3, <1>4 DEF Readable, At
<1>6. lists[b][i] \in CellsOfKeys /\ SoundCell(lists[b][i])
      /\ (lists[b][i].ptr # 0 => Owning(lists, Gone, b, i))
  BY <1>1, <1>2, <1>3, WalkOwns
<1>7. UNCHANGED task
  BY <1>3, <1>4, <1>5 DEF WalkCell
<1>8. CASE lists[b][i].pl = "list"
  <2>1. PICK n : n = lists[b][i].ptr
    OBVIOUS
  <2>2. stack' = Append(stack, [list |-> n, i |-> 1]) /\ UNCHANGED <<lists, data, view, broken>>
    BY <1>3, <1>4, <1>5, <1>8, <2>1 DEF WalkCell
  <2> QED
    BY <1>1, <1>3, <1>7, <1>8, <2>1, <2>2, WalkPushed
<1>9. CASE lists[b][i].pl # "list"
  <2>1. CallBack(a) /\ stack' = NextTurn
    BY <1>3, <1>4, <1>5, <1>9 DEF WalkCell
  <2>2. PICK gone : gone = Gone \cup {<<b, i>>}
    OBVIOUS
  <2>3. CASE task.op = "view"
    <3>1. UNCHANGED <<lists, data, broken>>
      BY <2>1, <2>3 DEF CallBack
    <3> QED
      BY <1>1, <1>2, <1>3, <1>7, <2>1, <2>2, <2>3, <3>1, WalkTurned
  <2>4. CASE task.op = "destroy" /\ lists[b][i].code # 0 /\ lists[b][i].ptr # 0
    <3>1. lists[b][i].pl = "plain"
      BY <1>6, <1>9 DEF CellsOfKeys
    <3>2. PICK n : n = lists[b][i].ptr
      OBVIOUS
    <3>3. data' = Without(data, n) /\ lists' = lists
          /\ broken' = IF n \in DOMAIN data THEN broken ELSE "memory"
      BY <1>5, <2>1, <2>4, <3>1, <3>2 DEF CallBack
    <3>4. n \in DOMAIN data /\ Owned(lists, Without(data, n), root, gone)
      BY <1>2, <1>6, <1>9, <2>2, <2>4, <3>2, DatumFreed
    <3> QED
      BY <1>1, <1>2, <1>3, <1>7, <2>1, <2>2, <2>4, <3>3, <3>4, WalkTurned
  <2>5. CASE task.op = "destroy" /\ ~(lists[b][i].code # 0 /\ lists[b][i].ptr # 0)
    <3>1. UNCHANGED <<lists, data, view, broken>>
      BY <1>5, <1>9, <2>1, <2>5 DEF CallBack
    <3>2. lists[b][i].ptr = 0
      BY <1>6, <1>9, <2>5 DEF CellsOfKeys, SoundCell
    <3>3. Owned(lists, data, root, gone)
      BY <1>2, <1>3, <2>2, <3>2, LeftBehind
    <3> QED
      BY <1>1, <1>2, <1>3, <1>7, <2>1, <2>2, <2>5, <3>1, <3>3, WalkTurned
  <2> QED
    BY <1>2, <2>3, <2>4, <2>5
<1> QED
  BY <1>8, <1>9

(* The cells of the keys that are not destroyed are not visited.           *)
LEMMA OthersRemain ==
  ASSUME OwnsInv, Runs("destroy"), NEW k \in Keys, k # task.key, root[k] # 0
  PROVE  /\ \A d \in DOMAIN stack : stack[d].list # root[k]
         /\ root[k] \in DOMAIN lists /\ 1 \in DOMAIN lists[root[k]]
         /\ lists[root[k]][1].pl = "list" => Owning(lists, Gone, root[k], 1)
<1>1. /\ WalkLoops /\ Owned(lists, data, root, Gone) /\ stack \in Seq(WalkFrames)
      /\ Depth = Len(stack) /\ task.key \in Keys /\ root[task.key] # 0 /\ Walking
  BY WalkIs DEF Walking
<1>2. \A d \in DOMAIN stack : stack[d].list # root[k]
  <2> SUFFICES ASSUME NEW d \in DOMAIN stack, stack[d].list = root[k] PROVE FALSE
    OBVIOUS
  <2>1. CASE d = 1
    BY <1>1, <2>1 DEF WalkLoops, Owned, RootsAreCells
  <2>2. CASE d # 1
    <3>1. PICK e : e = d - 1
      OBVIOUS
    <3>2. e \in DOMAIN stack /\ d > 1 /\ e \in Nat
      BY <1>1, <2>2, <3>1
    <3>3. PICK p, j : p = stack[e].list /\ j = stack[e].i
      OBVIOUS
    <3>4. p \in DOMAIN lists /\ j <= Len(lists[p]) /\ lists[p][j].pl = "list" /\ lists[p][j].ptr = root[k]
      BY <1>1, <3>1, <3>2, <3>3 DEF WalkLoops, At
    <3>5. j \in DOMAIN lists[p]
      <4>1. j \in Nat \ {0}
        <5>1. stack[e] \in WalkFrames
          BY <1>1, <3>2
        <5> QED
          BY <3>3, <5>1 DEF WalkFrames
      <4>2. lists[p] \in Seq(CellsOfKeys)
        BY <1>1, <3>4 DEF Owned, CellsAreSound
      <4> QED
        BY <3>4, <4>1, <4>2
    <3>6. Owning(lists, Gone, p, j)
      BY <1>1, <3>2, <3>3, <3>4, <3>5, WalkOwns
    <3> QED
      BY <1>1, <3>4, <3>6 DEF Owned, PointApart
  <2> QED
    BY <2>1, <2>2
<1>3. root[k] \in DOMAIN lists /\ 1 \in DOMAIN lists[root[k]]
  <2>1. root[k] \in DOMAIN lists /\ Len(lists[root[k]]) = 1
    BY <1>1 DEF Owned, RootsAreCells
  <2>2. lists[root[k]] \in Seq(CellsOfKeys)
    BY <1>1, <2>1 DEF Owned, CellsAreSound
  <2> QED
    BY <2>1, <2>2
<1>4. <<root[k], 1>> \notin Gone
  <2>1. task.op = "destroy"
    BY DEF Runs
  <2> QED
    BY <1>1, <1>2, <2>1, GoneIs DEF Owned, CellsAreSound
<1>5. SoundCell(lists[root[k]][1])
  BY <1>1, <1>3 DEF Owned, CellsAreSound
<1> QED
  BY <1>2, <1>3, <1>4, <1>5 DEF Owning, SoundCell

(* A list that is freed is not that of another key's product.              *)
LEMMA ProductListsRemain ==
  ASSUME OwnsInv, Runs("destroy"), NEW n, NEW ls2,
         \A d : d \in DOMAIN ls2 <=> d \in DOMAIN lists /\ d # n,
         \A d \in DOMAIN ls2 : ls2[d] = lists[d],
         \A k \in Keys : k # task.key /\ root[k] # 0 => root[k] # n,
         \A b, i : Owning(lists, Gone, b, i) /\ (\A d \in DOMAIN stack : stack[d].list # b)
                   => lists[b][i].ptr # n
  PROVE  ProductListsOf(ls2, Remaining)
<1>1. task.op = "destroy" /\ task.key \in Keys
  BY DEF Runs, OwnsInv
<1>2. Owned(lists, data, root, Gone) /\ root \in [Keys -> Blocks \cup {0}]
  BY DEF OwnsInv, Owned, RootsAreCells
<1>3. /\ Remaining[task.key] = 0
      /\ \A k \in Keys : k # task.key => Remaining[k] = root[k]
  BY <1>1, <1>2 DEF Remaining
<1> SUFFICES ASSUME keyed.direct, NEW k \in Keys, Remaining[k] # 0, ls2[Remaining[k]][1].pl = "list"
             PROVE  Len(ls2[ls2[Remaining[k]][1].ptr]) = Len(keyed.chains[1][1].sub)
  BY DEF ProductListsOf
<1>4. k # task.key /\ Remaining[k] = root[k] /\ root[k] # 0
  BY <1>3
<1>5. PICK own : own = root[k]
  OBVIOUS
<1>6. /\ \A d \in DOMAIN stack : stack[d].list # own
      /\ own \in DOMAIN lists /\ 1 \in DOMAIN lists[own]
      /\ lists[own][1].pl = "list" => Owning(lists, Gone, own, 1)
  BY <1>4, <1>5, OthersRemain
<1>7. ls2[own] = lists[own] /\ lists[own][1].pl = "list" /\ Owning(lists, Gone, own, 1)
  BY <1>4, <1>5, <1>6
<1>8. PICK m : m = lists[own][1].ptr
  OBVIOUS
<1>9. m \in DOMAIN lists /\ m # n
  BY <1>2, <1>6, <1>7, <1>8 DEF Owned, PointToLive
<1>10. Len(lists[m]) = Len(keyed.chains[1][1].sub)
  BY <1>4, <1>5, <1>7, <1>8 DEF OwnsInv, ProductLists, ProductListsOf
<1> QED
  BY <1>4, <1>5, <1>7, <1>8, <1>9, <1>10

LEMMA MarksRemain ==
  ASSUME NEW ls, NEW rs, NEW none, LastMarked(ls, rs, none), NEW n, NEW ls2, NEW rs2,
         \A d : d \in DOMAIN ls2 <=> d \in DOMAIN ls /\ d # n,
         \A d \in DOMAIN ls2 : ls2[d] = ls[d],
         \A k \in Keys : rs[k] # n => rs2[k] = rs[k]
  PROVE  LastMarked(ls2, rs2, none)
<1>1. \A d \in DOMAIN ls2 : (\A k \in Keys : rs2[k] # d) => d \in DOMAIN ls \ {rs[k] : k \in Keys}
  OBVIOUS
<1> QED
  BY <1>1 DEF LastMarked

LEMMA DestroyEndOwns ==
  ASSUME OwnsInv, DestroyEnd
  PROVE  OwnsInv'
<1>1. /\ Runs("destroy") /\ Walking /\ Depth = 1 /\ PassedLast(Inner.list) /\ task.op = "destroy"
      /\ task' = NoTask /\ lists' = Without(lists, Inner.list) /\ root' = [root EXCEPT ![task.key] = 0]
      /\ UNCHANGED <<keyed, data, broken>>
  BY DEF DestroyEnd, Walking, Runs
<1>2. /\ WalkLoops /\ Owned(lists, data, root, Gone) /\ LastMarked(lists, root, {})
      /\ keyed \in KeyedQueries /\ task.key \in Keys /\ root[task.key] # 0 /\ broken # "memory"
      /\ Inner = stack[1] /\ DOMAIN stack = {1} /\ lists[Inner.list] \in Seq(CellsOfKeys)
      /\ Inner.i = Len(lists[Inner.list]) + 1
  <2>1. /\ Depth = Len(stack) /\ stack \in Seq(WalkFrames) /\ Inner = stack[Depth]
    BY <1>1, WalkIs
  <2>2. Inner = stack[1] /\ DOMAIN stack = {1}
    <3>1. DOMAIN stack = 1..1
      BY <1>1, <2>1
    <3>2. 1..1 = {1}
      OBVIOUS
    <3> QED
      BY <1>1, <2>1, <3>1, <3>2
  <2>3. /\ WalkLoops /\ Owned(lists, data, root, Gone) /\ LastMarked(lists, root, {})
        /\ lists[Inner.list] \in Seq(CellsOfKeys)
    BY <1>1, WalkIs
  <2>4. keyed \in KeyedQueries /\ task.key \in Keys /\ root[task.key] # 0 /\ broken # "memory"
    BY <1>1 DEF OwnsInv
  <2>5. Inner.i = Len(lists[Inner.list]) + 1
    BY <1>1, WalkIs
  <2> QED
    BY <2>2, <2>3, <2>4, <2>5
<1>3. PICK k : k = task.key
  OBVIOUS
<1>4. PICK n : n = root[k]
  OBVIOUS
<1>5. Inner.list = n /\ n # 0 /\ k \in Keys
  BY <1>2, <1>3, <1>4 DEF WalkLoops
<1>6. PICK gone : gone = Gone
  OBVIOUS
<1>7. \A d, j : <<d, j>> \in gone <=> d = n /\ j \in 1..Len(lists[n])
  <2>1. Len(lists[n]) \in Nat
    BY <1>2, <1>5
  <2>2. Inner.i - 1 = Len(lists[n])
    BY <1>2, <1>5, <2>1
  <2>3. DOMAIN lists \subseteq Blocks
    BY <1>2 DEF Owned, CellsAreSound
  <2> QED
    BY <1>1, <1>2, <1>5, <1>6, <2>2, <2>3, GoneIs, ZenonT(40)
<1>8. DOMAIN lists[n] = 1..Len(lists[n])
  BY <1>2, <1>5
<1>9. PICK rs2 : rs2 = [root EXCEPT ![k] = 0]
  OBVIOUS
<1>10. root \in [Keys -> Blocks \cup {0}] /\ rs2[k] = 0 /\ \A j \in Keys : j # k => rs2[j] = root[j]
  BY <1>2, <1>5, <1>9 DEF Owned, RootsAreCells
<1>11. PICK ls2 : ls2 = Without(lists, n)
  OBVIOUS
<1>12. /\ \A d : d \in DOMAIN ls2 <=> d \in DOMAIN lists /\ d # n
       /\ \A d \in DOMAIN ls2 : ls2[d] = lists[d]
  BY <1>11 DEF Without
<1>13. Owned(ls2, data, rs2, {})
  <2>1. /\ \A j \in DOMAIN lists[root[k]] : <<root[k], j>> \in gone
        /\ \A d, j : <<d, j>> \in gone => d = root[k]
    BY <1>4, <1>7, <1>8
  <2>2. Owned(lists, data, root, gone)
    BY <1>2, <1>6
  <2>3. Owned(Without(lists, root[k]), data, [root EXCEPT ![k] = 0], {})
    BY <1>4, <1>5, <2>1, <2>2, RootFreed
  <2> QED
    BY <1>4, <1>9, <1>11, <2>3
<1>14. LastMarked(ls2, rs2, {})
  <2>1. \A j \in Keys : root[j] # n => rs2[j] = root[j]
    BY <1>4, <1>10
  <2>2. PICK rs : rs = root
    OBVIOUS
  <2>5. PICK none : none = {}
    OBVIOUS
  <2>3. LastMarked(lists, rs, none) /\ \A j \in Keys : rs[j] # n => rs2[j] = rs[j]
    BY <1>2, <2>1, <2>2, <2>5
  <2>4. /\ \A d : d \in DOMAIN ls2 <=> d \in DOMAIN lists /\ d # n
        /\ \A d \in DOMAIN ls2 : ls2[d] = lists[d]
    BY <1>12
  <2>6. LastMarked(ls2, rs2, none)
    BY <2>3, <2>4, MarksRemain
  <2> QED
    BY <2>5, <2>6
<1>15. ProductListsOf(ls2, Remaining)
  <2>1. \A j \in Keys : j # task.key /\ root[j] # 0 => root[j] # n
    BY <1>2, <1>3, <1>4 DEF Owned, RootsAreCells
  <2>2. \A b, i : Owning(lists, Gone, b, i) /\ (\A d \in DOMAIN stack : stack[d].list # b)
                  => lists[b][i].ptr # n
    BY <1>2, <1>4, <1>5 DEF Owned, PointApart
  <2> QED
    BY <1>1, <1>12, <2>1, <2>2, ProductListsRemain
<1>16. lists' = ls2 /\ root' = rs2 /\ task'.op = "none" /\ Remaining = rs2
  BY <1>1, <1>3, <1>5, <1>9, <1>11 DEF NoTask, Remaining
<1>17. Gone' = {} /\ OpenLists' = {} /\ Remaining' = rs2
  BY <1>16 DEF Gone, OpenLists, Remaining
<1>18. Owned(lists, data, root, Gone)' /\ LastMarked(lists, root, OpenLists)'
  BY <1>1, <1>13, <1>14, <1>16, <1>17
<1>19. ProductLists'
  BY <1>1, <1>15, <1>16, <1>17 DEF ProductLists, ProductListsOf
<1> QED
  BY <1>1, <1>2, <1>16, <1>18, <1>19 DEF OwnsInv

(* The cell whose list a loop of a walk is over.                           *)
LEMMA WalkParent ==
  ASSUME OwnsInv, Walking, NEW d \in DOMAIN stack, d > 1, NEW e, e = d - 1,
         NEW b, b = stack[e].list, NEW i, i = stack[e].i, NEW n, n = stack[d].list
  PROVE  /\ e \in DOMAIN stack /\ b \in DOMAIN lists /\ i \in DOMAIN lists[b] /\ i \in Nat \ {0}
         /\ Owning(lists, Gone, b, i) /\ lists[b][i].pl = "list" /\ lists[b][i].ptr = n
         /\ n \in DOMAIN lists /\ \A k \in Keys : root[k] # n
<1>1. WalkLoops /\ Owned(lists, data, root, Gone) /\ stack \in Seq(WalkFrames)
  BY WalkIs
<1>2. e \in DOMAIN stack /\ e \in Nat
  BY <1>1
<1>3. b \in DOMAIN lists /\ i <= Len(lists[b]) /\ lists[b][i].pl = "list" /\ lists[b][i].ptr = n
  BY <1>1, <1>2 DEF WalkLoops, At
<1>4. i \in Nat \ {0}
  <2>1. stack[e] \in WalkFrames
    BY <1>1, <1>2
  <2> QED
    BY <2>1 DEF WalkFrames
<1>5. i \in DOMAIN lists[b]
  <2>1. lists[b] \in Seq(CellsOfKeys)
    BY <1>1, <1>3 DEF Owned, CellsAreSound
  <2> QED
    BY <1>3, <1>4, <2>1
<1>6. Owning(lists, Gone, b, i)
  <2>1. SoundCell(lists[b][i]) /\ (lists[b][i].ptr # 0 => Owning(lists, Gone, b, i))
    BY <1>2, <1>5, WalkOwns
  <2> QED
    BY <1>3, <2>1 DEF SoundCell
<1>7. n \in DOMAIN lists /\ \A k \in Keys : root[k] # n
  BY <1>1, <1>3, <1>6 DEF Owned, PointToLive, PointApart
<1> QED
  BY <1>2, <1>3, <1>4, <1>5, <1>6, <1>7

(* The walk leaves a list: the loop outside goes on, and what is visited   *)
(* outside that list is what was, and the cell the list is of.             *)
OuterTurned == [Outer EXCEPT ![Depth - 1].i = @ + 1]

LEMMA WalkLeft ==
  ASSUME OwnsInv, Walking, Depth > 1, PassedLast(Inner.list),
         NEW st, st = OuterTurned,
         NEW m, m = Depth - 1, NEW b, b = stack[m].list, NEW i, i = stack[m].i, NEW n, n = Inner.list
  PROVE  /\ st \in Seq(WalkFrames) /\ Len(st) = m /\ m \in Nat \ {0}
         /\ \A d \in 1..m : d \in DOMAIN stack /\ st[d].list = stack[d].list /\ st[d].list # n
         /\ \A d \in 1..m : d # m => st[d] = stack[d]
         /\ st[m].i = i + 1 /\ st[m].list = b
<1>1. /\ WalkLoops /\ Depth = Len(stack) /\ Depth \in Nat \ {0} /\ Inner = stack[Depth]
      /\ stack \in Seq(WalkFrames) /\ stack # <<>>
  <2>1. WalkLoops
    BY WalkIs
  <2> QED
    BY <2>1, WalkIs DEF WalkLoops
<1>2. m \in Nat \ {0} /\ Depth = m + 1 /\ DOMAIN stack = 1..(m + 1)
  BY <1>1
<1>3. PICK out : out = Outer
  OBVIOUS
<1>4. out \in Seq(WalkFrames) /\ Len(out) = m /\ \A d \in 1..m : out[d] = stack[d]
  BY <1>1, <1>3, StackPopped
<1>5. out[m] = stack[m] /\ stack[m] \in WalkFrames /\ m \in 1..m /\ i \in Nat \ {0} /\ b \in Blocks
  <2>1. m \in 1..m /\ m \in DOMAIN stack
    BY <1>2
  <2>2. stack[m] \in WalkFrames
    BY <1>1, <2>1
  <2> QED
    BY <1>4, <2>1, <2>2 DEF WalkFrames
<1>6. PICK f : f = [out[m] EXCEPT !.i = @ + 1]
  OBVIOUS
<1>7. f \in WalkFrames /\ f.list = b /\ f.i = i + 1
  BY <1>5, <1>6 DEF WalkFrames
<1>8. st = [out EXCEPT ![m] = f]
  BY <1>3, <1>6 DEF OuterTurned
<1>9. st \in Seq(WalkFrames) /\ Len(st) = m /\ st[m] = f /\ \A d \in 1..m : d # m => st[d] = out[d]
  <2>1. /\ [out EXCEPT ![m] = f] \in Seq(WalkFrames) /\ Len([out EXCEPT ![m] = f]) = m
        /\ [out EXCEPT ![m] = f][m] = f
        /\ \A d \in 1..m : d # m => [out EXCEPT ![m] = f][d] = out[d]
    <3>1. out \in Seq(WalkFrames) /\ Len(out) = m /\ m \in Nat \ {0} /\ m \in 1..m /\ f \in WalkFrames
      BY <1>2, <1>4, <1>5, <1>7
    <3> HIDE <1>8
    <3> QED
      BY <3>1
  <2> QED
    BY <1>8, <2>1
<1>10. \A d \in 1..m : d # m => st[d] = stack[d]
  BY <1>4, <1>9
<1>11. ASSUME NEW d \in 1..m
       PROVE  d \in DOMAIN stack /\ st[d].list = stack[d].list /\ st[d].list # n
  <2>1. d \in DOMAIN stack /\ Depth \in DOMAIN stack /\ d # Depth
    BY <1>2
  <2>2. st[d].list = stack[d].list
    BY <1>5, <1>7, <1>9, <1>10
  <2>3. stack[d].list # stack[Depth].list
    BY <1>1, <2>1 DEF WalkLoops
  <2> QED
    BY <1>1, <2>1, <2>2, <2>3
<1> QED
  BY <1>2, <1>7, <1>9, <1>10, <1>11

VisitedBy(st) ==
  {a \in Blocks \X Nat : \E d \in DOMAIN st : st[d].list = a[1] /\ a[2] \in 1..(st[d].i - 1)}

LEMMA GoneLeft ==
  ASSUME OwnsInv, Walking, Depth > 1, PassedLast(Inner.list), task.op = "destroy",
         NEW st, st = OuterTurned,
         NEW m, m = Depth - 1, NEW b, b = stack[m].list, NEW i, i = stack[m].i, NEW n, n = Inner.list,
         NEW gone2, gone2 = VisitedBy(st)
  PROVE  /\ \A j \in DOMAIN lists[n] : <<n, j>> \in Gone
         /\ \A x, y : x # n => (<<x, y>> \in gone2 <=> <<x, y>> \in Gone \/ (x = b /\ y = i))
<1>1. /\ WalkLoops /\ Owned(lists, data, root, Gone) /\ DOMAIN lists \subseteq Blocks
      /\ Depth = Len(stack) /\ Depth \in Nat \ {0} /\ Inner = stack[Depth] /\ stack \in Seq(WalkFrames)
      /\ lists[n] \in Seq(CellsOfKeys) /\ Inner.i = Len(lists[n]) + 1
  <2>1. Owned(lists, data, root, Gone) /\ WalkLoops
    BY WalkIs
  <2> QED
    BY <2>1, WalkIs DEF Owned, CellsAreSound
<1>2. /\ st \in Seq(WalkFrames) /\ Len(st) = m /\ m \in Nat \ {0}
      /\ \A d \in 1..m : d \in DOMAIN stack /\ st[d].list = stack[d].list /\ st[d].list # n
      /\ \A d \in 1..m : d # m => st[d] = stack[d]
      /\ st[m].i = i + 1 /\ st[m].list = b
  BY WalkLeft
<1>3. Depth = m + 1 /\ DOMAIN stack = 1..(m + 1) /\ DOMAIN st = 1..m /\ m \in 1..m /\ m \in DOMAIN stack
      /\ Depth \in DOMAIN stack
  BY <1>1, <1>2
<1>4. i \in Nat \ {0}
  <2>1. stack[m] \in WalkFrames
    BY <1>1, <1>3
  <2> QED
    BY <2>1 DEF WalkFrames
<1>5. \A x, y : <<x, y>> \in Gone <=> \E d \in DOMAIN stack : stack[d].list = x /\ y \in 1..(stack[d].i - 1)
  BY <1>1, GoneIs, ZenonT(40)
<1>6. ASSUME NEW j \in DOMAIN lists[n]
      PROVE  <<n, j>> \in Gone
  <2>1. j \in 1..(Inner.i - 1)
    BY <1>1
  <2> QED
    BY <1>1, <1>3, <1>5, <2>1
<1>7. \A x, y : <<x, y>> \in gone2 <=> \E d \in 1..m : st[d].list = x /\ y \in 1..(st[d].i - 1)
  <2>1. \A d \in DOMAIN st : st[d].list \in Blocks
    <3> TAKE d \in DOMAIN st
    <3>1. st[d] \in WalkFrames
      BY <1>2
    <3> QED
      BY <3>1 DEF WalkFrames
  <2>2. \A d \in DOMAIN st : 1..(st[d].i - 1) \subseteq Nat
    OBVIOUS
  <2> QED
    BY <1>3, <2>1, <2>2 DEF VisitedBy
<1>8. \A y : y \in 1..((i + 1) - 1) <=> y \in 1..(i - 1) \/ y = i
  BY <1>4
<1>9. ASSUME NEW x, NEW y, x # n
      PROVE  <<x, y>> \in gone2 <=> <<x, y>> \in Gone \/ (x = b /\ y = i)
  <2>1. ASSUME NEW d \in 1..m
        PROVE  (st[d].list = x /\ y \in 1..(st[d].i - 1)) <=>
                 \/ stack[d].list = x /\ y \in 1..(stack[d].i - 1)
                 \/ d = m /\ x = b /\ y = i
    <3>1. CASE d = m
      BY <1>2, <1>8, <3>1
    <3>2. CASE d # m
      BY <1>2, <3>2
    <3> QED
      BY <3>1, <3>2
  <2>2. stack[Depth].list # x
    BY <1>1, <1>9
  <2>3. \A d \in DOMAIN stack : d \in 1..m \/ d = Depth
    BY <1>3
  <2>4. <<x, y>> \in Gone <=> \E d \in 1..m : stack[d].list = x /\ y \in 1..(stack[d].i - 1)
    BY <1>2, <1>5, <2>2, <2>3
  <2>6. <<x, y>> \in gone2 <=> \E d \in 1..m : st[d].list = x /\ y \in 1..(st[d].i - 1)
    BY <1>7
  <2>7. (\E d \in 1..m : st[d].list = x /\ y \in 1..(st[d].i - 1)) <=>
          \/ \E d \in 1..m : stack[d].list = x /\ y \in 1..(stack[d].i - 1)
          \/ x = b /\ y = i
    BY <1>3, <2>1, Zenon
  <2> QED
    BY <2>4, <2>6, <2>7, Zenon
<1> QED
  BY <1>6, <1>9

LEMMA WalkUpOwns ==
  ASSUME OwnsInv, WalkUp
  PROVE  OwnsInv'
<1>1. /\ Walking /\ Depth > 1 /\ PassedLast(Inner.list) /\ stack' = OuterTurned
      /\ CallBack(<<stack[Depth - 1].list, stack[Depth - 1].i>>) /\ UNCHANGED <<keyed, root, task>>
  BY DEF WalkUp, OuterTurned
<1>2. PICK st, m : st = OuterTurned /\ m = Depth - 1
  OBVIOUS
<1>3. PICK b, i, n : b = stack[m].list /\ i = stack[m].i /\ n = Inner.list
  OBVIOUS
<1>4. /\ WalkLoops /\ Owned(lists, data, root, Gone) /\ LastMarked(lists, root, {})
      /\ task.op \in {"view", "destroy"} /\ broken = "no" /\ keyed \in KeyedQueries
      /\ task.key \in Keys /\ root[task.key] # 0
      /\ Depth = Len(stack) /\ Depth \in Nat \ {0} /\ Inner = stack[Depth] /\ stack \in Seq(WalkFrames)
  BY <1>1, WalkIs
<1>5. Depth \in DOMAIN stack
  BY <1>4
<1>6. /\ b \in DOMAIN lists /\ i \in DOMAIN lists[b] /\ i \in Nat \ {0}
      /\ Owning(lists, Gone, b, i) /\ lists[b][i].pl = "list" /\ lists[b][i].ptr = n
      /\ n \in DOMAIN lists /\ \A k \in Keys : root[k] # n
  BY <1>1, <1>2, <1>3, <1>4, <1>5, WalkParent
<1>7. /\ st \in Seq(WalkFrames) /\ Len(st) = m /\ m \in Nat \ {0}
      /\ \A d \in 1..m : d \in DOMAIN stack /\ st[d].list = stack[d].list /\ st[d].list # n
      /\ \A d \in 1..m : d # m => st[d] = stack[d]
      /\ st[m].i = i + 1 /\ st[m].list = b
  BY <1>1, <1>2, <1>3, WalkLeft
<1>8. DOMAIN st = 1..m /\ m \in 1..m /\ 1 \in 1..m /\ st # <<>>
  BY <1>7
<1>9. UNCHANGED <<data, broken>> /\ lists' = IF task.op = "destroy" THEN Without(lists, n) ELSE lists
  <2>1. At(<<b, i>>) = lists[b][i]
    BY DEF At
  <2>2. CallBack(<<b, i>>)
    BY <1>1, <1>2, <1>3
  <2> QED
    BY <1>4, <1>6, <2>1, <2>2 DEF CallBack
<1>10. PICK ls2 : ls2 = lists'
  OBVIOUS
<1>11. \A d \in DOMAIN lists : d # n => d \in DOMAIN ls2 /\ ls2[d] = lists[d]
  <2>1. CASE task.op = "destroy"
    BY <1>9, <1>10, <2>1 DEF Without
  <2>2. CASE task.op # "destroy"
    BY <1>9, <1>10, <2>2
  <2> QED
    BY <2>1, <2>2
<1>12. st = stack'
  BY <1>1, <1>2
<1>13. WalkLoops'
  <2>1. ASSUME NEW d \in 1..m
        PROVE  /\ st[d].list \in DOMAIN ls2
               /\ st[d].i <= Len(ls2[st[d].list]) + 1
               /\ d > 1 =>
                    /\ st[d - 1].i <= Len(ls2[st[d - 1].list])
                    /\ ls2[st[d - 1].list][st[d - 1].i].pl = "list"
                    /\ ls2[st[d - 1].list][st[d - 1].i].ptr = st[d].list
    <3>1. d \in DOMAIN stack /\ st[d].list = stack[d].list /\ st[d].list # n
      BY <1>7
    <3>2. st[d].list \in DOMAIN lists
      BY <1>4, <3>1 DEF WalkLoops
    <3>3. st[d].list \in DOMAIN ls2 /\ ls2[st[d].list] = lists[st[d].list]
      BY <1>11, <3>1, <3>2
    <3>4. st[d].i <= Len(lists[st[d].list]) + 1
      <4>1. CASE d = m
        <5>1. lists[b] \in Seq(CellsOfKeys)
          BY <1>4, <1>6 DEF Owned, CellsAreSound
        <5>2. i + 1 <= Len(lists[b]) + 1
          BY <1>6, <5>1
        <5> QED
          BY <1>7, <4>1, <5>2
      <4>2. CASE d # m
        BY <1>4, <1>7, <3>1, <4>2 DEF WalkLoops
      <4> QED
        BY <4>1, <4>2
    <3>5. ASSUME d > 1
          PROVE  /\ st[d - 1].i <= Len(ls2[st[d - 1].list])
                 /\ ls2[st[d - 1].list][st[d - 1].i].pl = "list"
                 /\ ls2[st[d - 1].list][st[d - 1].i].ptr = st[d].list
      <4>1. PICK e : e = d - 1
        OBVIOUS
      <4>2. e \in 1..m /\ e # m
        BY <1>7, <3>5, <4>1
      <4>3. e \in DOMAIN stack /\ st[e] = stack[e] /\ st[e].list # n
        BY <1>7, <4>2
      <4>4. /\ st[e].list \in DOMAIN lists /\ st[e].i <= Len(lists[st[e].list])
            /\ lists[st[e].list][st[e].i].pl = "list"
            /\ lists[st[e].list][st[e].i].ptr = st[d].list
        BY <1>4, <3>1, <3>5, <4>1, <4>3 DEF WalkLoops, At
      <4>5. ls2[st[e].list] = lists[st[e].list]
        BY <1>11, <4>3, <4>4
      <4> QED
        BY <4>1, <4>4, <4>5
    <3> QED
      BY <3>3, <3>4, <3>5
  <2>2. st[1].list = root[task.key]
    BY <1>4, <1>7, <1>8 DEF WalkLoops
  <2>3. \A d, x \in 1..m : st[d].list = st[x].list => d = x
    BY SMTT(30), <1>4, <1>7 DEF WalkLoops
  <2>4. st[1].list = root'[task'.key]
    BY <1>1, <2>2
  <2> QED
    BY <1>7, <1>8, <1>10, <1>12, <2>1, <2>3, <2>4 DEF WalkLoops, At
<1>14. OpenLists' = {}
  BY <1>1, <1>4 DEF OpenLists
<1>15. CASE task.op # "destroy"
  <2>1. Gone = {} /\ Gone' = {} /\ lists' = lists
    BY <1>1, <1>9, <1>15 DEF Gone
  <2>2. Owned(lists, data, root, Gone)' /\ LastMarked(lists, root, OpenLists)'
    BY <1>1, <1>4, <1>9, <1>14, <2>1
  <2>3. ProductLists'
    BY <1>1, <2>1 DEF OwnsInv, ProductLists, ProductListsOf, Remaining
  <2> QED
    BY <1>1, <1>4, <1>9, <1>13, <2>2, <2>3 DEF OwnsInv
<1>16. CASE task.op = "destroy"
  <2>1. lists' = Without(lists, n)
    BY <1>9, <1>16
  <2>2. Gone' = VisitedBy(st)
    BY <1>1, <1>12, <1>16 DEF Gone, VisitedBy
  <2>3. PICK gone, gone2 : gone = Gone /\ gone2 = VisitedBy(st)
    OBVIOUS
  <2>4. /\ \A j \in DOMAIN lists[n] : <<n, j>> \in Gone
        /\ \A x, y : x # n => (<<x, y>> \in gone2 <=> <<x, y>> \in Gone \/ (x = b /\ y = i))
    BY <1>1, <1>2, <1>3, <1>16, <2>3, GoneLeft
  <2>5. Owned(Without(lists, n), data, root, gone2)
    <3>1. \A j \in DOMAIN lists[lists[b][i].ptr] : <<lists[b][i].ptr, j>> \in gone
      BY <1>6, <2>3, <2>4
    <3>2. \A d, j : d # lists[b][i].ptr => (<<d, j>> \in gone2 <=> <<d, j>> \in gone \cup {<<b, i>>})
      <4> TAKE d, j
      <4>1. <<d, j>> \in gone \cup {<<b, i>>} <=> <<d, j>> \in gone \/ (d = b /\ j = i)
        OBVIOUS
      <4> QED
        BY <1>6, <2>3, <2>4, <4>1
    <3>3. Owned(lists, data, root, gone) /\ Owning(lists, gone, b, i)
      BY <1>4, <1>6, <2>3
    <3> QED
      BY <1>6, <3>1, <3>2, <3>3, ListFreed
  <2>6. /\ \A d : d \in DOMAIN ls2 <=> d \in DOMAIN lists /\ d # n
        /\ \A d \in DOMAIN ls2 : ls2[d] = lists[d]
    BY <1>10, <2>1 DEF Without
  <2>7. LastMarked(ls2, root, {})
    <3>1. PICK none, rs : none = {} /\ rs = root
      OBVIOUS
    <3>2. LastMarked(lists, rs, none) /\ \A k \in Keys : rs[k] # n => rs[k] = rs[k]
      BY <1>4, <3>1
    <3>3. LastMarked(ls2, rs, none)
      BY ZenonT(40), <2>6, <3>2, MarksRemain
    <3> QED
      BY <3>1, <3>3
  <2>8. ProductListsOf(ls2, Remaining)
    <3>1. \A x, y : Owning(lists, Gone, x, y) /\ (\A d \in DOMAIN stack : stack[d].list # x)
                    => lists[x][y].ptr # n
      <4>1. m \in DOMAIN stack
        BY <1>7, <1>8
      <4> QED
        BY <1>3, <1>4, <1>6, <4>1 DEF Owned, PointApart
    <3>2. Runs("destroy")
      BY <1>4, <1>16 DEF Runs
    <3>3. \A k \in Keys : k # task.key /\ root[k] # 0 => root[k] # n
      BY <1>6
    <3> QED
      BY <2>6, <3>1, <3>2, <3>3, ProductListsRemain
  <2>9. Remaining' = Remaining
    BY <1>1 DEF Remaining
  <2>10. ProductLists'
    BY <1>1, <1>10, <2>8, <2>9 DEF ProductLists, ProductListsOf
  <2>11. Owned(lists, data, root, Gone)' /\ LastMarked(lists, root, OpenLists)'
    BY <1>1, <1>9, <1>10, <1>14, <2>1, <2>2, <2>3, <2>5, <2>7
  <2> QED
    BY <1>1, <1>4, <1>9, <1>13, <2>10, <2>11 DEF OwnsInv
<1> QED
  BY <1>15, <1>16

LEMMA ViewEndOwns ==
  ASSUME OwnsInv, ViewEnd
  PROVE  OwnsInv'
<1>1. /\ task.op = "view" /\ task' = NoTask /\ broken # "memory"
      /\ UNCHANGED <<keyed, lists, data, root, broken>>
  BY DEF ViewEnd, Runs, OwnsInv
<1>2. task'.op = "none"
  BY <1>1 DEF NoTask
<1> QED
  BY <1>1, <1>2, CellsStay

LEMMA FlatViewOwns ==
  ASSUME OwnsInv, NEW k \in Keys, FlatView(k)
  PROVE  OwnsInv'
<1>1. /\ Quiet /\ root[k] # 0 /\ stack' = <<[list |-> root[k], i |-> 1]>>
      /\ task' = [op |-> "view", key |-> k, from |-> k, round |-> 0]
      /\ UNCHANGED <<keyed, lists, data, root, broken>>
  BY DEF FlatView
<1>2. task'.op = "view" /\ task'.key = k
  BY <1>1
<1> QED
  BY <1>1, <1>2, WalkStarts

LEMMA DestroyKeyOwns ==
  ASSUME OwnsInv, NEW k \in Keys, DestroyKey(k)
  PROVE  OwnsInv'
<1>1. /\ Quiet /\ root[k] # 0 /\ stack' = <<[list |-> root[k], i |-> 1]>>
      /\ task' = [op |-> "destroy", key |-> k, from |-> k, round |-> 0]
      /\ UNCHANGED <<keyed, lists, data, root, broken>>
  BY DEF DestroyKey
<1>2. task'.op = "destroy" /\ task'.key = k
  BY <1>1
<1> QED
  BY <1>1, <1>2, WalkStarts

LEMMA EvaluateQueryOwns ==
  ASSUME OwnsInv, NEW k, NEW v, EvaluateQuery(k, v)
  PROVE  OwnsInv'
<1>1. /\ task.op = "none" /\ broken # "memory"
      /\ task' = [op |-> "evaluate", key |-> k, from |-> k, round |-> v]
      /\ UNCHANGED <<keyed, lists, data, root, broken>>
  BY QuietIs DEF EvaluateQuery
<1>2. task'.op = "evaluate"
  BY <1>1
<1> QED
  BY <1>1, <1>2, CellsStay

LEMMA CopyKeyOwns ==
  ASSUME OwnsInv, NEW k, NEW from, CopyKey(k, from)
  PROVE  OwnsInv'
<1>1. /\ task.op = "none" /\ broken # "memory"
      /\ task' = [op |-> "copy", key |-> k, from |-> from, round |-> round[from]]
      /\ UNCHANGED <<keyed, lists, data, root, broken>>
  BY QuietIs DEF CopyKey
<1>2. task'.op = "copy"
  BY <1>1
<1> QED
  BY <1>1, <1>2, CellsStay

LEMMA EvaluateLinkOwns ==
  ASSUME OwnsInv, EvaluateLink
  PROVE  OwnsInv'
<1>1. task.op = "evaluate" /\ broken # "memory" /\ UNCHANGED <<keyed, root>>
  BY DEF EvaluateLink, Runs, OwnsInv
<1>2. /\ UNCHANGED <<lists, task>> /\ broken' # "memory"
      /\ data' = data \/ \E n, x : data' = [data EXCEPT ![n] = x]
  BY <1>1 DEF EvaluateLink, Break
<1>3. DOMAIN data' = DOMAIN data
  BY <1>2
<1> QED
  BY <1>1, <1>2, <1>3, CellsStay

LEMMA CopyCellOwns ==
  ASSUME OwnsInv, CopyCell
  PROVE  OwnsInv'
<1>1. task.op = "copy" /\ broken # "memory" /\ UNCHANGED <<keyed, root>>
  BY DEF CopyCell, Runs, OwnsInv
<1>2. /\ UNCHANGED <<lists, task>> /\ broken' # "memory"
      /\ data' = data \/ \E n, x : data' = [data EXCEPT ![n] = x]
  BY <1>1 DEF CopyCell, Break
<1>3. DOMAIN data' = DOMAIN data
  BY <1>2
<1> QED
  BY <1>1, <1>2, <1>3, CellsStay

LEMMA LoopEndOwns ==
  ASSUME OwnsInv, EvaluateEnd \/ CopyEnd
  PROVE  OwnsInv'
<1>1. /\ task.op \in {"evaluate", "copy"} /\ broken # "memory"
      /\ UNCHANGED <<keyed, lists, data, root, broken>> /\ (task' = task \/ task' = NoTask)
  BY DEF EvaluateEnd, CopyEnd, Runs, OwnsInv
<1>2. task'.op \in {"none", "evaluate", "copy"}
  BY <1>1 DEF NoTask
<1> QED
  BY <1>1, <1>2, CellsStay

LEMMA StutterOwns ==
  ASSUME OwnsInv, UNCHANGED keyVars
  PROVE  OwnsInv'
<1>1. UNCHANGED <<keyed, lists, data, root, task, stack, broken>>
  BY DEF keyVars
<1>2. Gone' = Gone /\ OpenLists' = OpenLists
  BY <1>1 DEF Gone, OpenLists, Inner, Depth
<1>3. Owned(lists, data, root, Gone)' /\ LastMarked(lists, root, OpenLists)'
  BY <1>1, <1>2 DEF OwnsInv
<1>4. task.op \in {"view", "destroy"} => WalkLoops'
  BY <1>1 DEF OwnsInv, WalkLoops, At
<1>5. task.op = "reserve" => ReserveLoops'
  BY <1>1 DEF OwnsInv, ReserveLoops, LoopsOf, LoopIsWhole, Whole
<1>6. ProductLists'
  BY <1>1 DEF OwnsInv, ProductLists, ProductListsOf, Remaining
<1> QED
  BY <1>1, <1>3, <1>4, <1>5, <1>6 DEF OwnsInv

(* Every step of every call keeps what is known of the blocks.             *)
LEMMA KeyStepOwns ==
  ASSUME OwnsInv, [KeyNext]_keyVars
  PROVE  OwnsInv'
<1>1. CASE UNCHANGED keyVars
  BY <1>1, StutterOwns
<1>2. ASSUME NEW k \in Keys, NewKey(k) PROVE OwnsInv'
  BY <1>2, NewKeyOwns
<1>3. ASSUME NEW k \in Keys, ReserveKey(k) PROVE OwnsInv'
  BY <1>3, ReserveKeyOwns
<1>4. ASSUME NEW k \in Keys, FlatView(k) PROVE OwnsInv'
  BY <1>4, FlatViewOwns
<1>5. ASSUME NEW k \in Keys, DestroyKey(k) PROVE OwnsInv'
  BY <1>5, DestroyKeyOwns
<1>6. ASSUME NEW k \in Keys, NEW v \in Rounds, EvaluateQuery(k, v) PROVE OwnsInv'
  BY <1>6, EvaluateQueryOwns
<1>7. ASSUME NEW k \in Keys, NEW from \in Keys, CopyKey(k, from) PROVE OwnsInv'
  BY <1>7, CopyKeyOwns
<1>8. CASE ReserveLink \/ ReserveEnd
  BY <1>8, ReserveLinkOwns, ReserveEndOwns
<1>9. CASE EvaluateLink \/ EvaluateEnd \/ CopyCell \/ CopyEnd
  BY <1>9, EvaluateLinkOwns, CopyCellOwns, LoopEndOwns
<1>10. CASE WalkCell \/ WalkUp \/ ViewEnd \/ DestroyEnd
  BY <1>10, WalkCellOwns, WalkUpOwns, ViewEndOwns, DestroyEndOwns
<1> QED
  BY <1>1, <1>2, <1>3, <1>4, <1>5, <1>6, <1>7, <1>8, <1>9, <1>10 DEF KeyNext

(* Between the calls, the owners of a block are those the property lists.  *)
LEMMA OwnsMeansOnce ==
  ASSUME OwnsInv
  PROVE  OwnedOnce
<1>1. broken # "memory"
  BY DEF OwnsInv
<1> SUFFICES ASSUME Quiet
             PROVE  /\ \A b \in Live : \E o \in Owners(b) : Owners(b) = {o}
                    /\ \A a \in Allocated : At(a).ptr \in Live \cup {0}
                    /\ \A b \in DOMAIN lists \ {root[k] : k \in Keys} :
                         \A i \in DOMAIN lists[b] : lists[b][i].term <=> i = Len(lists[b])
  BY <1>1 DEF OwnedOnce
<1>2. Owned(lists, data, root, {}) /\ LastMarked(lists, root, {})
  BY QuietIs
<1>3. /\ PointToLive(lists, data, {}) /\ PointApart(lists, root, {}) /\ HaveOwner(lists, data, root, {})
      /\ RootsAreCells(lists, root) /\ CellsAreSound(lists) /\ 0 \notin Live
  BY <1>2, BlocksAssumption DEF Owned, CellsAreSound, BlocksApart, Live
<1>4. \A a \in Allocated : \E b, i : a = <<b, i>> /\ b \in DOMAIN lists /\ i \in DOMAIN lists[b]
  BY DEF Allocated
<1>5. \A b, i : b \in DOMAIN lists /\ i \in DOMAIN lists[b] => <<b, i>> \in Allocated
  BY DEF Allocated
<1>6. \A b, i : At(<<b, i>>) = lists[b][i]
  BY DEF At
<1>7. \A b, i : Owning(lists, {}, b, i) <=> b \in DOMAIN lists /\ i \in DOMAIN lists[b] /\ lists[b][i].ptr # 0
  BY DEF Owning
<1>8. ASSUME NEW b \in Live
      PROVE  \E o \in Owners(b) : Owners(b) = {o}
  <2>1. b # 0 /\ b \in DOMAIN lists \cup DOMAIN data
    BY <1>3 DEF Live
  <2>2. \A o \in Owners(b) :
          \/ \E k \in Keys : o = <<k, 0>> /\ root[k] = b
          \/ \E d, i : o = <<d, i>> /\ Owning(lists, {}, d, i) /\ lists[d][i].ptr = b
    <3> TAKE o \in Owners(b)
    <3>1. CASE o \in {<<k, 0>> : k \in {x \in Keys : root[x] = b}}
      BY <3>1
    <3>2. CASE o \in Allocated /\ At(o).ptr = b
      BY <1>4, <1>6, <1>7, <2>1, <3>2
    <3> QED
      BY <3>1, <3>2 DEF Owners
  <2>3. \A k \in Keys : root[k] = b => <<k, 0>> \in Owners(b)
    BY DEF Owners
  <2>4. \A d, i : Owning(lists, {}, d, i) /\ lists[d][i].ptr = b => <<d, i>> \in Owners(b)
    BY <1>5, <1>6, <1>7 DEF Owners
  <2>5. CASE \E k \in Keys : root[k] = b
    <3>1. PICK k \in Keys : root[k] = b
      BY <2>5
    <3>2. \A j \in Keys : root[j] = b => j = k
      BY <1>3, <2>1, <3>1 DEF RootsAreCells
    <3>3. \A d, i : Owning(lists, {}, d, i) => lists[d][i].ptr # b
      BY <1>3, <3>1 DEF PointApart
    <3>4. \A o \in Owners(b) : o = <<k, 0>>
      BY <2>2, <3>2, <3>3
    <3> QED
      BY <2>3, <3>1, <3>4
  <2>6. CASE ~\E k \in Keys : root[k] = b
    <3>1. PICK d, i : Owning(lists, {}, d, i) /\ lists[d][i].ptr = b
      BY <1>3, <2>1, <2>6 DEF HaveOwner
    <3>2. \A x, j : Owning(lists, {}, x, j) /\ lists[x][j].ptr = b => x = d /\ j = i
      BY <1>3, <3>1 DEF PointApart
    <3>3. \A o \in Owners(b) : o = <<d, i>>
      BY <2>2, <2>6, <3>2
    <3> QED
      BY <2>4, <3>1, <3>3
  <2> QED
    BY <2>5, <2>6
<1>9. ASSUME NEW a \in Allocated
      PROVE  At(a).ptr \in Live \cup {0}
  <2>1. PICK b, i : a = <<b, i>> /\ b \in DOMAIN lists /\ i \in DOMAIN lists[b]
    BY <1>4
  <2>2. CASE lists[b][i].ptr = 0
    BY <1>6, <2>1, <2>2
  <2>3. CASE lists[b][i].ptr # 0
    <3>1. Owning(lists, {}, b, i)
      BY <1>7, <2>1, <2>3
    <3> QED
      BY <1>3, <1>6, <2>1, <3>1 DEF PointToLive, Live
  <2> QED
    BY <2>2, <2>3
<1>10. ASSUME NEW b \in DOMAIN lists \ {root[k] : k \in Keys}, NEW i \in DOMAIN lists[b]
       PROVE  lists[b][i].term <=> i = Len(lists[b])
  <2>1. lists[b] \in Seq(CellsOfKeys)
    BY <1>3 DEF CellsAreSound
  <2>2. i < Len(lists[b]) \/ i = Len(lists[b])
    BY <2>1
  <2>3. /\ i < Len(lists[b]) => ~lists[b][i].term
        /\ i = Len(lists[b]) => lists[b][i].term
    BY <1>2 DEF LastMarked
  <2>4. ~(i < Len(lists[b]) /\ i = Len(lists[b]))
    BY <2>1
  <2> QED
    BY <2>2, <2>3, <2>4
<1> QED
  BY <1>8, <1>9, <1>10

(* Every block has one owner, for any queries, any number of keys and of   *)
(* blocks, and wherever an allocation fails: a key can always be destroyed,*)
(* and that frees all and nothing twice.                                   *)
THEOREM OwnedOnceHolds == KeySpec => []OwnedOnce
<1>1. KeyInit => OwnsInv
  BY InitOwns
<1>2. OwnsInv /\ [KeyNext]_keyVars => OwnsInv'
  BY KeyStepOwns
<1>3. OwnsInv => OwnedOnce
  BY OwnsMeansOnce
<1> QED
  BY <1>1, <1>2, <1>3, PTL DEF KeySpec
-----------------------------------------------------------------------------
(***************************************************************************)
(* What a key looks like while no allocation has failed: `label' gives     *)
(* each block of cells the links it was reserved for.  The cells `wait'    *)
(* are not reserved yet.                                                   *)
(***************************************************************************)
PlainLink(l) ==
  /\ l \in KeyLinks /\ IsLink(l, DOMAIN keyed.chains) /\ l.kind # "call"
  /\ \A j \in DOMAIN l.filter :
       Len(keyed.chains[l.filter[j]]) = 1 /\ keyed.chains[l.filter[j]][1].kind = "none"

LabelsArePlain(label) ==
  label \in [Blocks -> Seq(KeyLinks)] /\ \A b \in Blocks : \A j \in DOMAIN label[b] : PlainLink(label[b][j])

RootsLabelled(label, rs) == \A k \in Keys : rs[k] # 0 => label[rs[k]] = <<Whole>>

Fitting(label, cell, l) ==
  /\ l.kind = "typed" => cell.pl = "plain" /\ cell.code = 1 /\ cell.ptr # 0
  /\ Listed(l) # <<>> => cell.pl = "list" /\ label[cell.ptr] = Listed(l)
  /\ l.kind # "typed" /\ Listed(l) = <<>> => cell.pl = "plain" /\ cell.code = 0

Shape(label, ls, gone, wait) ==
  \A b \in DOMAIN ls :
    /\ Len(ls[b]) = Len(label[b])
    /\ \A i \in DOMAIN ls[b] :
         /\ <<b, i>> \in wait => ls[b][i].pl = "plain" /\ ls[b][i].code = 0
         /\ <<b, i>> \notin gone /\ <<b, i>> \notin wait => Fitting(label, ls[b][i], label[b][i])

(* The own cell of a key that was not reserved yet waits, and what the     *)
(* loops of a first reservation have ahead.                                *)
Idle(rs, res, tk, b) ==
  \E k \in Keys : rs[k] = b /\ res[k] = "none" /\ ~(tk.op = "reserve" /\ tk.key = k)

Ahead(res, tk, st, b, i) ==
  /\ tk.op = "reserve" /\ res[tk.key] = "none"
  /\ \E d \in DOMAIN st : st[d].cells[1][1] = b /\ st[d].i <= i

WaitingFor(rs, res, tk, st) ==
  {a \in Blocks \X Nat : Idle(rs, res, tk, a[1]) \/ Ahead(res, tk, st, a[1], a[2])}

Waiting == WaitingFor(root, result, task, stack)

(* The cells of a block that was reserved, where no reservation runs.      *)
Reserved(b) == b \in DOMAIN lists /\ \A k \in Keys : root[k] = b => result[k] = "ok"

(* A link in an evaluation is given its cell, or is the filter of a        *)
(* product or in one.                                                      *)
Served(label, l, a) ==
  /\ Reserved(a[1]) /\ a[2] \in DOMAIN lists[a[1]]
  /\ \/ l = label[a[1]][a[2]]
     \/ /\ PlainLink(l) /\ l.kind = "fwd" /\ lists[a[1]][a[2]].pl = "list"
        /\ Len(Listed(l)) = 1 /\ Listed(l)[1].kind = "none"
     \/ PlainLink(l) /\ l.kind = "none"

EvaluateLoops(st, label) ==
  /\ st \in Seq(LoopFrames) /\ st # <<>>
  /\ \A d \in DOMAIN st :
       /\ Len(st[d].cells) = Len(st[d].links)
       /\ \A j \in DOMAIN st[d].links : Served(label, st[d].links[j], st[d].cells[j])

CopyFrames == [to : Blocks, from : Blocks, i : Nat \ {0}]

CopyLoops(st, label) ==
  /\ st \in Seq(CopyFrames) /\ st # <<>>
  /\ \A d \in DOMAIN st :
       /\ Reserved(st[d].to) /\ Reserved(st[d].from)
       /\ label[st[d].to] = label[st[d].from]
       /\ st[d].i <= Len(lists[st[d].from]) + 1
       /\ d > 1 => \A k \in Keys : root[k] # st[d].from
  /\ \E k \in Keys : root[k] = st[1].from

(* A reservation of a key that was reserved before: it will be refused.    *)
Again(st) ==
  /\ Len(st) \in {1, 2}
  /\ Len(st) = 1 => st[1].i = 1
  /\ Len(st) = 2 => keyed.direct /\ st[2].i = 1 /\ st[2].links = Listed(Whole)

ReservesFor(st, label) == \A d \in DOMAIN st : st[d].links = label[st[d].cells[1][1]]

KeyRuns(label) ==
  /\ broken = "no"
  /\ result \in [Keys -> {"none", "ok"}]
  /\ \A k \in Keys : root[k] = 0 => result[k] = "none"
  /\ LabelsArePlain(label) /\ RootsLabelled(label, root)
  /\ Shape(label, lists, Gone, Waiting)
  /\ task.op = "reserve" =>
       ReservesFor(stack, label) /\ (result[task.key] = "ok" => Again(stack))
  /\ task.op = "evaluate" => EvaluateLoops(stack, label)
  /\ task.op = "copy" => CopyLoops(stack, label)

KeysRunInv == faults \in Nat /\ (faults = 0 /\ PlainQuery => \E label : KeyRuns(label))

LEMMA TableKept ==
  ASSUME keyed' = keyed
  PROVE  FullyScalar' = FullyScalar /\ Whole' = Whole /\ (PlainQuery <=> PlainQuery')
<1>1. FullyScalar' = FullyScalar
  BY DEF FullyScalar
<1>2. Whole' = Whole
  BY DEF Whole, Forward
<1> QED
  BY <1>1, <1>2 DEF PlainQuery

LEMMA ListedKept ==
  ASSUME keyed' = keyed, NEW l
  PROVE  Listed(l)' = Listed(l) /\ (PlainLink(l)' <=> PlainLink(l))
<1>1. Listed(l)' = Listed(l)
  BY TableKept DEF Listed, CollectionOf, Forwarding, Forward
<1>2. PlainLink(l)' <=> PlainLink(l)
  BY DEF PlainLink
<1> QED
  BY <1>1, <1>2

(* The links of a chain, and those a link forwards to, are plain.          *)
LEMMA ChainIsPlain ==
  ASSUME keyed \in KeyedQueries, PlainQuery, NEW n \in DOMAIN keyed.chains
  PROVE  /\ keyed.chains[n] \in Seq(KeyLinks) /\ keyed.chains[n] # <<>>
         /\ \A j \in DOMAIN keyed.chains[n] : PlainLink(keyed.chains[n][j])
<1>1. keyed.chains[n] \in Seq(KeyLinks) /\ keyed.chains[n] # <<>>
      /\ \A j \in DOMAIN keyed.chains[n] : IsLink(keyed.chains[n][j], DOMAIN keyed.chains)
  BY ChainsAre
<1>2. ASSUME NEW j \in DOMAIN keyed.chains[n]
      PROVE  PlainLink(keyed.chains[n][j])
  <2>1. keyed.chains[n][j] \in KeyLinks
    BY <1>1
  <2> QED
    BY <1>1, <2>1 DEF PlainQuery, PlainLink
<1> QED
  BY <1>1, <1>2

LEMMA ForwardIsPlain ==
  ASSUME keyed \in KeyedQueries, NEW n \in DOMAIN keyed.chains
  PROVE  PlainLink(Forward(n)) /\ Listed(Forward(n)) = keyed.chains[n] /\ Forward(n).kind = "fwd"
<1>1. n \in Nat /\ DOMAIN keyed.chains \subseteq Nat
  BY ChainsAre
<1>2. Forward(n) \in KeyLinks /\ Forward(n).kind = "fwd" /\ Forward(n).sub = <<n>> /\ Forward(n).filter = <<>>
  BY <1>1, ForwardIs
<1>3. IsLink(Forward(n), DOMAIN keyed.chains)
  BY <1>1, ForwardIsLink
<1>4. PlainLink(Forward(n))
  BY <1>2, <1>3 DEF PlainLink
<1>5. Listed(Forward(n)) = keyed.chains[n]
  BY <1>2 DEF Listed
<1> QED
  BY <1>2, <1>4, <1>5

LEMMA ListedIsPlain ==
  ASSUME keyed \in KeyedQueries, PlainQuery, NEW l, PlainLink(l)
  PROVE  /\ Listed(l) \in Seq(KeyLinks) /\ Len(Listed(l)) \in Nat
         /\ \A j \in DOMAIN Listed(l) : PlainLink(Listed(l)[j])
         /\ l.kind \in {"fwd", "product"} => Listed(l) # <<>>
         /\ l.kind \in {"typed", "none"} => Listed(l) = <<>>
         /\ l.kind # "product" => l.filter = <<>>
         /\ l \in KeyLinks
<1>1. l \in KeyLinks /\ IsLink(l, DOMAIN keyed.chains)
  BY DEF PlainLink
<1>2. Listed(l) \in Seq(KeyLinks) /\ (l.kind \in {"fwd", "product"} => Listed(l) # <<>>)
  BY <1>1, ListedIs
<1>3. l.sub \in Seq(Nat) /\ l.kind \in LinkKinds /\ \A j \in DOMAIN l.sub : l.sub[j] \in DOMAIN keyed.chains
  BY <1>1 DEF KeyLinks, IsLink
<1>4. \A j \in DOMAIN Listed(l) : PlainLink(Listed(l)[j])
  <2>1. CASE l.kind = "fwd"
    <3>1. Listed(l) = keyed.chains[l.sub[1]] /\ 1 \in DOMAIN l.sub
      BY <1>1, <1>3, <2>1 DEF Listed, IsLink
    <3> QED
      BY <1>3, <3>1, ChainIsPlain
  <2>2. CASE l.kind = "product"
    <3>1. Listed(l) = Forwarding(l.sub)
      BY <2>2 DEF Listed
    <3>2. ASSUME NEW j \in DOMAIN Listed(l)
          PROVE  PlainLink(Listed(l)[j])
      <4>1. j \in DOMAIN l.sub /\ Listed(l)[j] = Forward(l.sub[j])
        BY <3>1, <3>2 DEF Forwarding
      <4> QED
        BY <1>3, <4>1, ForwardIsPlain
    <3> QED
      BY <3>2
  <2>3. CASE l.kind = "arith" /\ \E j \in DOMAIN l.sub : ~FullyScalar[l.sub[j]]
    <3>1. Listed(l) = keyed.chains[CollectionOf(l)]
      BY <2>3 DEF Listed
    <3>2. Len(l.sub) \in {1, 2}
      BY <1>1, <2>3 DEF IsLink
    <3>3. CollectionOf(l) \in DOMAIN keyed.chains
      <4>1. 1 \in DOMAIN l.sub /\ (2 \in DOMAIN l.sub \/ ~FullyScalar[l.sub[1]])
        BY <1>3, <2>3, <3>2
      <4> QED
        BY <1>3, <4>1 DEF CollectionOf
    <3> QED
      BY <3>1, <3>3, ChainIsPlain
  <2>4. CASE l.kind \notin {"fwd", "product"} /\ ~(l.kind = "arith" /\ \E j \in DOMAIN l.sub : ~FullyScalar[l.sub[j]])
    <3>1. Listed(l) = <<>>
      BY <2>4 DEF Listed
    <3> QED
      BY <3>1
  <2> QED
    BY <2>1, <2>2, <2>3, <2>4
<1>5. l.kind \in {"typed", "none"} => Listed(l) = <<>>
  BY DEF Listed
<1> QED
  BY <1>1, <1>2, <1>4, <1>5 DEF IsLink

LEMMA WholeIsPlain ==
  ASSUME keyed \in KeyedQueries, PlainQuery
  PROVE  /\ PlainLink(Whole) /\ Listed(Whole) # <<>> /\ Whole.kind \in {"fwd", "product"}
         /\ Whole.kind = "product" <=> keyed.direct
         /\ keyed.direct => \A j \in DOMAIN Listed(Whole) : Listed(Whole)[j].kind = "fwd"
<1>1. /\ Whole \in KeyLinks /\ IsLink(Whole, DOMAIN keyed.chains)
      /\ Whole.kind \in {"fwd", "product"} /\ Listed(Whole) # <<>>
      /\ Whole.kind = "product" <=> keyed.direct
      /\ keyed.direct => Whole = keyed.chains[1][1]
  BY WholeIs
<1>2. 1 \in DOMAIN keyed.chains
  BY ChainsAre
<1>3. PlainLink(Whole)
  <2>1. CASE keyed.direct
    <3>1. 1 \in DOMAIN keyed.chains[1]
      BY <1>2, ChainsAre
    <3> QED
      BY <1>1, <1>2, <2>1, <3>1, ChainIsPlain
  <2>2. CASE ~keyed.direct
    BY <1>2, <2>2, ForwardIsPlain DEF Whole
  <2> QED
    BY <2>1, <2>2
<1>4. Whole.kind = "product" => \A j \in DOMAIN Listed(Whole) : Listed(Whole)[j].kind = "fwd"
  BY <1>1, ListedIs
<1> QED
  BY <1>1, <1>3, <1>4

LEMMA WaitingIs ==
  ASSUME NEW rs, NEW res, NEW tk, NEW st, NEW b \in Blocks, NEW i \in Nat
  PROVE  <<b, i>> \in WaitingFor(rs, res, tk, st) <=> Idle(rs, res, tk, b) \/ Ahead(res, tk, st, b, i)
<1>1. \A a \in Blocks \X Nat : a \in WaitingFor(rs, res, tk, st) <=>
        Idle(rs, res, tk, a[1]) \/ Ahead(res, tk, st, a[1], a[2])
  BY DEF WaitingFor
<1>2. <<b, i>> \in Blocks \X Nat /\ <<b, i>>[1] = b /\ <<b, i>>[2] = i
  OBVIOUS
<1> QED
  BY <1>1, <1>2

(* What is known of the memory where nothing is reserved or destroyed.     *)
LEMMA CellsAre ==
  ASSUME OwnsInv, task.op \notin {"reserve", "destroy"}
  PROVE  /\ Gone = {} /\ OpenLists = {} /\ keyed \in KeyedQueries
         /\ CellsAreSound(lists) /\ RootsAreCells(lists, root)
         /\ Owned(lists, data, root, {}) /\ LastMarked(lists, root, {})
<1>1. Gone = {} /\ OpenLists = {}
  BY DEF Gone, OpenLists
<1> QED
  BY <1>1 DEF OwnsInv, Owned

LEMMA BlockIs ==
  ASSUME NEW ls, CellsAreSound(ls), NEW b \in DOMAIN ls
  PROVE  /\ b \in Blocks /\ b # 0 /\ ls[b] \in Seq(CellsOfKeys) /\ ls[b] # <<>> /\ Len(ls[b]) \in Nat
         /\ DOMAIN ls[b] = 1..Len(ls[b]) /\ 1 \in DOMAIN ls[b]
         /\ \A i \in DOMAIN ls[b] : ls[b][i] \in CellsOfKeys /\ SoundCell(ls[b][i])
<1>1. b \in Blocks /\ ls[b] \in Seq(CellsOfKeys) /\ ls[b] # <<>> /\ \A i \in DOMAIN ls[b] : SoundCell(ls[b][i])
  BY DEF CellsAreSound
<1> QED
  BY <1>1, BlocksAssumption

(* A cell that was reserved fits its link.                                 *)
LEMMA CellFits ==
  ASSUME OwnsInv, NEW label, KeyRuns(label), task.op \notin {"reserve", "destroy"},
         NEW b, Reserved(b), NEW i \in DOMAIN lists[b]
  PROVE  /\ i \in DOMAIN label[b] /\ PlainLink(label[b][i])
         /\ Fitting(label, lists[b][i], label[b][i])
         /\ lists[b][i] \in CellsOfKeys /\ SoundCell(lists[b][i])
<1>1. b \in DOMAIN lists /\ Gone = {} /\ CellsAreSound(lists)
  BY CellsAre DEF Reserved
<1>2. b \in Blocks /\ lists[b] \in Seq(CellsOfKeys) /\ lists[b][i] \in CellsOfKeys /\ SoundCell(lists[b][i])
      /\ i \in Nat
  BY <1>1, BlockIs
<1>3. label \in [Blocks -> Seq(KeyLinks)] /\ (\A x \in Blocks : \A j \in DOMAIN label[x] : PlainLink(label[x][j]))
      /\ Shape(label, lists, {}, Waiting)
  BY <1>1 DEF KeyRuns, LabelsArePlain
<1>4. ~Idle(root, result, task, b) /\ ~Ahead(result, task, stack, b, i)
  BY DEF Idle, Ahead, Reserved
<1>5. <<b, i>> \notin Waiting
  BY <1>2, <1>4, WaitingIs DEF Waiting
<1>6. Len(lists[b]) = Len(label[b]) /\ Fitting(label, lists[b][i], label[b][i])
  BY <1>1, <1>3, <1>5 DEF Shape
<1>7. i \in DOMAIN label[b]
  BY <1>2, <1>3, <1>6
<1> QED
  BY <1>2, <1>3, <1>6, <1>7

(* The list of a cell that is one.                                         *)
LEMMA ListFits ==
  ASSUME OwnsInv, NEW label, KeyRuns(label), task.op \notin {"reserve", "destroy"},
         NEW b \in DOMAIN lists, NEW i \in DOMAIN lists[b], lists[b][i].pl = "list",
         NEW n, n = lists[b][i].ptr
  PROVE  /\ n # 0 /\ n \in Blocks /\ Reserved(n) /\ \A k \in Keys : root[k] # n
         /\ Len(lists[n]) = Len(label[n]) /\ lists[n] # <<>>
<1>1. /\ CellsAreSound(lists) /\ Owned(lists, data, root, {}) /\ Gone = {}
  BY CellsAre
<1>2. SoundCell(lists[b][i])
  BY <1>1, BlockIs
<1>3. n # 0
  BY <1>2 DEF SoundCell
<1>4. Owning(lists, {}, b, i)
  BY <1>3 DEF Owning
<1>5. n \in DOMAIN lists
  BY <1>1, <1>4 DEF Owned, PointToLive
<1>6. \A k \in Keys : root[k] # n
  BY <1>1, <1>4 DEF Owned, PointApart
<1>7. n \in Blocks /\ lists[n] # <<>>
  BY <1>1, <1>5, BlockIs
<1>8. Len(lists[n]) = Len(label[n])
  BY <1>5 DEF KeyRuns, Shape
<1> QED
  BY <1>3, <1>5, <1>6, <1>7, <1>8 DEF Reserved

(* Where the cells and their owners stay as they are, so does what they    *)
(* are reserved for.                                                       *)
LEMMA FittingKept ==
  ASSUME keyed' = keyed, NEW label, NEW cell, NEW l
  PROVE  Fitting(label, cell, l)' <=> Fitting(label, cell, l)
<1>1. PICK m : m = Listed(l)
  OBVIOUS
<1>2. Listed(l)' = m
  BY <1>1, ListedKept
<1> QED
  BY <1>1, <1>2 DEF Fitting

LEMMA LabelsKept ==
  ASSUME keyed' = keyed, NEW label, LabelsArePlain(label)
  PROVE  LabelsArePlain(label)'
<1>1. \A l : PlainLink(l)' <=> PlainLink(l)
  BY ListedKept
<1> QED
  BY <1>1 DEF LabelsArePlain

LEMMA RootsLabelledKept ==
  ASSUME keyed' = keyed, NEW label, NEW rs, RootsLabelled(label, rs)
  PROVE  RootsLabelled(label, rs)'
<1>1. PICK w : w = Whole
  OBVIOUS
<1>2. Whole' = w
  BY <1>1, TableKept
<1> QED
  BY <1>1, <1>2 DEF RootsLabelled

LEMMA ShapeKept ==
  ASSUME keyed' = keyed, NEW label, NEW ls, NEW gone, NEW wait, Shape(label, ls, gone, wait)
  PROVE  Shape(label, ls, gone, wait)'
<1>1. \A cell, l : Fitting(label, cell, l)' <=> Fitting(label, cell, l)
  BY FittingKept
<1> QED
  BY <1>1 DEF Shape

LEMMA RunsAfter ==
  ASSUME keyed' = keyed, broken' = "no", NEW label, LabelsArePlain(label),
         NEW ls, lists' = ls, NEW rs, root' = rs, NEW gone, Gone' = gone, NEW wait, Waiting' = wait,
         RootsLabelled(label, rs), Shape(label, ls, gone, wait),
         result' \in [Keys -> {"none", "ok"}], \A k \in Keys : rs[k] = 0 => result'[k] = "none",
         task'.op = "reserve" => ReservesFor(stack', label) /\ (result'[task'.key] = "ok" => Again(stack)'),
         task'.op = "evaluate" => EvaluateLoops(stack, label)',
         task'.op = "copy" => CopyLoops(stack, label)'
  PROVE  KeyRuns(label)'
<1>1. LabelsArePlain(label)' /\ RootsLabelled(label, rs)' /\ Shape(label, ls, gone, wait)'
  BY LabelsKept, RootsLabelledKept, ShapeKept
<1>2. RootsLabelled(label, root)' /\ Shape(label, lists, Gone, Waiting)'
  BY <1>1
<1>3. (task.op = "reserve" => ReservesFor(stack, label))'
  BY DEF ReservesFor
<1> QED
  BY <1>1, <1>2, <1>3 DEF KeyRuns

(* Blocks of cells and keys may be gone, and more cells visited.           *)
LEMMA StillRuns ==
  ASSUME OwnsInv, keyed' = keyed, broken' = "no", NEW label, KeyRuns(label),
         NEW ls, lists' = ls, \A b \in DOMAIN ls : b \in DOMAIN lists /\ ls[b] = lists[b],
         NEW rs, root' = rs, \A k \in Keys : rs[k] # 0 => rs[k] = root[k],
         NEW gone, Gone' = gone, \A b, i : b \in DOMAIN ls /\ <<b, i>> \in Gone => <<b, i>> \in gone,
         NEW wait, Waiting' = wait,
         \A b \in DOMAIN ls : \A i \in DOMAIN ls[b] : <<b, i>> \in wait <=> <<b, i>> \in Waiting,
         result' \in [Keys -> {"none", "ok"}], \A k \in Keys : rs[k] = 0 => result'[k] = "none",
         task'.op = "reserve" => ReservesFor(stack', label) /\ (result'[task'.key] = "ok" => Again(stack)'),
         task'.op = "evaluate" => EvaluateLoops(stack, label)',
         task'.op = "copy" => CopyLoops(stack, label)'
  PROVE  KeyRuns(label)'
<1>1. LabelsArePlain(label) /\ RootsLabelled(label, rs)
  BY DEF KeyRuns, RootsLabelled
<1>2. Shape(label, lists, Gone, Waiting)
  BY DEF KeyRuns
<1>3. PICK gone1, wait1 : gone1 = Gone /\ wait1 = Waiting
  OBVIOUS
<1>4. Shape(label, ls, gone, wait)
  BY <1>2, <1>3 DEF Shape
<1> QED
  BY <1>1, <1>4, RunsAfter

(* The cells that wait, where no reservation runs.                         *)
LEMMA WaitingKept ==
  ASSUME task.op # "reserve", task'.op # "reserve", NEW b \in Blocks, NEW i \in Nat,
         NEW rs, root' = rs, NEW res, result' = res,
         \A k \in Keys : rs[k] = b /\ res[k] = "none" <=> root[k] = b /\ result[k] = "none"
  PROVE  <<b, i>> \in Waiting' <=> <<b, i>> \in Waiting
<1>1. PICK tk, st : tk = task' /\ st = stack'
  OBVIOUS
<1>2. Waiting' = WaitingFor(rs, res, tk, st)
  BY <1>1 DEF Waiting
<1>3. <<b, i>> \in WaitingFor(rs, res, tk, st) <=> Idle(rs, res, tk, b)
  BY <1>1, WaitingIs DEF Ahead
<1>4. <<b, i>> \in Waiting <=> Idle(root, result, task, b)
  BY WaitingIs DEF Ahead, Waiting
<1>5. Idle(rs, res, tk, b) <=> Idle(root, result, task, b)
  BY <1>1 DEF Idle
<1> QED
  BY <1>2, <1>3, <1>4, <1>5

(* Steps that only read the cells.                                         *)
LEMMA ReadsOn ==
  ASSUME OwnsInv, UNCHANGED <<keyed, lists, root, result>>, broken' = "no", NEW label, KeyRuns(label),
         task.op # "reserve", task'.op # "reserve",
         NEW gone, Gone' = gone, \A b, i : <<b, i>> \in Gone => <<b, i>> \in gone,
         task'.op = "evaluate" => EvaluateLoops(stack', label),
         task'.op = "copy" => CopyLoops(stack', label)
  PROVE  KeyRuns(label)'
<1>1. CellsAreSound(lists)
  BY DEF OwnsInv, Owned
<1>2. ASSUME NEW b \in DOMAIN lists, NEW i \in DOMAIN lists[b]
      PROVE  <<b, i>> \in Waiting' <=> <<b, i>> \in Waiting
  <2>1. b \in Blocks /\ i \in Nat
    BY <1>1, BlockIs
  <2> QED
    BY <2>1, WaitingKept
<1>3. \A b : Reserved(b)' <=> Reserved(b)
  BY DEF Reserved
<1>4. \A l : PlainLink(l)' <=> PlainLink(l)
  BY ListedKept
<1>5. \A l : Listed(l)' = Listed(l)
  BY ListedKept
<1>6. \A l, a : Served(label, l, a)' <=> Served(label, l, a)
  BY <1>3, <1>4, <1>5 DEF Served
<1>7. (task.op = "evaluate" => EvaluateLoops(stack, label))'
  BY <1>6 DEF EvaluateLoops
<1>8. (task.op = "copy" => CopyLoops(stack, label))'
  BY <1>3 DEF CopyLoops
<1>9. PICK wait, res : wait = Waiting' /\ res = result'
  OBVIOUS
<1>10. result \in [Keys -> {"none", "ok"}] /\ \A k \in Keys : root[k] = 0 => result[k] = "none"
  BY DEF KeyRuns
<1> QED
  BY <1>2, <1>7, <1>8, <1>9, <1>10, StillRuns

-----------------------------------------------------------------------------
(* What a link in an evaluation finds at the cell it is given.             *)
LEMMA ServedIs ==
  ASSUME OwnsInv, PlainQuery, NEW label, KeyRuns(label), task.op = "evaluate",
         NEW l, NEW a, Served(label, l, a)
  PROVE  /\ PlainLink(l) /\ l.kind # "call"
         /\ a[1] \in DOMAIN lists /\ a[2] \in DOMAIN lists[a[1]] /\ At(a) = lists[a[1]][a[2]]
         /\ l.kind = "typed" => Is(a, "plain")
         /\ Listed(l) # <<>> =>
              /\ Is(a, "list")
              /\ \/ label[At(a).ptr] = Listed(l)
                 \/ l.kind = "fwd" /\ Len(Listed(l)) = 1 /\ Listed(l)[1].kind = "none"
<1> DEFINE b == a[1]
           i == a[2]
<1>1. Reserved(b) /\ b \in DOMAIN lists /\ i \in DOMAIN lists[b] /\ At(a) = lists[b][i]
  BY DEF Served, Reserved, At
<1>2. /\ PlainLink(label[b][i]) /\ Fitting(label, lists[b][i], label[b][i]) /\ SoundCell(lists[b][i])
  BY <1>1, CellFits
<1>3. keyed \in KeyedQueries
  BY DEF OwnsInv
<1>4. lists[b][i].pl = "list" => Is(a, "list")
  BY <1>1, <1>2 DEF Is, SoundCell
<1>5. CASE l = label[b][i]
  BY <1>1, <1>2, <1>4, <1>5, ZenonT(40) DEF Fitting, Is, PlainLink
<1>6. CASE PlainLink(l) /\ l.kind = "fwd" /\ lists[b][i].pl = "list"
           /\ Len(Listed(l)) = 1 /\ Listed(l)[1].kind = "none"
  BY <1>1, <1>4, <1>6
<1>7. CASE PlainLink(l) /\ l.kind = "none"
  <2>1. Listed(l) = <<>>
    BY <1>3, <1>7, ListedIsPlain
  <2> QED
    BY <1>1, <1>7, <2>1
<1> QED
  BY <1>5, <1>6, <1>7 DEF Served

(* The loop over a list: its links are given its cells, and the filter of  *)
(* a product the product's own.                                            *)
LEMMA ListServed ==
  ASSUME OwnsInv, PlainQuery, NEW label, KeyRuns(label), task.op = "evaluate",
         NEW l, NEW a, Served(label, l, a), NEW p, p = Listed(l), p # <<>>,
         NEW n, n = At(a).ptr, NEW j \in DOMAIN p
  PROVE  n \in Blocks /\ Served(label, p[j], <<n, j>>)
<1>1. /\ PlainLink(l)
      /\ a[1] \in DOMAIN lists /\ a[2] \in DOMAIN lists[a[1]] /\ At(a) = lists[a[1]][a[2]]
      /\ Is(a, "list")
      /\ \/ label[n] = p
         \/ l.kind = "fwd" /\ Len(p) = 1 /\ p[1].kind = "none"
  BY ServedIs
<1>2. n \in Blocks /\ Reserved(n) /\ Len(lists[n]) = Len(label[n]) /\ n \in DOMAIN lists
  BY <1>1, ListFits DEF Is, Reserved
<1>3. lists[n] \in Seq(CellsOfKeys) /\ DOMAIN lists[n] = 1..Len(lists[n]) /\ 1 \in DOMAIN lists[n]
  BY <1>2, BlockIs, CellsAre
<1>4. keyed \in KeyedQueries
  BY DEF OwnsInv
<1>5. p \in Seq(KeyLinks) /\ DOMAIN p = 1..Len(p) /\ PlainLink(p[j])
  BY <1>1, <1>4, ListedIsPlain
<1>6. <<n, j>>[1] = n /\ <<n, j>>[2] = j
  OBVIOUS
<1>7. CASE label[n] = p
  BY <1>2, <1>3, <1>5, <1>6, <1>7 DEF Served
<1>8. CASE l.kind = "fwd" /\ Len(p) = 1 /\ p[1].kind = "none"
  <2>1. j = 1
    BY <1>5, <1>8
  <2> QED
    BY <1>2, <1>3, <1>5, <1>6, <1>8, <2>1 DEF Served
<1> QED
  BY <1>1, <1>2, <1>7, <1>8

LEMMA FilterServed ==
  ASSUME OwnsInv, PlainQuery, NEW label, KeyRuns(label), task.op = "evaluate",
         NEW l, NEW a, Served(label, l, a), Listed(l) # <<>>, NEW j \in DOMAIN l.filter
  PROVE  Forward(l.filter[j]) \in KeyLinks /\ Served(label, Forward(l.filter[j]), a)
<1>1. /\ PlainLink(l)
      /\ a[1] \in DOMAIN lists /\ a[2] \in DOMAIN lists[a[1]] /\ At(a) = lists[a[1]][a[2]]
      /\ Is(a, "list")
  BY ServedIs
<1>2. keyed \in KeyedQueries
  BY DEF OwnsInv
<1>3. PICK m : m = l.filter[j]
  OBVIOUS
<1>4. m \in DOMAIN keyed.chains /\ Len(keyed.chains[m]) = 1 /\ keyed.chains[m][1].kind = "none"
  BY <1>1, <1>3 DEF PlainLink, IsLink
<1>5. PlainLink(Forward(m)) /\ Listed(Forward(m)) = keyed.chains[m] /\ Forward(m).kind = "fwd"
  BY <1>2, <1>4, ForwardIsPlain
<1>6. Reserved(a[1]) /\ lists[a[1]][a[2]].pl = "list"
  BY <1>1 DEF Served, Is
<1> QED
  BY <1>1, <1>3, <1>4, <1>5, <1>6, ZenonT(40) DEF Served, PlainLink

LEMMA Joined ==
  ASSUME NEW S, NEW p \in Seq(S), NEW fw \in Seq(S)
  PROVE  p \o fw \in Seq(S) /\ Len(p \o fw) = Len(p) + Len(fw)
OBVIOUS

LEMMA LoopServed ==
  ASSUME OwnsInv, PlainQuery, NEW label, KeyRuns(label), task.op = "evaluate",
         NEW l, NEW a, a \in Blocks \X Nat, Served(label, l, a), Listed(l) # <<>>,
         NEW f, f = Loop(Listed(l) \o Forwarding(l.filter), CellsGiven(l, a))
  PROVE  /\ f \in LoopFrames /\ Len(f.cells) = Len(f.links)
         /\ \A j \in DOMAIN f.links : Served(label, f.links[j], f.cells[j])
<1>1. PICK p, fw, n : p = Listed(l) /\ fw = Forwarding(l.filter) /\ n = At(a).ptr
  OBVIOUS
<1>2. PICK c, e : c = CellsOf(n, p) /\ e = [j \in DOMAIN l.filter |-> a]
  OBVIOUS
<1>3. PICK C : C = Blocks \X Nat
  OBVIOUS
<1>4. keyed \in KeyedQueries /\ PlainLink(l)
  BY ServedIs DEF OwnsInv
<1>5. p \in Seq(KeyLinks) /\ p # <<>> /\ l.filter \in Seq(Nat)
  BY <1>1, <1>4, ListedIsPlain DEF PlainLink, KeyLinks
<1>6. \A j \in DOMAIN p : n \in Blocks /\ Served(label, p[j], <<n, j>>)
  BY <1>1, <1>5, ListServed
<1>7. \A j \in DOMAIN l.filter : Forward(l.filter[j]) \in KeyLinks /\ Served(label, Forward(l.filter[j]), a)
  BY FilterServed
<1>8. n \in Blocks
  <2>1. 1 \in DOMAIN p
    BY <1>5
  <2> QED
    BY <1>6, <2>1
<1>9. c \in Seq(C) /\ Len(c) = Len(p) /\ \A j \in DOMAIN p : c[j] = <<n, j>>
  <2>1. c = [j \in 1..Len(p) |-> <<n, j>>]
    BY <1>2, <1>5 DEF CellsOf
  <2>2. \A j \in 1..Len(p) : <<n, j>> \in C
    BY <1>3, <1>8
  <2> QED
    BY <1>5, <2>1, <2>2
<1>10. fw \in Seq(KeyLinks) /\ Len(fw) = Len(l.filter) /\ \A j \in DOMAIN l.filter : fw[j] = Forward(l.filter[j])
  <2>1. fw = [j \in 1..Len(l.filter) |-> Forward(l.filter[j])]
    BY <1>1, <1>5 DEF Forwarding
  <2> QED
    BY <1>5, <1>7, <2>1
<1>11. e \in Seq(C) /\ Len(e) = Len(l.filter) /\ \A j \in DOMAIN l.filter : e[j] = a
  <2>1. e = [j \in 1..Len(l.filter) |-> a] /\ a \in C
    BY <1>2, <1>3, <1>5
  <2> QED
    BY <1>5, <2>1
<1>12. PICK L : L = Seq(KeyLinks)
  OBVIOUS
<1>13. PICK D : D = Seq(C)
  OBVIOUS
<1>14. f = [links |-> p \o fw, cells |-> c \o e, i |-> 1]
  BY <1>1, <1>2 DEF Loop, CellsGiven
<1>15. p \o fw \in L /\ c \o e \in D /\ Len(p \o fw) = Len(p) + Len(fw) /\ Len(c \o e) = Len(c) + Len(e)
  <2>1. p \o fw \in Seq(KeyLinks) /\ Len(p \o fw) = Len(p) + Len(fw)
    BY <1>5, <1>10, Joined
  <2>2. c \o e \in Seq(C) /\ Len(c \o e) = Len(c) + Len(e)
    BY <1>9, <1>11, Joined
  <2> QED
    BY <1>12, <1>13, <2>1, <2>2
<1>16. f \in [links : L, cells : D, i : Nat \ {0}]
  BY <1>14, <1>15
<1>17. f \in LoopFrames
  BY <1>3, <1>12, <1>13, <1>16 DEF LoopFrames
<1>18. Len(f.cells) = Len(f.links)
  BY <1>9, <1>10, <1>11, <1>14, <1>15
<1>19. ASSUME NEW j \in DOMAIN f.links
       PROVE  Served(label, f.links[j], f.cells[j])
  <2>1. j \in 1..(Len(p) + Len(fw)) /\ f.links = p \o fw /\ f.cells = c \o e
    BY <1>14, <1>15, <1>12
  <2>2. CASE j <= Len(p)
    <3>1. j \in DOMAIN p /\ (p \o fw)[j] = p[j] /\ (c \o e)[j] = c[j]
      BY <1>5, <1>9, <1>10, <1>11, <2>1, <2>2
    <3> QED
      BY <1>6, <1>9, <2>1, <3>1
  <2>3. CASE j > Len(p)
    <3>1. PICK k : k = j - Len(p)
      OBVIOUS
    <3>2. k \in DOMAIN l.filter /\ (p \o fw)[j] = fw[k] /\ (c \o e)[j] = e[k]
      BY <1>5, <1>9, <1>10, <1>11, <2>1, <2>3, <3>1, SMTT(30)
    <3> QED
      BY <1>7, <1>10, <1>11, <2>1, <3>2
  <2>4. Len(p) \in Nat /\ Len(fw) \in Nat /\ j \in Int
    BY <1>5, <1>10, <2>1
  <2> QED
    BY <2>2, <2>3, <2>4
<1> QED
  BY <1>17, <1>18, <1>19

LEMMA EvaluateIs ==
  ASSUME OwnsInv, NEW label, KeyRuns(label), task.op = "evaluate"
  PROVE  /\ stack \in Seq(LoopFrames) /\ stack # <<>> /\ EvaluateLoops(stack, label)
         /\ Depth \in DOMAIN stack /\ Depth \in Nat \ {0} /\ Inner \in LoopFrames
         /\ Inner.i \in Nat \ {0} /\ Len(Inner.cells) = Len(Inner.links)
         /\ Inner.cells \in Seq(Blocks \X Nat) /\ DOMAIN Inner.cells = 1..Len(Inner.links)
         /\ Inner.i <= Len(Inner.links) => Inner.i \in DOMAIN Inner.links
         /\ \A j \in 1..Len(Inner.links) :
              /\ Served(label, Inner.links[j], Inner.cells[j]) /\ Inner.cells[j] \in Blocks \X Nat
<1>1. EvaluateLoops(stack, label)
  BY DEF KeyRuns
<1>2. stack \in Seq(LoopFrames) /\ stack # <<>>
  BY <1>1 DEF EvaluateLoops
<1>3. Depth \in DOMAIN stack /\ Depth \in Nat \ {0} /\ Inner = stack[Depth] /\ Inner \in LoopFrames
  BY <1>2, StackPopped DEF Depth, Inner
<1>4. Inner.i \in Nat \ {0} /\ Inner.links \in Seq(KeyLinks) /\ Inner.cells \in Seq(Blocks \X Nat)
      /\ Len(Inner.links) \in Nat
  BY <1>3, FrameIs
<1>5. Len(Inner.cells) = Len(Inner.links)
      /\ \A j \in DOMAIN Inner.links : Served(label, Inner.links[j], Inner.cells[j])
  BY <1>1, <1>3 DEF EvaluateLoops
<1>6. DOMAIN Inner.links = 1..Len(Inner.links) /\ DOMAIN Inner.cells = 1..Len(Inner.links)
  BY <1>4, <1>5
<1>7. \A j \in 1..Len(Inner.links) : Inner.cells[j] \in Blocks \X Nat
  BY <1>4, <1>6
<1>8. Inner.i <= Len(Inner.links) => Inner.i \in DOMAIN Inner.links
  BY <1>4, <1>6
<1> QED
  BY <1>1, <1>2, <1>3, <1>4, <1>5, <1>6, <1>7, <1>8

(* A link is given a cell of its list, so it did not move on from the last.*)
LEMMA StaysInList ==
  ASSUME OwnsInv, NEW label, KeyRuns(label), task.op = "evaluate", Inner.i <= Len(Inner.links)
  PROVE  ~MovesPastEnd
<1> SUFFICES ASSUME Inner.i > 1, NEW from, from = Inner.cells[Inner.i - 1],
                    Inner.cells[Inner.i] = <<from[1], from[2] + 1>>, At(from).term
             PROVE  FALSE
  BY DEF MovesPastEnd
<1>1. PICK b, y : b = from[1] /\ y = from[2]
  OBVIOUS
<1>2. Inner.i \in 1..Len(Inner.links) /\ Inner.i - 1 \in 1..Len(Inner.links)
  BY EvaluateIs, SMTT(30)
<1>3. Served(label, Inner.links[Inner.i - 1], from) /\ from \in Blocks \X Nat
      /\ Served(label, Inner.links[Inner.i], <<b, y + 1>>)
  BY <1>1, <1>2, EvaluateIs
<1>4. b \in DOMAIN lists /\ y \in DOMAIN lists[b] /\ y + 1 \in DOMAIN lists[b]
  BY <1>1, <1>3 DEF Served, Reserved
<1>5. CellsAreSound(lists) /\ RootsAreCells(lists, root) /\ LastMarked(lists, root, {})
  BY CellsAre
<1>6. DOMAIN lists[b] = 1..Len(lists[b]) /\ Len(lists[b]) \in Nat
  BY <1>4, <1>5, BlockIs
<1>7. y \in Nat \ {0} /\ y + 1 <= Len(lists[b])
  BY <1>4, <1>6
<1>8. \A k \in Keys : root[k] # b
  <2> SUFFICES ASSUME NEW k \in Keys, root[k] = b
               PROVE  FALSE
    OBVIOUS
  <2>1. b # 0
    BY <1>4, <1>5, BlockIs
  <2>2. Len(lists[b]) = 1
    BY <1>5, <2>1 DEF RootsAreCells
  <2> QED
    BY <1>7, <2>2
<1>9. ~lists[b][y].term
  BY <1>4, <1>5, <1>7, <1>8 DEF LastMarked
<1>10. At(from) = lists[b][y]
  BY <1>1 DEF At
<1> QED
  BY <1>9, <1>10

LEMMA EvaluateTurned ==
  ASSUME OwnsInv, NEW label, KeyRuns(label), task.op = "evaluate"
  PROVE  EvaluateLoops(NextTurn, label)
<1>1. stack \in Seq(LoopFrames) /\ stack # <<>> /\ EvaluateLoops(stack, label) /\ Inner \in LoopFrames
      /\ Depth \in Nat \ {0} /\ Depth = Len(stack) /\ Inner = stack[Depth]
  BY EvaluateIs DEF Depth, Inner
<1>2. PICK f : f = [Inner EXCEPT !.i = @ + 1]
  OBVIOUS
<1>3. f \in LoopFrames /\ f.links = Inner.links /\ f.cells = Inner.cells
  BY <1>1, <1>2, FrameIs
<1>4. PICK st : st = NextTurn
  OBVIOUS
<1>5. st \in Seq(LoopFrames) /\ Len(st) = Depth /\ st[Depth] = f /\ \A d \in 1..(Depth - 1) : st[d] = stack[d]
  BY <1>1, <1>2, <1>3, <1>4, StackTurned
<1>6. \A d \in DOMAIN st : d \in DOMAIN stack /\ st[d].links = stack[d].links /\ st[d].cells = stack[d].cells
  BY <1>1, <1>3, <1>5
<1> QED
  BY <1>1, <1>4, <1>5, <1>6 DEF EvaluateLoops

LEMMA EvaluatePushed ==
  ASSUME NEW label, NEW st, EvaluateLoops(st, label), NEW f \in LoopFrames,
         Len(f.cells) = Len(f.links), \A j \in DOMAIN f.links : Served(label, f.links[j], f.cells[j])
  PROVE  EvaluateLoops(Append(st, f), label)
<1>1. PICK st2 : st2 = Append(st, f)
  OBVIOUS
<1>2. st \in Seq(LoopFrames)
  BY DEF EvaluateLoops
<1>3. st2 \in Seq(LoopFrames) /\ Len(st2) = Len(st) + 1 /\ st2[Len(st) + 1] = f
      /\ \A d \in 1..Len(st) : st2[d] = st[d]
  BY <1>1, <1>2, StackPushed
<1>4. \A d \in DOMAIN st2 : d = Len(st) + 1 \/ d \in 1..Len(st)
  BY <1>2, <1>3
<1>5. DOMAIN st = 1..Len(st) /\ st2 # <<>>
  BY <1>2, <1>3
<1>6. ASSUME NEW d \in DOMAIN st2
      PROVE  /\ Len(st2[d].cells) = Len(st2[d].links)
             /\ \A j \in DOMAIN st2[d].links : Served(label, st2[d].links[j], st2[d].cells[j])
  BY <1>3, <1>4, <1>5 DEF EvaluateLoops
<1> QED
  BY <1>1, <1>3, <1>5, <1>6 DEF EvaluateLoops

LEMMA EvaluateQueryRuns ==
  ASSUME OwnsInv, PlainQuery, NEW label, KeyRuns(label), NEW k \in Keys, NEW v, EvaluateQuery(k, v)
  PROVE  KeyRuns(label)'
<1>1. task.op = "none" /\ broken = "no" /\ root[k] # 0 /\ result[k] = "ok"
  BY DEF EvaluateQuery, Quiet, NoTask
<1>2. /\ keyed \in KeyedQueries /\ Owned(lists, data, root, {}) /\ Gone = {}
      /\ CellsAreSound(lists) /\ RootsAreCells(lists, root)
  BY <1>1, CellsAre
<1>3. UNCHANGED <<keyed, lists, root, result, broken>> /\ task'.op = "evaluate"
      /\ stack' = <<Loop(<<Whole>>, <<Own(k)>>)>>
  BY DEF EvaluateQuery
<1>4. PICK b, w : b = root[k] /\ w = Whole
  OBVIOUS
<1>5. b \in DOMAIN lists /\ Len(lists[b]) = 1 /\ \A j \in Keys : root[j] = b => j = k
  BY <1>1, <1>2, <1>4 DEF RootsAreCells
<1>6. 1 \in DOMAIN lists[b] /\ b \in Blocks
  BY <1>2, <1>5, BlockIs
<1>7. PICK f : f = [links |-> <<w>>, cells |-> <<<<b, 1>>>>, i |-> 1]
  OBVIOUS
<1>8. stack' = <<f>>
  BY <1>3, <1>4, <1>7 DEF Loop, Own
<1>9. w \in KeyLinks
  BY <1>2, <1>4, WholeIs
<1>10. f \in LoopFrames
  <2>1. PICK C, L : C = Seq(Blocks \X Nat) /\ L = Seq(KeyLinks)
    OBVIOUS
  <2>2. <<<<b, 1>>>> \in C
    <3>1. PICK P : P = Blocks \X Nat
      OBVIOUS
    <3>2. <<b, 1>> \in P
      BY <1>6, <3>1
    <3>3. <<<<b, 1>>>> \in Seq(P)
      BY <3>2
    <3> QED
      BY <2>1, <3>1, <3>3
  <2>3. <<w>> \in L
    BY <1>9, <2>1
  <2>4. f \in [links : L, cells : C, i : Nat \ {0}]
    BY <1>7, <2>2, <2>3
  <2> QED
    BY <2>1, <2>4 DEF LoopFrames
<1>11. Served(label, w, <<b, 1>>)
  <2>1. label[b] = <<w>>
    BY <1>1, <1>4 DEF KeyRuns, RootsLabelled
  <2>2. <<b, 1>>[1] = b /\ <<b, 1>>[2] = 1 /\ <<w>>[1] = w
    OBVIOUS
  <2> QED
    BY <1>1, <1>5, <1>6, <2>1, <2>2 DEF Served, Reserved
<1>12. PICK st : st = <<f>>
  OBVIOUS
<1>13. st \in Seq(LoopFrames) /\ st # <<>> /\ DOMAIN st = {1} /\ st[1] = f
  BY <1>10, <1>12
<1>14. DOMAIN f.links = {1} /\ f.links[1] = w /\ f.cells[1] = <<b, 1>> /\ Len(f.cells) = Len(f.links)
  BY <1>7
<1>15. EvaluateLoops(st, label)
  BY <1>11, <1>13, <1>14 DEF EvaluateLoops
<1>16. EvaluateLoops(stack', label)
  BY <1>8, <1>12, <1>15
<1>17. PICK gone : gone = Gone'
  OBVIOUS
<1> QED
  BY <1>1, <1>2, <1>3, <1>16, <1>17, ReadsOn

LEMMA EvaluateLinkRuns ==
  ASSUME OwnsInv, PlainQuery, NEW label, KeyRuns(label), EvaluateLink
  PROVE  KeyRuns(label)'
<1>1. task.op = "evaluate" /\ Inner.i <= Len(Inner.links) /\ broken = "no"
  BY DEF EvaluateLink, Runs
<1>2. PICK l, a : l = Inner.links[Inner.i] /\ a = Inner.cells[Inner.i]
  OBVIOUS
<1>3. Inner.i \in 1..Len(Inner.links)
  BY <1>1, EvaluateIs
<1>4. Served(label, l, a) /\ a \in Blocks \X Nat
  BY <1>1, <1>2, <1>3, EvaluateIs
<1>5. /\ l.kind # "call" /\ (l.kind = "typed" => Is(a, "plain"))
      /\ (Listed(l) # <<>> => Is(a, "list"))
  BY <1>1, <1>4, ServedIs
<1>6. ~MovesPastEnd
  BY <1>1, StaysInList
<1>7. PICK f : f = Loop(Listed(l) \o Forwarding(l.filter), CellsGiven(l, a))
  OBVIOUS
<1>8. /\ stack' = IF Listed(l) # <<>> THEN Append(NextTurn, f) ELSE NextTurn
      /\ UNCHANGED <<keyed, lists, root, result, task, broken>>
  BY <1>2, <1>5, <1>6, <1>7 DEF EvaluateLink
<1>9. EvaluateLoops(NextTurn, label)
  BY <1>1, EvaluateTurned
<1>10. EvaluateLoops(stack', label)
  <2>1. CASE Listed(l) # <<>>
    <3>1. /\ f \in LoopFrames /\ Len(f.cells) = Len(f.links)
          /\ \A j \in DOMAIN f.links : Served(label, f.links[j], f.cells[j])
      BY <1>1, <1>4, <1>7, <2>1, LoopServed
    <3>2. EvaluateLoops(Append(NextTurn, f), label)
      BY <1>9, <3>1, EvaluatePushed
    <3> QED
      BY <1>8, <2>1, <3>2
  <2>2. CASE Listed(l) = <<>>
    BY <1>8, <1>9, <2>2
  <2> QED
    BY <2>1, <2>2
<1>11. Gone = {}
  BY <1>1, CellsAre
<1>12. PICK gone : gone = Gone'
  OBVIOUS
<1> QED
  BY <1>1, <1>8, <1>10, <1>11, <1>12, ReadsOn

LEMMA EvaluateEndRuns ==
  ASSUME OwnsInv, NEW label, KeyRuns(label), EvaluateEnd
  PROVE  KeyRuns(label)'
<1>1. task.op = "evaluate" /\ broken = "no" /\ stack' = Outer /\ UNCHANGED <<keyed, lists, root, result, broken>>
      /\ (Depth = 1 => task' = NoTask) /\ (Depth # 1 => task' = task)
  BY DEF EvaluateEnd, Runs
<1>2. stack \in Seq(LoopFrames) /\ stack # <<>> /\ EvaluateLoops(stack, label) /\ Depth = Len(stack)
  BY <1>1, EvaluateIs DEF Depth
<1>3. PICK st : st = Outer
  OBVIOUS
<1>4. st \in Seq(LoopFrames) /\ Len(st) = Depth - 1 /\ Depth \in Nat \ {0}
      /\ \A d \in 1..(Depth - 1) : st[d] = stack[d]
  BY <1>2, <1>3, StackPopped
<1>5. \A d \in DOMAIN st : d \in DOMAIN stack /\ st[d] = stack[d]
  BY <1>2, <1>4
<1>6. Depth # 1 => EvaluateLoops(st, label)
  <2>1. Depth # 1 => st # <<>>
    BY <1>4
  <2> QED
    BY <1>2, <1>4, <1>5, <2>1 DEF EvaluateLoops
<1>7. task'.op = "evaluate" => EvaluateLoops(stack', label)
  BY <1>1, <1>3, <1>6 DEF NoTask
<1>8. task'.op # "reserve" /\ task'.op # "copy"
  BY <1>1 DEF NoTask
<1>9. Gone = {}
  BY <1>1, CellsAre
<1>10. PICK gone : gone = Gone'
  OBVIOUS
<1> QED
  BY <1>1, <1>7, <1>8, <1>9, <1>10, ReadsOn

-----------------------------------------------------------------------------
(* The two lists of a loop of a copy are of one shape, and the loop ends   *)
(* where they do.                                                          *)
LEMMA CopyIs ==
  ASSUME OwnsInv, NEW label, KeyRuns(label), task.op = "copy"
  PROVE  /\ stack \in Seq(CopyFrames) /\ stack # <<>> /\ CopyLoops(stack, label)
         /\ Depth \in Nat \ {0} /\ Depth = Len(stack) /\ Inner = stack[Depth] /\ Inner \in CopyFrames
         /\ Inner.i \in Nat \ {0}
         /\ Reserved(Inner.to) /\ Reserved(Inner.from) /\ label[Inner.to] = label[Inner.from]
         /\ ~PassedLast(Inner.from) => Inner.i \in DOMAIN lists[Inner.from] /\ Inner.i \in DOMAIN lists[Inner.to]
<1>1. CopyLoops(stack, label)
  BY DEF KeyRuns
<1>2. stack \in Seq(CopyFrames) /\ stack # <<>>
  BY <1>1 DEF CopyLoops
<1>3. Depth \in DOMAIN stack /\ Depth \in Nat \ {0} /\ Inner = stack[Depth] /\ Inner \in CopyFrames /\ Depth = Len(stack)
  BY <1>2, StackPopped DEF Depth, Inner
<1>4. Inner.i \in Nat \ {0} /\ Inner.from \in Blocks
  BY <1>3 DEF CopyFrames
<1>5. PICK b, c, i : b = Inner.from /\ c = Inner.to /\ i = Inner.i
  OBVIOUS
<1>6. /\ Reserved(c) /\ Reserved(b) /\ label[c] = label[b] /\ i <= Len(lists[b]) + 1
      /\ (Depth > 1 => \A k \in Keys : root[k] # b)
  BY <1>1, <1>3, <1>5 DEF CopyLoops
<1>7. CellsAreSound(lists) /\ LastMarked(lists, root, {})
  BY CellsAre
<1>8. b \in DOMAIN lists /\ c \in DOMAIN lists
  BY <1>6 DEF Reserved
<1>9. /\ DOMAIN lists[b] = 1..Len(lists[b]) /\ Len(lists[b]) \in Nat /\ 1 \in DOMAIN lists[b]
      /\ DOMAIN lists[c] = 1..Len(lists[c])
  BY <1>7, <1>8, BlockIs
<1>10. Len(lists[b]) = Len(lists[c])
  BY <1>6, <1>8 DEF KeyRuns, Shape
<1>11. ~PassedLast(b) => i \in DOMAIN lists[b]
  <2> SUFFICES ASSUME ~PassedLast(b), i \notin DOMAIN lists[b]
               PROVE  FALSE
    OBVIOUS
  <2>1. i = Len(lists[b]) + 1 /\ i > 1
    BY <1>4, <1>5, <1>6, <1>9
  <2>2. Depth # 1 /\ ~lists[b][i - 1].term
    BY <1>5, <2>1 DEF PassedLast
  <2>3. \A k \in Keys : root[k] # b
    BY <1>3, <1>6, <2>2
  <2>4. i - 1 \in DOMAIN lists[b] /\ i - 1 = Len(lists[b])
    BY <1>9, <2>1
  <2> QED
    BY <1>7, <1>8, <2>2, <2>3, <2>4 DEF LastMarked
<1> QED
  BY <1>1, <1>2, <1>3, <1>4, <1>5, <1>6, <1>9, <1>10, <1>11

LEMMA CopyKeyRuns ==
  ASSUME OwnsInv, NEW label, KeyRuns(label), NEW k \in Keys, NEW from \in Keys, CopyKey(k, from)
  PROVE  KeyRuns(label)'
<1>1. task.op = "none" /\ broken = "no" /\ \A x \in {k, from} : root[x] # 0 /\ result[x] = "ok"
  BY DEF CopyKey, Quiet, NoTask
<1>2. Gone = {} /\ CellsAreSound(lists) /\ RootsAreCells(lists, root)
  BY <1>1, CellsAre
<1>3. UNCHANGED <<keyed, lists, root, result, broken>> /\ task'.op = "copy"
      /\ stack' = <<[to |-> root[k], from |-> root[from], i |-> 1]>>
  BY DEF CopyKey
<1>4. PICK f, st : f = [to |-> root[k], from |-> root[from], i |-> 1] /\ st = <<f>>
  OBVIOUS
<1>5. ASSUME NEW x \in {k, from}
      PROVE  Reserved(root[x]) /\ root[x] \in Blocks /\ label[root[x]] = <<Whole>> /\ Len(lists[root[x]]) = 1
  <2>1. x \in Keys /\ root[x] \in DOMAIN lists /\ Len(lists[root[x]]) = 1
        /\ \A j \in Keys : root[j] = root[x] => j = x
    BY <1>1, <1>2 DEF RootsAreCells
  <2>2. root[x] \in Blocks
    BY <1>2, <2>1, BlockIs
  <2>3. label[root[x]] = <<Whole>>
    BY <1>1, <2>1 DEF KeyRuns, RootsLabelled
  <2> QED
    BY <1>1, <2>1, <2>2, <2>3 DEF Reserved
<1>6. f \in CopyFrames
  BY <1>4, <1>5 DEF CopyFrames
<1>7. st \in Seq(CopyFrames) /\ st # <<>> /\ DOMAIN st = {1} /\ st[1] = f
  BY <1>4, <1>6
<1>8. CopyLoops(st, label)
  BY <1>4, <1>5, <1>7 DEF CopyLoops
<1>9. PICK gone : gone = Gone'
  OBVIOUS
<1>10. CopyLoops(stack', label)
  BY <1>3, <1>4, <1>8
<1> QED
  BY <1>1, <1>2, <1>3, <1>9, <1>10, ReadsOn

LEMMA CopyTurned ==
  ASSUME OwnsInv, NEW label, KeyRuns(label), task.op = "copy", ~PassedLast(Inner.from)
  PROVE  /\ CopyLoops(NextTurn, label)
<1>1. /\ stack \in Seq(CopyFrames) /\ stack # <<>> /\ CopyLoops(stack, label)
      /\ Depth \in Nat \ {0} /\ Depth = Len(stack) /\ Inner = stack[Depth] /\ Inner \in CopyFrames
      /\ Inner.i \in Nat \ {0} /\ Inner.i \in DOMAIN lists[Inner.from] /\ Inner.from \in DOMAIN lists
  BY CopyIs DEF Reserved
<1>2. PICK f : f = [Inner EXCEPT !.i = @ + 1]
  OBVIOUS
<1>3. f \in CopyFrames /\ f.to = Inner.to /\ f.from = Inner.from /\ f.i = Inner.i + 1
  BY <1>1, <1>2 DEF CopyFrames
<1>4. PICK st : st = NextTurn
  OBVIOUS
<1>5. st \in Seq(CopyFrames) /\ Len(st) = Depth /\ st[Depth] = f /\ \A d \in 1..(Depth - 1) : st[d] = stack[d]
  BY <1>1, <1>2, <1>3, <1>4, StackTurned
<1>6. f.i <= Len(lists[f.from]) + 1
  <2>1. CellsAreSound(lists)
    BY CellsAre
  <2>2. DOMAIN lists[Inner.from] = 1..Len(lists[Inner.from]) /\ Len(lists[Inner.from]) \in Nat
    BY <1>1, <2>1, BlockIs
  <2> QED
    BY <1>1, <1>3, <2>2
<1>7. \A d \in DOMAIN st : /\ d \in DOMAIN stack /\ st[d].to = stack[d].to /\ st[d].from = stack[d].from
                           /\ d = Depth \/ st[d] = stack[d]
  BY <1>1, <1>3, <1>5
<1>8. st # <<>> /\ 1 \in DOMAIN st
  BY <1>1, <1>5
<1>9. ASSUME NEW d \in DOMAIN st
      PROVE  st[d].i <= Len(lists[st[d].from]) + 1
  BY <1>1, <1>5, <1>6, <1>7 DEF CopyLoops
<1>10. CopyLoops(st, label)
  BY <1>1, <1>5, <1>7, <1>8, <1>9 DEF CopyLoops
<1> QED
  BY <1>4, <1>10

LEMMA CopyPushed ==
  ASSUME NEW label, NEW st, CopyLoops(st, label), NEW f \in CopyFrames,
         Reserved(f.to), Reserved(f.from), label[f.to] = label[f.from], f.i <= Len(lists[f.from]) + 1,
         \A k \in Keys : root[k] # f.from
  PROVE  CopyLoops(Append(st, f), label)
<1>1. PICK st2 : st2 = Append(st, f)
  OBVIOUS
<1>2. st \in Seq(CopyFrames) /\ st # <<>>
  BY DEF CopyLoops
<1>3. st2 \in Seq(CopyFrames) /\ Len(st2) = Len(st) + 1 /\ st2[Len(st) + 1] = f
      /\ \A d \in 1..Len(st) : st2[d] = st[d]
  BY <1>1, <1>2, StackPushed
<1>4. \A d \in DOMAIN st2 : d = Len(st) + 1 \/ d \in 1..Len(st)
  BY <1>2, <1>3
<1>5. DOMAIN st = 1..Len(st) /\ st2 # <<>> /\ st2[1] = st[1]
  BY <1>2, <1>3
<1>6. ASSUME NEW d \in DOMAIN st2
      PROVE  /\ Reserved(st2[d].to) /\ Reserved(st2[d].from)
             /\ label[st2[d].to] = label[st2[d].from]
             /\ st2[d].i <= Len(lists[st2[d].from]) + 1
             /\ d > 1 => \A k \in Keys : root[k] # st2[d].from
  BY <1>3, <1>4, <1>5 DEF CopyLoops
<1> QED
  BY <1>1, <1>3, <1>5, <1>6 DEF CopyLoops

LEMMA CopyCellRuns ==
  ASSUME OwnsInv, PlainQuery, NEW label, KeyRuns(label), CopyCell
  PROVE  KeyRuns(label)'
<1>1. task.op = "copy" /\ ~PassedLast(Inner.from) /\ broken = "no"
  BY DEF CopyCell, Runs
<1>2. PICK b, c, i : b = Inner.from /\ c = Inner.to /\ i = Inner.i
  OBVIOUS
<1>3. Reserved(b) /\ Reserved(c) /\ label[c] = label[b] /\ i \in DOMAIN lists[b] /\ i \in DOMAIN lists[c]
      /\ b \in DOMAIN lists /\ c \in DOMAIN lists
  BY <1>1, <1>2, CopyIs DEF Reserved
<1>4. PICK s, d, l : s = lists[b][i] /\ d = lists[c][i] /\ l = label[b][i]
  OBVIOUS
<1>5. PlainLink(l) /\ Fitting(label, s, l) /\ SoundCell(s) /\ Fitting(label, d, l) /\ SoundCell(d)
  BY <1>1, <1>3, <1>4, CellFits
<1>6. s.pl = d.pl /\ s.code = d.code /\ (s.pl = "plain" /\ s.code # 0 => s.ptr # 0 /\ d.ptr # 0)
      /\ (s.pl = "list" => label[d.ptr] = label[s.ptr])
  BY <1>5 DEF Fitting, SoundCell
<1>7. At(<<Inner.to, Inner.i>>) = d /\ At(<<Inner.from, Inner.i>>) = s
  BY <1>2, <1>4 DEF At
<1>8. PICK f : f = [to |-> d.ptr, from |-> s.ptr, i |-> 1]
  OBVIOUS
<1>9. /\ stack' = IF s.pl = "list" THEN Append(NextTurn, f) ELSE NextTurn
      /\ UNCHANGED <<keyed, lists, root, result, task, broken>>
  BY <1>6, <1>7, <1>8 DEF CopyCell
<1>10. CopyLoops(NextTurn, label)
  BY <1>1, CopyTurned
<1>11. CopyLoops(stack', label)
  <2>1. CASE s.pl = "list"
    <3>1. PICK x, y : x = s.ptr /\ y = d.ptr
      OBVIOUS
    <3>2. x \in Blocks /\ Reserved(x) /\ (\A k \in Keys : root[k] # x) /\ lists[x] # <<>>
      BY <1>1, <1>3, <1>4, <2>1, <3>1, ListFits
    <3>3. y \in Blocks /\ Reserved(y)
      BY <1>1, <1>3, <1>4, <1>6, <2>1, <3>1, ListFits
    <3>4. f \in CopyFrames /\ f.to = y /\ f.from = x /\ f.i = 1
      BY <1>8, <3>1, <3>2, <3>3 DEF CopyFrames
    <3>5. Len(lists[x]) \in Nat
      <4>1. CellsAreSound(lists) /\ x \in DOMAIN lists
        BY <1>1, <3>2, CellsAre DEF Reserved
      <4> QED
        BY <4>1, BlockIs
    <3>6. CopyLoops(Append(NextTurn, f), label)
      BY <1>6, <1>10, <2>1, <3>1, <3>2, <3>3, <3>4, <3>5, CopyPushed
    <3> QED
      BY <1>9, <2>1, <3>6
  <2>2. CASE s.pl # "list"
    BY <1>9, <1>10, <2>2
  <2> QED
    BY <2>1, <2>2
<1>12. Gone = {}
  BY <1>1, CellsAre
<1>13. PICK gone : gone = Gone'
  OBVIOUS
<1> QED
  BY <1>1, <1>9, <1>11, <1>12, <1>13, ReadsOn

LEMMA CopyEndRuns ==
  ASSUME OwnsInv, NEW label, KeyRuns(label), CopyEnd
  PROVE  KeyRuns(label)'
<1>1. task.op = "copy" /\ broken = "no" /\ stack' = Outer /\ UNCHANGED <<keyed, lists, root, result, broken>>
      /\ (Depth = 1 => task' = NoTask) /\ (Depth # 1 => task' = task)
  BY DEF CopyEnd, Runs
<1>2. stack \in Seq(CopyFrames) /\ stack # <<>> /\ CopyLoops(stack, label) /\ Depth = Len(stack)
  BY <1>1, CopyIs
<1>3. PICK st : st = Outer
  OBVIOUS
<1>4. st \in Seq(CopyFrames) /\ Len(st) = Depth - 1 /\ Depth \in Nat \ {0}
      /\ \A d \in 1..(Depth - 1) : st[d] = stack[d]
  BY <1>2, <1>3, StackPopped
<1>5. \A d \in DOMAIN st : d \in DOMAIN stack /\ st[d] = stack[d]
  BY <1>2, <1>4
<1>6. Depth # 1 => CopyLoops(st, label)
  <2>1. Depth # 1 => st # <<>> /\ st[1] = stack[1]
    BY <1>4
  <2> QED
    BY <1>2, <1>4, <1>5, <2>1 DEF CopyLoops
<1>7. task'.op = "copy" => CopyLoops(stack', label)
  BY <1>1, <1>3, <1>6 DEF NoTask
<1>8. task'.op # "reserve" /\ task'.op # "evaluate"
  BY <1>1 DEF NoTask
<1>9. Gone = {}
  BY <1>1, CellsAre
<1>10. PICK gone : gone = Gone'
  OBVIOUS
<1> QED
  BY <1>1, <1>7, <1>8, <1>9, <1>10, ReadsOn

-----------------------------------------------------------------------------
(* Walks: what was visited only grows, but for a list that is freed.       *)
LEMMA GoneGrows ==
  ASSUME task' = task, stack \in Seq(WalkFrames), NEW st \in Seq(WalkFrames), stack' = st,
         \A d \in DOMAIN stack : d \in DOMAIN st /\ st[d].list = stack[d].list /\ stack[d].i <= st[d].i,
         NEW gone, Gone' = gone, NEW b, NEW i, <<b, i>> \in Gone
  PROVE  <<b, i>> \in gone
<1>1. task.op = "destroy" /\ task'.op = "destroy"
  BY DEF Gone
<1>2. <<b, i>> \in Blocks \X Nat
      /\ \E d \in DOMAIN stack : stack[d].list = b /\ i \in 1..(stack[d].i - 1)
  BY <1>1 DEF Gone
<1>3. PICK d \in DOMAIN stack : stack[d].list = b /\ i \in 1..(stack[d].i - 1)
  BY <1>2
<1>4. stack[d].i \in Nat /\ st[d].i \in Nat /\ d \in DOMAIN st
  <2>1. stack[d] \in WalkFrames /\ st[d] \in WalkFrames /\ d \in DOMAIN st
    OBVIOUS
  <2> QED
    BY <2>1 DEF WalkFrames
<1>5. i \in 1..(st[d].i - 1) /\ st[d].list = b
  BY <1>3, <1>4
<1>6. gone = {a \in Blocks \X Nat : \E x \in DOMAIN st : st[x].list = a[1] /\ a[2] \in 1..(st[x].i - 1)}
  BY <1>1 DEF Gone
<1> QED
  BY <1>2, <1>4, <1>5, <1>6

LEMMA WalkStartRuns ==
  ASSUME OwnsInv, NEW label, KeyRuns(label), NEW k \in Keys, FlatView(k) \/ DestroyKey(k)
  PROVE  KeyRuns(label)'
<1>1. task.op = "none" /\ broken = "no" /\ UNCHANGED <<keyed, lists, root, result, broken>>
      /\ task'.op \in {"view", "destroy"}
  BY DEF FlatView, DestroyKey, Quiet, NoTask
<1>2. Gone = {}
  BY <1>1, CellsAre
<1>3. PICK gone : gone = Gone'
  OBVIOUS
<1> QED
  BY <1>1, <1>2, <1>3, ReadsOn

LEMMA ViewEndRuns ==
  ASSUME OwnsInv, NEW label, KeyRuns(label), ViewEnd
  PROVE  KeyRuns(label)'
<1>1. task.op = "view" /\ broken = "no" /\ UNCHANGED <<keyed, lists, root, result, broken>>
      /\ task'.op = "none"
  BY DEF ViewEnd, Runs, NoTask
<1>2. Gone = {}
  BY <1>1, CellsAre
<1>3. PICK gone : gone = Gone'
  OBVIOUS
<1> QED
  BY <1>1, <1>2, <1>3, ReadsOn

LEMMA WalkCellRuns ==
  ASSUME OwnsInv, OwnsInv', NEW label, KeyRuns(label), WalkCell
  PROVE  KeyRuns(label)'
<1>1. /\ Walking /\ UNCHANGED <<keyed, root, result>> /\ broken' # "memory"
      /\ task.op \in {"view", "destroy"} /\ broken = "no"
  BY DEF WalkCell, Walking, Runs, OwnsInv
<1>2. PICK a : a = <<Inner.list, Inner.i>>
  OBVIOUS
<1>3. UNCHANGED <<lists, task>> /\ broken' = "no"
      /\ stack' \in {Append(stack, [list |-> At(a).ptr, i |-> 1]), NextTurn}
      /\ stack' = (IF At(a).pl = "list" THEN Append(stack, [list |-> At(a).ptr, i |-> 1]) ELSE NextTurn)
  <2>1. Readable(a)
    BY <1>1, <1>2 DEF WalkCell, Break
  <2>2. CASE At(a).pl = "list"
    BY <1>1, <1>2, <2>1, <2>2 DEF WalkCell
  <2>3. CASE At(a).pl # "list"
    <3>1. CallBack(a) /\ stack' = NextTurn /\ task' = task
      BY <1>2, <2>1, <2>3 DEF WalkCell
    <3>2. lists' = lists /\ (broken' = broken \/ broken' = "memory")
      BY <2>3, <3>1 DEF CallBack
    <3> QED
      BY <1>1, <2>3, <3>1, <3>2
  <2> QED
    BY <2>2, <2>3
<1>4. stack \in Seq(WalkFrames) /\ stack # <<>> /\ Depth \in Nat \ {0} /\ Depth = Len(stack)
      /\ Inner \in WalkFrames /\ Inner = stack[Depth]
  BY <1>1, WalkIs DEF WalkLoops
<1>5. PICK st : st = stack'
  OBVIOUS
<1>6. st \in Seq(WalkFrames)
  <2>1. WalkLoops'
    BY <1>1, <1>3 DEF OwnsInv
  <2> QED
    BY <1>5, <2>1 DEF WalkLoops
<1>7. \A d \in DOMAIN stack : d \in DOMAIN st /\ st[d].list = stack[d].list /\ stack[d].i <= st[d].i
  <2>1. \A d \in DOMAIN stack : stack[d].i \in Nat
    <3>1. \A d \in DOMAIN stack : stack[d] \in WalkFrames
      BY <1>4
    <3> QED
      BY <3>1 DEF WalkFrames
  <2>2. CASE At(a).pl = "list"
    <3>1. PICK f : f = [list |-> At(a).ptr, i |-> 1]
      OBVIOUS
    <3>2. st = Append(stack, f)
      BY <1>3, <1>5, <2>2, <3>1
    <3>3. \A d \in DOMAIN stack : d \in DOMAIN st /\ st[d] = stack[d]
      BY <1>4, <3>2
    <3> QED
      BY <2>1, <3>3
  <2>3. CASE At(a).pl # "list"
    <3>1. st = NextTurn
      BY <1>3, <1>5, <2>3
    <3>2. PICK f : f = [Inner EXCEPT !.i = @ + 1]
      OBVIOUS
    <3>3. f \in WalkFrames /\ f.list = Inner.list /\ f.i = Inner.i + 1 /\ Inner.i \in Nat
      BY <1>4, <3>2 DEF WalkFrames
    <3>4. Len(st) = Depth /\ st[Depth] = f /\ \A d \in 1..(Depth - 1) : st[d] = stack[d]
      BY <1>4, <3>1, <3>2, <3>3, StackTurned
    <3> QED
      BY <1>4, <1>6, <2>1, <3>3, <3>4
  <2> QED
    BY <2>2, <2>3
<1>8. PICK gone : gone = Gone'
  OBVIOUS
<1>9. \A b, i : <<b, i>> \in Gone => <<b, i>> \in gone
  BY <1>3, <1>4, <1>5, <1>6, <1>7, <1>8, GoneGrows
<1> QED
  BY <1>1, <1>3, <1>8, <1>9, ReadsOn

LEMMA WalkUpRuns ==
  ASSUME OwnsInv, OwnsInv', NEW label, KeyRuns(label), WalkUp
  PROVE  KeyRuns(label)'
<1>1. /\ Walking /\ Depth > 1 /\ PassedLast(Inner.list) /\ stack' = OuterTurned
      /\ CallBack(<<stack[Depth - 1].list, stack[Depth - 1].i>>) /\ UNCHANGED <<keyed, root, result, task>>
      /\ broken = "no" /\ broken' # "memory" /\ task.op \in {"view", "destroy"}
  BY DEF WalkUp, OuterTurned, OwnsInv, Walking, Runs
<1>2. PICK st, m : st = OuterTurned /\ m = Depth - 1
  OBVIOUS
<1>3. PICK b, i, n : b = stack[m].list /\ i = stack[m].i /\ n = Inner.list
  OBVIOUS
<1>4. Depth \in DOMAIN stack /\ Depth = Len(stack) /\ Inner = stack[Depth]
  <2>1. Depth = Len(stack) /\ Depth \in Nat \ {0} /\ Inner = stack[Depth] /\ stack \in Seq(WalkFrames)
    BY <1>1, WalkIs
  <2> QED
    BY <2>1
<1>5. lists[b][i].pl = "list" /\ lists[b][i].ptr = n
  BY <1>1, <1>2, <1>3, <1>4, WalkParent
<1>6. /\ lists' = IF task.op = "destroy" THEN Without(lists, n) ELSE lists
      /\ broken' = "no"
  <2>1. At(<<b, i>>) = lists[b][i]
    BY DEF At
  <2>2. CallBack(<<b, i>>)
    BY <1>1, <1>2, <1>3
  <2> QED
    BY <1>1, <1>5, <2>1, <2>2 DEF CallBack
<1>7. CASE task.op = "view"
  <2>1. Gone = {} /\ lists' = lists
    BY <1>6, <1>7 DEF Gone
  <2>2. PICK gone : gone = Gone'
    OBVIOUS
  <2> QED
    BY <1>1, <1>6, <1>7, <2>1, <2>2, ReadsOn
<1>8. CASE task.op = "destroy"
  <2>1. PICK ls, gone, rs : ls = lists' /\ gone = Gone' /\ rs = root
    OBVIOUS
  <2>2. \A x \in DOMAIN ls : x \in DOMAIN lists /\ x # n /\ ls[x] = lists[x]
    BY <1>6, <1>8, <2>1 DEF Without
  <2>3. gone = VisitedBy(st)
    BY <1>1, <1>2, <1>8, <2>1 DEF Gone, VisitedBy
  <2>4. \A x, y : x # n => (<<x, y>> \in gone <=> <<x, y>> \in Gone \/ (x = b /\ y = i))
    BY <1>1, <1>2, <1>3, <1>8, <2>3, GoneLeft
  <2>5. \A x, y : x \in DOMAIN ls /\ <<x, y>> \in Gone => <<x, y>> \in gone
    BY <2>2, <2>4
  <2>6. CellsAreSound(lists)
    BY DEF OwnsInv, Owned
  <2>7. PICK wait : wait = Waiting'
    OBVIOUS
  <2>8. ASSUME NEW x \in DOMAIN ls, NEW y \in DOMAIN ls[x]
        PROVE  <<x, y>> \in wait <=> <<x, y>> \in Waiting
    <3>1. x \in DOMAIN lists /\ ls[x] = lists[x]
      BY <2>2
    <3>2. x \in Blocks /\ y \in Nat
      BY <2>6, <3>1, BlockIs
    <3>3. PICK res : res = result
      OBVIOUS
    <3>4. task.op # "reserve" /\ task'.op # "reserve" /\ root' = rs /\ result' = res /\ root = rs
      BY <1>1, <1>8, <2>1, <3>3
    <3>5. \A k \in Keys : rs[k] = x /\ res[k] = "none" <=> root[k] = x /\ result[k] = "none"
      BY <2>1, <3>3
    <3> QED
      BY <2>7, <3>2, <3>4, <3>5, WaitingKept
  <2>9. /\ task'.op \notin {"reserve", "evaluate", "copy"} /\ root' = rs
        /\ \A k \in Keys : rs[k] # 0 => rs[k] = root[k]
        /\ result' \in [Keys -> {"none", "ok"}] /\ \A k \in Keys : rs[k] = 0 => result'[k] = "none"
    BY <1>1, <1>8, <2>1 DEF KeyRuns
  <2>10. keyed' = keyed /\ broken' = "no" /\ lists' = ls /\ Gone' = gone /\ Waiting' = wait
    BY <1>1, <1>6, <2>1, <2>7
  <2>11. \A x \in DOMAIN ls : x \in DOMAIN lists /\ ls[x] = lists[x]
    BY <2>2
  <2> QED
    BY <2>5, <2>8, <2>9, <2>10, <2>11, StillRuns
<1> QED
  BY <1>1, <1>7, <1>8

LEMMA DestroyEndRuns ==
  ASSUME OwnsInv, NEW label, KeyRuns(label), DestroyEnd
  PROVE  KeyRuns(label)'
<1>1. /\ Walking /\ Depth = 1 /\ task.op = "destroy" /\ broken = "no" /\ UNCHANGED <<keyed, broken>>
      /\ task' = NoTask /\ lists' = Without(lists, Inner.list) /\ root' = [root EXCEPT ![task.key] = 0]
      /\ result' = [result EXCEPT ![task.key] = "none"]
  BY DEF DestroyEnd, Walking, Runs
<1>2. /\ WalkLoops /\ Inner = stack[1] /\ DOMAIN stack = {1} /\ task.key \in Keys /\ root[task.key] # 0
      /\ Owned(lists, data, root, Gone)
  <2>1. /\ Depth = Len(stack) /\ stack \in Seq(WalkFrames) /\ Inner = stack[Depth] /\ WalkLoops
        /\ Owned(lists, data, root, Gone) /\ task.key \in Keys /\ root[task.key] # 0
    BY <1>1, WalkIs
  <2>2. DOMAIN stack = 1..1
    BY <1>1, <2>1
  <2>3. 1..1 = {1}
    OBVIOUS
  <2> QED
    BY <1>1, <2>1, <2>2, <2>3
<1>3. PICK k : k = task.key
  OBVIOUS
<1>4. PICK n : n = root[k]
  OBVIOUS
<1>5. Inner.list = n /\ n # 0 /\ k \in Keys
  BY <1>2, <1>3, <1>4 DEF WalkLoops
<1>6. PICK ls, rs, res : ls = lists' /\ rs = root' /\ res = result'
  OBVIOUS
<1>7. /\ root \in [Keys -> Blocks \cup {0}] /\ CellsAreSound(lists)
      /\ \A j \in Keys : root[j] = n => j = k
  BY <1>2, <1>4, <1>5 DEF Owned, RootsAreCells
<1>8. rs[k] = 0 /\ \A j \in Keys : j # k => rs[j] = root[j]
  BY <1>1, <1>3, <1>5, <1>6, <1>7
<1>9. result \in [Keys -> {"none", "ok"}] /\ \A j \in Keys : root[j] = 0 => result[j] = "none"
  BY DEF KeyRuns
<1>10. /\ res \in [Keys -> {"none", "ok"}] /\ res[k] = "none" /\ \A j \in Keys : j # k => res[j] = result[j]
  BY <1>1, <1>3, <1>5, <1>6, <1>9
<1>11. \A x \in DOMAIN ls : x \in DOMAIN lists /\ x # n /\ ls[x] = lists[x]
  BY <1>1, <1>5, <1>6 DEF Without
<1>12. PICK gone, wait : gone = Gone' /\ wait = Waiting'
  OBVIOUS
<1>13. \A x, y : x \in DOMAIN ls /\ <<x, y>> \in Gone => <<x, y>> \in gone
  <2>1. \A x, y : <<x, y>> \in Gone => x = n
    <3>1. \A a \in Gone : \E d \in DOMAIN stack : stack[d].list = a[1]
      BY <1>1 DEF Gone
    <3>2. \A d \in DOMAIN stack : stack[d].list = n
      BY <1>2, <1>5
    <3> QED
      BY <3>1, <3>2
  <2> QED
    BY <1>11, <2>1
<1>14. ASSUME NEW x \in DOMAIN ls, NEW y \in DOMAIN ls[x]
       PROVE  <<x, y>> \in wait <=> <<x, y>> \in Waiting
  <2>1. x \in DOMAIN lists /\ x # n /\ ls[x] = lists[x]
    BY <1>11
  <2>2. x \in Blocks /\ y \in Nat /\ x # 0
    BY <1>7, <2>1, BlockIs
  <2>3. task.op # "reserve" /\ task'.op # "reserve" /\ root' = rs /\ result' = res
    BY <1>1, <1>6 DEF NoTask
  <2>4. \A j \in Keys : rs[j] = x /\ res[j] = "none" <=> root[j] = x /\ result[j] = "none"
    BY <1>4, <1>8, <1>10, <2>1, <2>2
  <2> QED
    BY <1>12, <2>2, <2>3, <2>4, WaitingKept
<1>15. /\ task'.op \notin {"reserve", "evaluate", "copy"}
       /\ \A j \in Keys : rs[j] # 0 => rs[j] = root[j]
       /\ result' \in [Keys -> {"none", "ok"}] /\ \A j \in Keys : rs[j] = 0 => result'[j] = "none"
  BY <1>1, <1>6, <1>8, <1>9, <1>10 DEF NoTask
<1>16. keyed' = keyed /\ broken' = "no" /\ lists' = ls /\ root' = rs /\ Gone' = gone /\ Waiting' = wait
  BY <1>1, <1>6, <1>12
<1>17. \A x \in DOMAIN ls : x \in DOMAIN lists /\ ls[x] = lists[x]
  BY <1>11
<1> QED
  BY <1>13, <1>14, <1>15, <1>16, <1>17, StillRuns

-----------------------------------------------------------------------------
(* Reservations: cells that change their state, and blocks that come.      *)
LEMMA ShapeStep ==
  ASSUME NEW label, NEW ls, NEW gone, NEW wait, Shape(label, ls, gone, wait), NEW ls2, NEW wait2,
         \A x \in DOMAIN ls2 : Len(ls2[x]) = Len(label[x]),
         \A x \in DOMAIN ls2 : \A y \in DOMAIN ls2[x] :
           \/ /\ x \in DOMAIN ls /\ y \in DOMAIN ls[x] /\ ls2[x][y] = ls[x][y]
              /\ <<x, y>> \in wait2 <=> <<x, y>> \in wait
           \/ <<x, y>> \in wait2 /\ ls2[x][y].pl = "plain" /\ ls2[x][y].code = 0
           \/ <<x, y>> \notin wait2 /\ (<<x, y>> \notin gone => Fitting(label, ls2[x][y], label[x][y]))
  PROVE  Shape(label, ls2, gone, wait2)
BY DEF Shape

(* A block that is not in use may be labelled.                             *)
Labelled(label, n, links) == [label EXCEPT ![n] = links]

LEMMA LabelAdded ==
  ASSUME NEW label, NEW ls, NEW ds, NEW rs, Owned(ls, ds, rs, {}), NEW wait, Shape(label, ls, {}, wait),
         LabelsArePlain(label), RootsLabelled(label, rs),
         NEW n \in Blocks, n \notin DOMAIN ls,
         NEW links \in Seq(KeyLinks), \A j \in DOMAIN links : PlainLink(links[j]),
         NEW label2, label2 = Labelled(label, n, links)
  PROVE  /\ LabelsArePlain(label2) /\ RootsLabelled(label2, rs) /\ Shape(label2, ls, {}, wait)
         /\ label2[n] = links /\ \A x \in Blocks : x # n => label2[x] = label[x]
<1>1. label \in [Blocks -> Seq(KeyLinks)] /\ \A x \in Blocks : \A j \in DOMAIN label[x] : PlainLink(label[x][j])
  BY DEF LabelsArePlain
<1>2. label2 \in [Blocks -> Seq(KeyLinks)] /\ label2[n] = links /\ \A x \in Blocks : x # n => label2[x] = label[x]
  <2>1. PICK L : L = Seq(KeyLinks)
    OBVIOUS
  <2> QED
    BY <1>1, <2>1 DEF Labelled
<1>3. LabelsArePlain(label2)
  BY <1>1, <1>2 DEF LabelsArePlain
<1>4. CellsAreSound(ls) /\ RootsAreCells(ls, rs)
  BY DEF Owned
<1>5. RootsLabelled(label2, rs)
  <2> SUFFICES ASSUME NEW k \in Keys, rs[k] # 0
               PROVE  label2[rs[k]] = <<Whole>>
    BY DEF RootsLabelled
  <2>1. rs[k] \in DOMAIN ls /\ rs[k] # n /\ rs[k] \in Blocks
    BY <1>4 DEF RootsAreCells
  <2> QED
    BY <1>2, <2>1 DEF RootsLabelled
<1>6. ASSUME NEW b \in DOMAIN ls, NEW i \in DOMAIN ls[b]
      PROVE  /\ Len(ls[b]) = Len(label2[b])
             /\ <<b, i>> \in wait => ls[b][i].pl = "plain" /\ ls[b][i].code = 0
             /\ <<b, i>> \notin wait => Fitting(label2, ls[b][i], label2[b][i])
  <2>1. b \in Blocks /\ b # n /\ label2[b] = label[b] /\ SoundCell(ls[b][i])
    BY <1>2, <1>4, BlockIs
  <2>2. /\ Len(ls[b]) = Len(label[b])
        /\ <<b, i>> \in wait => ls[b][i].pl = "plain" /\ ls[b][i].code = 0
        /\ <<b, i>> \notin wait => Fitting(label, ls[b][i], label[b][i])
    BY DEF Shape
  <2>3. ls[b][i].pl = "list" => label2[ls[b][i].ptr] = label[ls[b][i].ptr]
    <3> SUFFICES ASSUME ls[b][i].pl = "list"
                 PROVE  label2[ls[b][i].ptr] = label[ls[b][i].ptr]
      OBVIOUS
    <3>1. Owning(ls, {}, b, i)
      BY <2>1 DEF Owning, SoundCell
    <3>2. ls[b][i].ptr \in DOMAIN ls
      BY <3>1 DEF Owned, PointToLive
    <3>3. ls[b][i].ptr \in Blocks
      BY <1>4, <3>2, BlockIs
    <3> QED
      BY <1>2, <3>2, <3>3
  <2> QED
    BY <2>1, <2>2, <2>3 DEF Fitting
<1>7. ASSUME NEW b \in DOMAIN ls
      PROVE  Len(ls[b]) = Len(label2[b])
  <2>1. b \in Blocks /\ b # n
    BY <1>4, BlockIs
  <2> QED
    BY <1>2, <2>1 DEF Shape
<1>8. Shape(label2, ls, {}, wait)
  BY <1>6, <1>7 DEF Shape
<1> QED
  BY <1>2, <1>3, <1>5, <1>8

(* A new key waits.                                                        *)
LEMMA NewKeyRuns ==
  ASSUME OwnsInv, PlainQuery, NEW label, KeyRuns(label), NEW k \in Keys, NewKey(k)
  PROVE  \E label2 : KeyRuns(label2)'
<1>1. task.op = "none" /\ broken = "no" /\ root[k] = 0 /\ Free # {}
  BY DEF NewKey, Quiet, NoTask
<1>2. /\ Owned(lists, data, root, {}) /\ Gone = {} /\ keyed \in KeyedQueries
      /\ CellsAreSound(lists) /\ RootsAreCells(lists, root)
  BY <1>1, CellsAre
<1>3. PICK n, w : n = Fresh /\ w = Whole
  OBVIOUS
<1>4. n \in Blocks /\ n \notin DOMAIN lists /\ n # 0
  BY <1>1, <1>3, FreshIsFree DEF Live
<1>5. /\ lists' = With(lists, n, <<Void>>) /\ root' = [root EXCEPT ![k] = n]
      /\ UNCHANGED <<keyed, result, task, broken, stack>>
  BY <1>3 DEF NewKey
<1>6. PICK links, label2 : links = <<w>> /\ label2 = Labelled(label, n, links)
  OBVIOUS
<1>7. links \in Seq(KeyLinks) /\ \A j \in DOMAIN links : PlainLink(links[j])
  <2>1. PlainLink(w)
    BY <1>2, <1>3, WholeIsPlain
  <2>2. w \in KeyLinks
    BY <2>1 DEF PlainLink
  <2> QED
    BY <1>6, <2>1, <2>2
<1>8. Shape(label, lists, {}, Waiting) /\ LabelsArePlain(label) /\ RootsLabelled(label, root)
      /\ result \in [Keys -> {"none", "ok"}] /\ \A j \in Keys : root[j] = 0 => result[j] = "none"
  BY <1>2 DEF KeyRuns
<1>9. PICK wait1 : wait1 = Waiting
  OBVIOUS
<1>10. /\ LabelsArePlain(label2) /\ RootsLabelled(label2, root) /\ Shape(label2, lists, {}, wait1)
       /\ label2[n] = links /\ \A x \in Blocks : x # n => label2[x] = label[x]
  <2>1. Owned(lists, data, root, {}) /\ n \in Blocks /\ n \notin DOMAIN lists
    BY <1>2, <1>4
  <2>2. Shape(label, lists, {}, wait1) /\ LabelsArePlain(label) /\ RootsLabelled(label, root)
    BY <1>8, <1>9
  <2>3. label2 = Labelled(label, n, links)
    BY <1>6
  <2> QED
    BY <1>7, <2>1, <2>2, <2>3, LabelAdded
<1>11. PICK ls, rs, wait : ls = lists' /\ rs = root' /\ wait = Waiting'
  OBVIOUS
<1>12. /\ \A x \in DOMAIN ls : x = n \/ x \in DOMAIN lists
       /\ ls[n] = <<Void>> /\ \A x \in DOMAIN lists : x \in DOMAIN ls /\ ls[x] = lists[x]
  BY <1>4, <1>5, <1>11 DEF With
<1>13. /\ root \in [Keys -> Blocks \cup {0}] /\ rs[k] = n /\ \A j \in Keys : j # k => rs[j] = root[j]
       /\ \A j \in Keys : root[j] # n
  BY <1>2, <1>4, <1>5, <1>11 DEF RootsAreCells
<1>14. RootsLabelled(label2, rs)
  BY <1>3, <1>6, <1>10, <1>13 DEF RootsLabelled
<1>15. Shape(label2, ls, {}, wait)
  <2>1. ASSUME NEW x \in DOMAIN ls, NEW y \in DOMAIN ls[x]
        PROVE  \/ /\ x \in DOMAIN lists /\ y \in DOMAIN lists[x] /\ ls[x][y] = lists[x][y]
                  /\ <<x, y>> \in wait <=> <<x, y>> \in wait1
               \/ <<x, y>> \in wait /\ ls[x][y].pl = "plain" /\ ls[x][y].code = 0
    <3>1. CASE x = n
      <4>1. y = 1 /\ ls[x][y] = Void
        BY <1>12, <3>1
      <4>2. PICK tk, st : tk = task' /\ st = stack'
        OBVIOUS
      <4>3. wait = WaitingFor(rs, result, tk, st)
        BY <1>5, <1>11, <4>2 DEF Waiting
      <4>4. Idle(rs, result, tk, n)
        BY <1>1, <1>5, <1>8, <1>13, <4>2 DEF Idle
      <4>5. <<n, y>> \in WaitingFor(rs, result, tk, st)
        BY <1>4, <4>1, <4>4, WaitingIs
      <4> QED
        BY <3>1, <4>1, <4>3, <4>5 DEF Void
    <3>2. CASE x # n
      <4>1. x \in DOMAIN lists /\ ls[x] = lists[x]
        BY <1>12, <3>2
      <4>2. x \in Blocks /\ y \in Nat /\ x # 0
        BY <1>2, <4>1, BlockIs
      <4>3. PICK res : res = result
        OBVIOUS
      <4>4. task.op # "reserve" /\ task'.op # "reserve" /\ root' = rs /\ result' = res
        BY <1>1, <1>5, <1>11, <4>3
      <4>5. \A j \in Keys : rs[j] = x /\ res[j] = "none" <=> root[j] = x /\ result[j] = "none"
        BY <1>1, <1>13, <3>2, <4>2, <4>3
      <4>6. <<x, y>> \in Waiting' <=> <<x, y>> \in Waiting
        BY <4>2, <4>4, <4>5, WaitingKept
      <4> QED
        BY <1>9, <1>11, <4>1, <4>6
    <3> QED
      BY <3>1, <3>2
  <2>2. ASSUME NEW x \in DOMAIN ls
        PROVE  Len(ls[x]) = Len(label2[x])
    <3>1. CASE x = n
      <4>1. Len(<<Void>>) = 1 /\ Len(<<w>>) = 1
        OBVIOUS
      <4> QED
        BY <1>6, <1>10, <1>12, <3>1, <4>1
    <3>2. CASE x # n
      BY <1>10, <1>12, <3>2 DEF Shape
    <3> QED
      BY <3>1, <3>2
  <2>3. PICK none : none = {}
    OBVIOUS
  <2>4. Shape(label2, lists, none, wait1)
    BY <1>10, <2>3
  <2>5. Shape(label2, ls, none, wait)
    BY <2>1, <2>2, <2>4, ShapeStep
  <2> QED
    BY <2>3, <2>5
<1>16. PICK gone : gone = {}
  OBVIOUS
<1>17. Gone' = gone /\ task'.op \notin {"reserve", "evaluate", "copy"}
  BY <1>1, <1>5, <1>16 DEF Gone
<1>18. /\ keyed' = keyed /\ broken' = "no" /\ lists' = ls /\ root' = rs /\ Waiting' = wait
       /\ Shape(label2, ls, gone, wait)
       /\ result' \in [Keys -> {"none", "ok"}] /\ \A j \in Keys : rs[j] = 0 => result'[j] = "none"
  BY <1>1, <1>4, <1>5, <1>8, <1>11, <1>13, <1>15, <1>16
<1>19. KeyRuns(label2)'
  BY <1>10, <1>14, <1>17, <1>18, RunsAfter
<1> QED
  BY <1>19

(* The loops of a reservation are over blocks of their own.                *)
LEMMA LoopsApart ==
  ASSUME OwnsInv, task.op = "reserve"
  PROVE  /\ stack \in Seq(LoopFrames) /\ stack # <<>> /\ Depth \in DOMAIN stack /\ Depth \in Nat \ {0}
         /\ Depth = Len(stack) /\ Inner = stack[Depth] /\ Inner \in LoopFrames
         /\ \A d \in DOMAIN stack :
              /\ stack[d] \in LoopFrames /\ stack[d].i \in Nat \ {0}
              /\ stack[d].cells[1][1] \in DOMAIN lists
              /\ Len(lists[stack[d].cells[1][1]]) = Len(stack[d].links)
              /\ \A k \in Keys : root[k] = stack[d].cells[1][1] => k = task.key
         /\ \A d, x \in DOMAIN stack : stack[d].cells[1][1] = stack[x].cells[1][1] => d = x
<1>1. /\ LoopsOf(stack, lists, root, task.key) /\ task.key \in Keys /\ root[task.key] # 0
      /\ RootsAreCells(lists, root)
  BY ReserveHeap DEF OwnsInv, ReserveLoops
<1>2. stack \in Seq(LoopFrames) /\ stack # <<>> /\ stack[1].cells = <<<<root[task.key], 1>>>>
      /\ stack[1].links = <<Whole>>
  BY <1>1 DEF LoopsOf
<1>3. Depth \in DOMAIN stack /\ Depth \in Nat \ {0} /\ Depth = Len(stack) /\ Inner = stack[Depth] /\ Inner \in LoopFrames
  BY <1>2, StackPopped DEF Depth, Inner
<1>4. \A d \in DOMAIN stack : stack[d] \in LoopFrames
  BY <1>2
<1>5. \A d \in DOMAIN stack : stack[d].i \in Nat \ {0}
  BY <1>4, FrameIs
<1>6. \A d \in DOMAIN stack : d = 1 \/ d \in 2..Len(stack)
  BY <1>2
<1>7. stack[1].cells[1][1] = root[task.key] /\ Len(stack[1].links) = 1
  BY <1>2
<1>8. /\ root[task.key] \in DOMAIN lists /\ Len(lists[root[task.key]]) = 1
      /\ \A k \in Keys : root[k] = root[task.key] => k = task.key
  BY <1>1 DEF RootsAreCells
<1>9. \A d \in 2..Len(stack) :
        /\ stack[d].cells[1][1] \in DOMAIN lists /\ \A k \in Keys : root[k] # stack[d].cells[1][1]
        /\ Len(lists[stack[d].cells[1][1]]) = Len(stack[d].links)
  BY <1>1 DEF LoopsOf, LoopOver
<1>10. ASSUME NEW d \in DOMAIN stack, NEW x \in DOMAIN stack, stack[d].cells[1][1] = stack[x].cells[1][1]
       PROVE  d = x
  <2>1. CASE d = 1 /\ x = 1
    BY <2>1
  <2>2. CASE d = 1 /\ x \in 2..Len(stack)
    BY <1>1, <1>7, <1>9, <1>10, <2>2
  <2>3. CASE x = 1 /\ d \in 2..Len(stack)
    BY <1>1, <1>7, <1>9, <1>10, <2>3
  <2>4. CASE d \in 2..Len(stack) /\ x \in 2..Len(stack)
    BY <1>1, <1>10, <2>4 DEF LoopsOf
  <2> QED
    BY <1>6, <2>1, <2>2, <2>3, <2>4
<1>11. ASSUME NEW d \in DOMAIN stack
       PROVE  /\ stack[d].cells[1][1] \in DOMAIN lists
              /\ Len(lists[stack[d].cells[1][1]]) = Len(stack[d].links)
              /\ \A k \in Keys : root[k] = stack[d].cells[1][1] => k = task.key
  BY <1>6, <1>7, <1>8, <1>9
<1> QED
  BY <1>2, <1>3, <1>4, <1>5, <1>10, <1>11

(* The turn of a first reservation is at a cell that waits.                *)
LEMMA TurnWaits ==
  ASSUME OwnsInv, NEW label, KeyRuns(label), task.op = "reserve", result[task.key] = "none",
         Inner.i <= Len(Inner.links),
         NEW l, l = Inner.links[Inner.i], NEW a, a = Inner.cells[Inner.i], NEW b, b = a[1], NEW i, i = a[2]
  PROVE  /\ a = <<b, i>> /\ b \in Blocks /\ i \in Nat
         /\ b \in DOMAIN lists /\ i \in DOMAIN lists[b] /\ lists[b][i].pl = "plain" /\ lists[b][i].code = 0
         /\ i \in DOMAIN label[b] /\ l = label[b][i] /\ PlainLink(l)
         /\ stack[Depth].cells[1][1] = b /\ stack[Depth].i = i
         /\ LabelsArePlain(label) /\ Shape(label, lists, {}, Waiting)
<1>1. /\ stack \in Seq(LoopFrames) /\ Depth \in DOMAIN stack /\ Inner = stack[Depth]
      /\ Inner.i \in Nat \ {0} /\ Inner \in LoopFrames
  BY LoopsApart
<1>2. /\ a = <<b, i>> /\ b \in DOMAIN lists /\ i \in DOMAIN lists[b]
      /\ Depth = 1 => a = <<root[task.key], 1>>
      /\ Depth # 1 => a = <<Inner.cells[1][1], Inner.i>>
  BY TurnIs
<1>3. stack[Depth].cells[1][1] = b /\ stack[Depth].i = i
  <2>1. CASE Depth = 1
    <3>1. LoopsOf(stack, lists, root, task.key)
      BY DEF OwnsInv, ReserveLoops
    <3>2. Inner.cells = <<<<root[task.key], 1>>>> /\ Len(Inner.links) = 1
      BY <1>1, <2>1, <3>1 DEF LoopsOf
    <3>3. Inner.i = 1
      BY <1>1, <3>2
    <3> QED
      BY <1>1, <1>2, <2>1, <3>2, <3>3
  <2>2. CASE Depth # 1
    BY <1>1, <1>2, <2>2
  <2> QED
    BY <2>1, <2>2
<1>4. Gone = {}
  BY DEF Gone
<1>5. LabelsArePlain(label) /\ Shape(label, lists, {}, Waiting) /\ ReservesFor(stack, label)
  BY <1>4 DEF KeyRuns
<1>6. CellsAreSound(lists)
  BY ReserveHeap
<1>7. b \in Blocks /\ i \in Nat /\ DOMAIN lists[b] = 1..Len(lists[b]) /\ Len(lists[b]) \in Nat
  BY <1>2, <1>6, BlockIs
<1>8. Ahead(result, task, stack, b, i)
  <2>1. stack[Depth].cells[1][1] = b /\ stack[Depth].i <= i
    BY <1>3, <1>7
  <2>2. \E d \in DOMAIN stack : stack[d].cells[1][1] = b /\ stack[d].i <= i
    BY <1>1, <2>1
  <2> QED
    BY <2>2 DEF Ahead
<1>9. <<b, i>> \in Waiting
  BY <1>7, <1>8, WaitingIs DEF Waiting
<1>10. lists[b][i].pl = "plain" /\ lists[b][i].code = 0 /\ Len(lists[b]) = Len(label[b])
  BY <1>2, <1>5, <1>9 DEF Shape
<1>11. label[b] = Inner.links
  BY <1>1, <1>3, <1>5 DEF ReservesFor
<1>12. i \in DOMAIN label[b] /\ l = label[b][i]
  <2>1. Inner.links \in Seq(KeyLinks)
    BY <1>1, FrameIs
  <2>2. Inner.i = i /\ i \in Nat \ {0} /\ i <= Len(Inner.links)
    BY <1>1, <1>3
  <2>3. i \in DOMAIN Inner.links
    BY <2>1, <2>2
  <2> QED
    BY <1>11, <2>2, <2>3
<1>13. PlainLink(l)
  BY <1>5, <1>7, <1>12 DEF LabelsArePlain
<1> QED
  BY <1>2, <1>3, <1>5, <1>7, <1>10, <1>12, <1>13, ZenonT(40)

(* Once its turn is over, it is the one that does not.                     *)
LEMMA TurnedWaits ==
  ASSUME OwnsInv, task.op = "reserve", result[task.key] = "none",
         NEW b, NEW i, stack[Depth].cells[1][1] = b, stack[Depth].i = i,
         NEW st, st = NextTurn, NEW x \in Blocks, NEW y \in Nat
  PROVE  <<x, y>> \in WaitingFor(root, result, task, st) <=> <<x, y>> \in Waiting /\ ~(x = b /\ y = i)
<1>1. /\ stack \in Seq(LoopFrames) /\ stack # <<>> /\ Depth \in DOMAIN stack /\ Depth \in Nat \ {0}
      /\ Depth = Len(stack) /\ Inner = stack[Depth] /\ Inner \in LoopFrames /\ Inner.i \in Nat \ {0}
  BY LoopsApart
<1>2. PICK f : f = [Inner EXCEPT !.i = @ + 1]
  OBVIOUS
<1>3. f \in LoopFrames /\ f.cells = Inner.cells /\ f.i = i + 1 /\ i \in Nat
  BY <1>1, <1>2, FrameIs
<1>4. st \in Seq(LoopFrames) /\ Len(st) = Depth /\ st[Depth] = f /\ \A d \in 1..(Depth - 1) : st[d] = stack[d]
  BY <1>1, <1>2, <1>3, StackTurned
<1>5. DOMAIN st = DOMAIN stack /\ \A d \in DOMAIN stack : d = Depth \/ st[d] = stack[d]
  BY <1>1, <1>4
<1>6. Idle(root, result, task, x) => x # b
  BY <1>1, LoopsApart DEF Idle
<1>7. Ahead(result, task, st, x, y) <=> Ahead(result, task, stack, x, y) /\ ~(x = b /\ y = i)
  <2>1. ASSUME Ahead(result, task, st, x, y)
        PROVE  Ahead(result, task, stack, x, y) /\ ~(x = b /\ y = i)
    <3>1. PICK d \in DOMAIN stack : st[d].cells[1][1] = x /\ st[d].i <= y
      BY <1>5, <2>1 DEF Ahead
    <3>2. CASE d = Depth
      <4>1. x = b /\ i + 1 <= y
        BY <1>1, <1>3, <1>4, <3>1, <3>2
      <4>2. i <= y /\ y # i
        BY <1>3, <4>1
      <4> QED
        BY <1>1, <4>1, <4>2 DEF Ahead
    <3>3. CASE d # Depth
      <4>1. stack[d].cells[1][1] = x /\ stack[d].i <= y
        BY <1>5, <3>1, <3>3
      <4>2. x # b
        BY <1>1, <3>3, <4>1, LoopsApart
      <4> QED
        BY <4>1, <4>2 DEF Ahead
    <3> QED
      BY <3>2, <3>3
  <2>2. ASSUME Ahead(result, task, stack, x, y), ~(x = b /\ y = i)
        PROVE  Ahead(result, task, st, x, y)
    <3>1. PICK d \in DOMAIN stack : stack[d].cells[1][1] = x /\ stack[d].i <= y
      BY <2>2 DEF Ahead
    <3>2. CASE d = Depth
      <4>1. x = b /\ i <= y
        BY <3>1, <3>2
      <4>2. i + 1 <= y
        BY <1>3, <2>2, <4>1
      <4>3. st[Depth].cells[1][1] = x /\ st[Depth].i <= y /\ Depth \in DOMAIN st
        BY <1>1, <1>3, <1>4, <1>5, <4>1, <4>2
      <4> QED
        BY <2>2, <4>3 DEF Ahead
    <3>3. CASE d # Depth
      BY <1>5, <2>2, <3>1, <3>3 DEF Ahead
    <3> QED
      BY <3>2, <3>3
  <2> QED
    BY <2>1, <2>2
<1>8. <<x, y>> \in WaitingFor(root, result, task, st) <=>
        Idle(root, result, task, x) \/ Ahead(result, task, st, x, y)
  BY WaitingIs
<1>9. <<x, y>> \in Waiting <=> Idle(root, result, task, x) \/ Ahead(result, task, stack, x, y)
  BY WaitingIs DEF Waiting
<1> QED
  BY <1>6, <1>7, <1>8, <1>9

LEMMA TurnedReserves ==
  ASSUME OwnsInv, NEW label, task.op = "reserve", ReservesFor(stack, label), NEW st, st = NextTurn
  PROVE  ReservesFor(st, label) /\ st \in Seq(LoopFrames) /\ Len(st) = Depth
<1>1. /\ stack \in Seq(LoopFrames) /\ stack # <<>> /\ Depth \in DOMAIN stack /\ Depth \in Nat \ {0}
      /\ Depth = Len(stack) /\ Inner = stack[Depth] /\ Inner \in LoopFrames
  BY LoopsApart
<1>2. PICK f : f = [Inner EXCEPT !.i = @ + 1]
  OBVIOUS
<1>3. f \in LoopFrames /\ f.cells = Inner.cells /\ f.links = Inner.links
  BY <1>1, <1>2, FrameIs
<1>4. st \in Seq(LoopFrames) /\ Len(st) = Depth /\ st[Depth] = f /\ \A d \in 1..(Depth - 1) : st[d] = stack[d]
  BY <1>1, <1>2, <1>3, StackTurned
<1>5. \A d \in DOMAIN st : d \in DOMAIN stack /\ st[d].cells = stack[d].cells /\ st[d].links = stack[d].links
  BY <1>1, <1>3, <1>4
<1> QED
  BY <1>4, <1>5 DEF ReservesFor

LEMMA ReserveKeyRuns ==
  ASSUME OwnsInv, NEW label, KeyRuns(label), NEW k \in Keys, ReserveKey(k)
  PROVE  KeyRuns(label)'
<1>1. task.op = "none" /\ broken = "no" /\ root[k] # 0
  BY DEF ReserveKey, Quiet, NoTask
<1>2. Gone = {} /\ CellsAreSound(lists) /\ RootsAreCells(lists, root)
  BY <1>1, CellsAre
<1>3. /\ UNCHANGED <<keyed, lists, root, result, broken>> /\ task'.op = "reserve" /\ task'.key = k
      /\ stack' = <<Loop(<<Whole>>, <<Own(k)>>)>>
  BY DEF ReserveKey
<1>4. PICK f : f = Loop(<<Whole>>, <<Own(k)>>)
  OBVIOUS
<1>5. f.links = <<Whole>> /\ f.cells = <<<<root[k], 1>>>> /\ f.i = 1
  BY <1>4 DEF Loop, Own
<1>6. PICK st, tk, rs, res : st = stack' /\ tk = task' /\ rs = root /\ res = result
  OBVIOUS
<1>7. st = <<f>> /\ Len(st) = 1 /\ DOMAIN st = {1} /\ st[1] = f
  BY <1>3, <1>4, <1>6
<1>8. f.cells[1][1] = root[k]
  BY <1>5
<1>9. ReservesFor(st, label)
  <2>1. label[root[k]] = <<Whole>>
    BY <1>1 DEF KeyRuns, RootsLabelled
  <2> QED
    BY <1>5, <1>7, <1>8, <2>1 DEF ReservesFor
<1>10. Again(stack)'
  BY <1>5, <1>6, <1>7 DEF Again
<1>11. PICK gone, wait : gone = Gone' /\ wait = Waiting'
  OBVIOUS
<1>12. wait = WaitingFor(rs, res, tk, st)
  BY <1>3, <1>6, <1>11 DEF Waiting
<1>13. ASSUME NEW x \in DOMAIN lists, NEW y \in DOMAIN lists[x]
       PROVE  <<x, y>> \in wait <=> <<x, y>> \in Waiting
  <2>1. x \in Blocks /\ y \in Nat /\ y >= 1
    BY <1>2, BlockIs
  <2>2. <<x, y>> \in wait <=> Idle(rs, res, tk, x) \/ Ahead(res, tk, st, x, y)
    BY <1>12, <2>1, WaitingIs
  <2>3. <<x, y>> \in Waiting <=> Idle(root, result, task, x) \/ Ahead(result, task, stack, x, y)
    BY <2>1, WaitingIs DEF Waiting
  <2>4. ~Ahead(result, task, stack, x, y) /\
        (Idle(root, result, task, x) <=> \E j \in Keys : root[j] = x /\ result[j] = "none")
    BY <1>1 DEF Ahead, Idle
  <2>5. Idle(rs, res, tk, x) <=> \E j \in Keys : root[j] = x /\ result[j] = "none" /\ j # k
    BY <1>3, <1>6 DEF Idle
  <2>6. Ahead(res, tk, st, x, y) <=> result[k] = "none" /\ root[k] = x
    <3>1. (\E d \in DOMAIN st : st[d].cells[1][1] = x /\ st[d].i <= y) <=> root[k] = x
      BY <1>5, <1>7, <1>8, <2>1
    <3> QED
      BY <1>3, <1>6, <3>1 DEF Ahead
  <2> QED
    BY <2>2, <2>3, <2>4, <2>5, <2>6
<1>14. result \in [Keys -> {"none", "ok"}] /\ \A j \in Keys : root[j] = 0 => result[j] = "none"
  BY DEF KeyRuns
<1>15. PICK ls : ls = lists
  OBVIOUS
<1>16. /\ keyed' = keyed /\ broken' = "no" /\ lists' = ls /\ root' = rs /\ Gone' = gone /\ Waiting' = wait
       /\ \A x \in DOMAIN ls : x \in DOMAIN lists /\ ls[x] = lists[x]
       /\ \A j \in Keys : rs[j] # 0 => rs[j] = root[j]
       /\ \A x, y : x \in DOMAIN ls /\ <<x, y>> \in Gone => <<x, y>> \in gone
  BY <1>1, <1>2, <1>3, <1>6, <1>11, <1>15
<1>17. /\ result' \in [Keys -> {"none", "ok"}] /\ \A j \in Keys : rs[j] = 0 => result'[j] = "none"
       /\ task'.op = "reserve" /\ ReservesFor(stack', label) /\ Again(stack)'
  BY <1>3, <1>6, <1>9, <1>10, <1>14
<1>18. \A x \in DOMAIN ls : \A y \in DOMAIN ls[x] : <<x, y>> \in wait <=> <<x, y>> \in Waiting
  BY <1>13, <1>15, ZenonT(40)
<1> QED
  BY <1>16, <1>17, <1>18, StillRuns

(* A turn after which the cell fits its link.                              *)
LEMMA FirstTurnRuns ==
  ASSUME OwnsInv, NEW label, KeyRuns(label), task.op = "reserve", result[task.key] = "none",
         Inner.i <= Len(Inner.links),
         NEW l, l = Inner.links[Inner.i], NEW a, a = Inner.cells[Inner.i], NEW b, b = a[1], NEW i, i = a[2],
         NEW ls, lists' = ls, stack' = NextTurn, UNCHANGED <<keyed, root, result, task, broken>>,
         \A d : d \in DOMAIN ls <=> d \in DOMAIN lists,
         \A d \in DOMAIN lists : DOMAIN ls[d] = DOMAIN lists[d] /\ Len(ls[d]) = Len(lists[d]),
         \A d \in DOMAIN lists : \A j \in DOMAIN lists[d] : d # b \/ j # i => ls[d][j] = lists[d][j],
         Fitting(label, ls[b][i], l)
  PROVE  KeyRuns(label)'
<1>1. /\ b \in DOMAIN lists /\ i \in DOMAIN lists[b] /\ l = label[b][i]
      /\ stack[Depth].cells[1][1] = b /\ stack[Depth].i = i
      /\ LabelsArePlain(label) /\ Shape(label, lists, {}, Waiting)
  BY TurnWaits, SMTT(30)
<1>2. CellsAreSound(lists)
  BY ReserveHeap
<1>3. PICK st, wait, gone, rs, none : st = NextTurn /\ wait = Waiting' /\ gone = Gone' /\ rs = root /\ none = {}
  OBVIOUS
<1>4. wait = WaitingFor(root, result, task, st)
  BY <1>3 DEF Waiting
<1>5. \A x \in Blocks, y \in Nat : <<x, y>> \in wait <=> <<x, y>> \in Waiting /\ ~(x = b /\ y = i)
  BY <1>1, <1>3, <1>4, TurnedWaits, ZenonT(40)
<1>6. ASSUME NEW x \in DOMAIN ls, NEW y \in DOMAIN ls[x]
      PROVE  \/ /\ x \in DOMAIN lists /\ y \in DOMAIN lists[x] /\ ls[x][y] = lists[x][y]
                /\ <<x, y>> \in wait <=> <<x, y>> \in Waiting
             \/ <<x, y>> \notin wait /\ Fitting(label, ls[x][y], label[x][y])
  <2>1. x \in DOMAIN lists /\ y \in DOMAIN lists[x]
    OBVIOUS
  <2>2. x \in Blocks /\ y \in Nat
    BY <1>2, <2>1, BlockIs
  <2>3. <<x, y>> \in wait <=> <<x, y>> \in Waiting /\ ~(x = b /\ y = i)
    BY <1>5, <2>2
  <2> QED
    BY <1>1, <2>1, <2>3
<1>7. PICK wait1 : wait1 = Waiting
  OBVIOUS
<1>8. \A x \in DOMAIN ls : Len(ls[x]) = Len(label[x])
  BY <1>1 DEF Shape
<1>9. Shape(label, lists, none, wait1)
  BY <1>1, <1>3, <1>7
<1>10. Shape(label, ls, none, wait)
  BY <1>6, <1>7, <1>8, <1>9, ShapeStep
<1>11. gone = none
  BY <1>3 DEF Gone
<1>12. ReservesFor(stack', label)
  <2>1. ReservesFor(stack, label)
    BY DEF KeyRuns
  <2> QED
    BY <1>3, <2>1, TurnedReserves
<1>13. /\ broken = "no" /\ RootsLabelled(label, rs)
       /\ result \in [Keys -> {"none", "ok"}] /\ \A k \in Keys : rs[k] = 0 => result[k] = "none"
  BY <1>3 DEF KeyRuns
<1>14. Gone' = gone /\ Waiting' = wait /\ root' = rs /\ Shape(label, ls, gone, wait)
  BY <1>3, <1>10, <1>11
<1>15. task'.op = "reserve" /\ result'[task'.key] = "none"
  OBVIOUS
<1>16. task'.op = "reserve" => ReservesFor(stack', label) /\ (result'[task'.key] = "ok" => Again(stack)')
  BY <1>12, <1>15
<1>17. task'.op \notin {"evaluate", "copy"}
  BY <1>15
<1>18. keyed' = keyed /\ broken' = "no" /\ lists' = ls /\ LabelsArePlain(label) /\ RootsLabelled(label, rs)
  BY <1>1, <1>13
<1>19. result' \in [Keys -> {"none", "ok"}] /\ \A k \in Keys : rs[k] = 0 => result'[k] = "none"
  <2>1. result' = result
    OBVIOUS
  <2>2. PICK res : res = result
    OBVIOUS
  <2>3. res \in [Keys -> {"none", "ok"}] /\ \A k \in Keys : rs[k] = 0 => res[k] = "none"
    BY <1>13, <2>2
  <2> QED
    BY <2>1, <2>2, <2>3
<1> QED
  BY <1>14, <1>16, <1>17, <1>18, <1>19, RunsAfter

LEMMA PutRuns ==
  ASSUME OwnsInv, NEW label, KeyRuns(label), task.op = "reserve", result[task.key] = "none",
         Inner.i <= Len(Inner.links),
         NEW l, l = Inner.links[Inner.i], NEW a, a = Inner.cells[Inner.i],
         NEW c \in CellsOfKeys, SoundCell(c), Fitting(label, c, l), lists' = Put(a, c),
         stack' = NextTurn, UNCHANGED <<keyed, root, result, task, broken>>
  PROVE  KeyRuns(label)'
<1>1. PICK b, i : b = a[1] /\ i = a[2]
  OBVIOUS
<1>2. a = <<b, i>> /\ b \in DOMAIN lists /\ i \in DOMAIN lists[b]
  BY <1>1, TurnWaits
<1>3. CellsAreSound(lists)
  BY ReserveHeap
<1>4. PICK ls : ls = lists'
  OBVIOUS
<1>5. ls = Replaced(lists, b, i, c)
  BY <1>1, <1>4 DEF Replaced, Put
<1>6. /\ DOMAIN ls = DOMAIN lists
      /\ \A d \in DOMAIN lists : DOMAIN ls[d] = DOMAIN lists[d] /\ Len(ls[d]) = Len(lists[d])
      /\ ls[b][i] = c
      /\ \A d \in DOMAIN lists : \A j \in DOMAIN lists[d] : d # b \/ j # i => ls[d][j] = lists[d][j]
  BY <1>2, <1>3, <1>5, CellReplaced
<1>7. Fitting(label, ls[b][i], l)
  BY <1>6
<1>8. \A d : d \in DOMAIN ls <=> d \in DOMAIN lists
  BY <1>6
<1> QED
  BY <1>1, <1>4, <1>6, <1>7, <1>8, FirstTurnRuns

(* A cell gets its data, or is cleared.                                    *)
LEMMA DatumRuns ==
  ASSUME OwnsInv, PlainQuery, NEW label, KeyRuns(label), task.op = "reserve", result[task.key] = "none",
         Inner.i <= Len(Inner.links),
         NEW l, l = Inner.links[Inner.i], NEW a, a = Inner.cells[Inner.i], l.kind = "typed",
         Free # {}, NEW c, c = [At(a) EXCEPT !.code = 1, !.ptr = Fresh], lists' = Put(a, c),
         stack' = NextTurn, UNCHANGED <<keyed, root, result, task, broken>>
  PROVE  KeyRuns(label)'
<1>1. PICK b, i : b = a[1] /\ i = a[2]
  OBVIOUS
<1>2. /\ a = <<b, i>> /\ b \in DOMAIN lists /\ i \in DOMAIN lists[b] /\ PlainLink(l)
      /\ lists[b][i].pl = "plain" /\ lists[b][i].code = 0
  BY <1>1, TurnWaits
<1>3. CellsAreSound(lists) /\ keyed \in KeyedQueries
  BY ReserveHeap DEF OwnsInv
<1>4. lists[b][i] \in CellsOfKeys
  BY <1>2, <1>3, BlockIs
<1>5. PICK n, cell : n = Fresh /\ cell = lists[b][i]
  OBVIOUS
<1>6. n \in Blocks /\ n # 0
  BY <1>5, FreshIsFree
<1>7. c = [cell EXCEPT !.code = 1, !.ptr = n]
  BY <1>2, <1>5 DEF At
<1>8. c \in CellsOfKeys /\ c.ptr = n /\ c.pl = "plain" /\ c.code = 1
  BY <1>2, <1>4, <1>5, <1>6, <1>7 DEF CellsOfKeys
<1>9. SoundCell(c)
  BY <1>8 DEF SoundCell
<1>10. Listed(l) = <<>>
  BY <1>2, <1>3, ListedIsPlain
<1>11. Fitting(label, c, l)
  BY <1>6, <1>8, <1>10 DEF Fitting
<1> QED
  BY <1>8, <1>9, <1>11, PutRuns

LEMMA VoidRuns ==
  ASSUME OwnsInv, NEW label, KeyRuns(label), task.op = "reserve", result[task.key] = "none",
         Inner.i <= Len(Inner.links),
         NEW l, l = Inner.links[Inner.i], NEW a, a = Inner.cells[Inner.i],
         l.kind # "typed", Listed(l) = <<>>, NEW c, c = Void, lists' = Put(a, c),
         stack' = NextTurn, UNCHANGED <<keyed, root, result, task, broken>>
  PROVE  KeyRuns(label)'
<1>1. c \in CellsOfKeys /\ SoundCell(c) /\ c.pl = "plain" /\ c.code = 0
  BY VoidIsSound DEF Void
<1>2. Fitting(label, c, l)
  BY <1>1 DEF Fitting
<1> QED
  BY <1>1, <1>2, PutRuns

(* A loop over a new list: all its cells wait.                             *)
LEMMA PushedWaits ==
  ASSUME NEW st \in Seq(LoopFrames), NEW f \in LoopFrames, NEW n, f.cells[1][1] = n, f.i = 1,
         NEW st2, st2 = Append(st, f), task.op = "reserve", result[task.key] = "none",
         NEW x \in Blocks, NEW y \in Nat \ {0}
  PROVE  <<x, y>> \in WaitingFor(root, result, task, st2) <=>
           x = n \/ <<x, y>> \in WaitingFor(root, result, task, st)
<1>1. /\ Len(st) \in Nat /\ DOMAIN st = 1..Len(st) /\ Len(st2) = Len(st) + 1 /\ DOMAIN st2 = 1..(Len(st) + 1)
      /\ st2[Len(st) + 1] = f /\ \A d \in 1..Len(st) : st2[d] = st[d]
  OBVIOUS
<1>2. \A d \in DOMAIN st2 : d = Len(st) + 1 \/ (d \in DOMAIN st /\ st2[d] = st[d])
  BY <1>1
<1>3. Len(st) + 1 \in DOMAIN st2 /\ \A d \in DOMAIN st : d \in DOMAIN st2 /\ st2[d] = st[d]
  BY <1>1
<1>4. Ahead(result, task, st2, x, y) <=> x = n \/ Ahead(result, task, st, x, y)
  <2>1. ASSUME Ahead(result, task, st2, x, y)
        PROVE  x = n \/ Ahead(result, task, st, x, y)
    BY <1>1, <1>2, <2>1 DEF Ahead
  <2>2. ASSUME x = n
        PROVE  Ahead(result, task, st2, x, y)
    <3>1. st2[Len(st) + 1].cells[1][1] = x /\ st2[Len(st) + 1].i <= y
      BY <1>1, <2>2
    <3> QED
      BY <1>3, <3>1 DEF Ahead
  <2>3. ASSUME Ahead(result, task, st, x, y)
        PROVE  Ahead(result, task, st2, x, y)
    BY <1>3, <2>3 DEF Ahead
  <2> QED
    BY <2>1, <2>2, <2>3
<1>5. <<x, y>> \in WaitingFor(root, result, task, st2) <=>
        Idle(root, result, task, x) \/ Ahead(result, task, st2, x, y)
  BY WaitingIs
<1>6. <<x, y>> \in WaitingFor(root, result, task, st) <=>
        Idle(root, result, task, x) \/ Ahead(result, task, st, x, y)
  BY WaitingIs
<1> QED
  BY <1>4, <1>5, <1>6

(* It is reserved for the links the list is labelled with.                 *)
LEMMA PushedReserves ==
  ASSUME OwnsInv, NEW label, task.op = "reserve", ReservesFor(stack, label),
         NEW n, n \notin DOMAIN lists, NEW label2, NEW links, label2[n] = links,
         \A x \in DOMAIN lists : label2[x] = label[x],
         NEW f \in LoopFrames, f.cells[1][1] = n, f.links = links,
         NEW st, st = NextTurn, NEW st2, st2 = Append(st, f)
  PROVE  ReservesFor(st2, label2)
<1>1. ReservesFor(stack, label2)
  <2>1. \A d \in DOMAIN stack : stack[d].cells[1][1] \in DOMAIN lists
    BY LoopsApart
  <2> QED
    BY <2>1 DEF ReservesFor
<1>2. ReservesFor(st, label2) /\ st \in Seq(LoopFrames)
  BY <1>1, TurnedReserves
<1>3. \A d \in DOMAIN st2 : st2[d] = f \/ (d \in DOMAIN st /\ st2[d] = st[d])
  BY <1>2
<1> QED
  BY <1>2, <1>3 DEF ReservesFor

(* A cell is made a list.                                                  *)
LEMMA MarkRuns ==
  ASSUME OwnsInv, PlainQuery, NEW label, KeyRuns(label), task.op = "reserve", result[task.key] = "none",
         Inner.i <= Len(Inner.links),
         NEW l, l = Inner.links[Inner.i], NEW a, a = Inner.cells[Inner.i],
         NEW links, links = Listed(l), links # <<>>, Free # {}, NEW n, n = Fresh,
         NEW c, c = MadeList(At(a), n), NEW new, new = NewCells(links), lists' = With(Put(a, c), n, new),
         NEW f, f = Loop(links, CellsOf(n, links)), stack' = Append(NextTurn, f),
         UNCHANGED <<keyed, root, result, task, broken>>
  PROVE  \E label2 : KeyRuns(label2)'
<1>1. PICK b, i : b = a[1] /\ i = a[2]
  OBVIOUS
<1>2. /\ a = <<b, i>> /\ b \in Blocks /\ b \in DOMAIN lists /\ i \in DOMAIN lists[b] /\ PlainLink(l)
      /\ lists[b][i].pl = "plain" /\ lists[b][i].code = 0 /\ l = label[b][i]
      /\ stack[Depth].cells[1][1] = b /\ stack[Depth].i = i
      /\ LabelsArePlain(label) /\ Shape(label, lists, {}, Waiting)
  BY <1>1, TurnWaits, SMTT(30)
<1>3. /\ Owned(lists, data, root, {}) /\ CellsAreSound(lists) /\ LastMarked(lists, root, {})
      /\ keyed \in KeyedQueries
  BY ReserveHeap DEF OwnsInv
<1>4. n \in Blocks /\ n \notin DOMAIN lists /\ n \notin DOMAIN data
  BY FreshIsFree DEF Live
<1>5. links \in Seq(KeyLinks) /\ (\A j \in DOMAIN links : PlainLink(links[j])) /\ l.kind # "typed"
  BY <1>2, <1>3, ListedIsPlain
<1>6. PICK ls, ls1 : ls = lists' /\ ls1 = Replaced(lists, b, i, c)
  OBVIOUS
<1>7. ls = With(Replaced(lists, b, i, c), n, NewCells(links)) /\ c = MadeList(lists[b][i], n)
  <2>1. At(a) = lists[b][i]
    BY <1>2 DEF At
  <2>2. Put(a, c) = Replaced(lists, b, i, c)
    BY <1>1 DEF Put, Replaced
  <2> QED
    BY <1>6, <2>1, <2>2
<1>8. /\ \A d : d \in DOMAIN ls <=> d \in DOMAIN lists \/ d = n
      /\ Len(ls[n]) = Len(links) /\ CellsAreSound(ls)
      /\ \A j \in DOMAIN links : ls[n][j].pl = "plain" /\ ls[n][j].code = 0
      /\ \A d \in DOMAIN lists : Len(ls[d]) = Len(lists[d])
      /\ \A d \in DOMAIN lists : \A j \in DOMAIN lists[d] : d # b \/ j # i => ls[d][j] = lists[d][j]
      /\ ls[b][i] = c /\ c.ptr = n
  <2>1. Owned(lists, data, root, {}) /\ LastMarked(lists, root, {}) /\ b \in DOMAIN lists /\ i \in DOMAIN lists[b]
    BY <1>2, <1>3
  <2>2. lists[b][i].pl = "plain" /\ lists[b][i].code = 0
    BY <1>2
  <2>3. links \in Seq(KeyLinks) /\ links # <<>>
    BY <1>5
  <2>4. /\ Owned(ls, data, root, {})
        /\ \A d : d \in DOMAIN ls <=> d \in DOMAIN lists \/ d = n
        /\ Len(ls[n]) = Len(links)
        /\ \A j \in DOMAIN links : ls[n][j].pl = "plain" /\ ls[n][j].code = 0
        /\ \A d \in DOMAIN lists : Len(ls[d]) = Len(lists[d])
        /\ \A d \in DOMAIN lists : \A j \in DOMAIN lists[d] : d # b \/ j # i => ls[d][j] = lists[d][j]
        /\ ls[b][i] = c /\ c.ptr = n
    BY SMTT(40), <1>4, <1>7, <2>1, <2>2, <2>3, ListAdded
  <2>5. CellsAreSound(ls)
    BY <2>4 DEF Owned
  <2> QED
    BY <2>4, <2>5
<1>9. c.pl = "list"
  <2>1. lists[b][i] \in CellsOfKeys
    BY <1>2, <1>3, BlockIs
  <2> QED
    BY <1>7, <2>1 DEF MadeList, CellsOfKeys
<1>10. PICK label2, wait1 : label2 = Labelled(label, n, links) /\ wait1 = Waiting
  OBVIOUS
<1>11. RootsLabelled(label, root) /\ ReservesFor(stack, label) /\ broken = "no"
       /\ result \in [Keys -> {"none", "ok"}] /\ \A k \in Keys : root[k] = 0 => result[k] = "none"
  BY DEF KeyRuns
<1>12. /\ LabelsArePlain(label2) /\ RootsLabelled(label2, root) /\ Shape(label2, lists, {}, wait1)
       /\ label2[n] = links /\ \A x \in Blocks : x # n => label2[x] = label[x]
  <2>1. Owned(lists, data, root, {}) /\ n \in Blocks /\ n \notin DOMAIN lists
    BY <1>3, <1>4
  <2>2. Shape(label, lists, {}, wait1) /\ LabelsArePlain(label) /\ RootsLabelled(label, root)
    BY <1>2, <1>10, <1>11
  <2>3. label2 = Labelled(label, n, links)
    BY <1>10
  <2> QED
    BY <1>5, <2>1, <2>2, <2>3, LabelAdded
<1>13. Fitting(label2, ls[b][i], label2[b][i])
  <2>1. label2[b] = label[b]
    BY <1>2, <1>4, <1>12
  <2>2. label2[b][i] = l /\ ls[b][i] = c
    BY <1>2, <1>8, <2>1
  <2>3. Listed(l) # <<>> /\ label2[c.ptr] = Listed(l)
    BY <1>8, <1>12
  <2>4. Fitting(label2, c, l)
    BY <1>5, <1>9, <2>3 DEF Fitting
  <2> QED
    BY <2>2, <2>4
<1>14. /\ f \in LoopFrames /\ f.cells[1][1] = n /\ f.i = 1 /\ f.links = links
  <2>1. \A j \in DOMAIN links : IsLink(links[j], DOMAIN keyed.chains)
    BY <1>5, ZenonT(40) DEF PlainLink
  <2>2. /\ f \in LoopFrames /\ CellsOf(n, links)[1] = <<n, 1>> /\ f.i = 1 /\ f.links = links
        /\ f.cells = CellsOf(n, links)
    BY <1>4, <1>5, <2>1, NewLoopIs
  <2> QED
    BY <2>2
<1>15. PICK st, st2, wait, rs : st = NextTurn /\ st2 = Append(st, f) /\ wait = Waiting' /\ rs = root
  OBVIOUS
<1>16. stack' = st2 /\ st \in Seq(LoopFrames)
  BY <1>11, <1>15, TurnedReserves
<1>17. wait = WaitingFor(root, result, task, st2)
  BY <1>15, <1>16 DEF Waiting
<1>18. ASSUME NEW x \in Blocks, NEW y \in Nat \ {0}
       PROVE  <<x, y>> \in wait <=> x = n \/ (<<x, y>> \in wait1 /\ ~(x = b /\ y = i))
  <2>1. <<x, y>> \in WaitingFor(root, result, task, st) <=> <<x, y>> \in Waiting /\ ~(x = b /\ y = i)
    BY <1>2, <1>15, TurnedWaits
  <2>2. <<x, y>> \in WaitingFor(root, result, task, st2) <=>
          x = n \/ <<x, y>> \in WaitingFor(root, result, task, st)
    <3>1. st \in Seq(LoopFrames) /\ f \in LoopFrames /\ f.cells[1][1] = n /\ f.i = 1 /\ st2 = Append(st, f)
      BY <1>14, <1>15, <1>16
    <3> QED
      BY <3>1, PushedWaits
  <2> QED
    BY <1>10, <1>17, <2>1, <2>2
<1>19. Shape(label2, ls, {}, wait)
  <2>1. ASSUME NEW x \in DOMAIN ls, NEW y \in DOMAIN ls[x]
        PROVE  \/ /\ x \in DOMAIN lists /\ y \in DOMAIN lists[x] /\ ls[x][y] = lists[x][y]
                  /\ <<x, y>> \in wait <=> <<x, y>> \in wait1
               \/ <<x, y>> \in wait /\ ls[x][y].pl = "plain" /\ ls[x][y].code = 0
               \/ <<x, y>> \notin wait /\ Fitting(label2, ls[x][y], label2[x][y])
    <3>1. x \in Blocks /\ y \in Nat \ {0} /\ DOMAIN ls[x] = 1..Len(ls[x])
      <4>1. x \in Blocks /\ DOMAIN ls[x] = 1..Len(ls[x]) /\ Len(ls[x]) \in Nat
        BY <1>8, BlockIs
      <4> QED
        BY <4>1
    <3>2. <<x, y>> \in wait <=> x = n \/ (<<x, y>> \in wait1 /\ ~(x = b /\ y = i))
      BY <1>18, <3>1
    <3>3. CASE x = n
      <4>1. y \in DOMAIN links
        BY <1>5, <1>8, <3>1, <3>3
      <4> QED
        BY <1>8, <3>2, <3>3, <4>1
    <3>4. CASE x # n
      <4>1. x \in DOMAIN lists /\ Len(ls[x]) = Len(lists[x])
        BY <1>8, <3>4
      <4>2. y \in DOMAIN lists[x]
        <5>1. DOMAIN lists[x] = 1..Len(lists[x])
          BY <1>3, <4>1, BlockIs
        <5> QED
          BY <3>1, <4>1, <5>1
      <4>3. CASE x = b /\ y = i
        BY <1>13, <3>2, <3>4, <4>3
      <4>4. CASE ~(x = b /\ y = i)
        <5>1. ls[x][y] = lists[x][y]
          BY <1>8, <4>1, <4>2, <4>4
        <5> QED
          BY <3>2, <3>4, <4>1, <4>2, <4>4, <5>1
      <4> QED
        BY <4>3, <4>4
    <3> QED
      BY <3>3, <3>4
  <2>2. ASSUME NEW x \in DOMAIN ls
        PROVE  Len(ls[x]) = Len(label2[x])
    <3>1. CASE x = n
      BY <1>8, <1>12, <3>1
    <3>2. CASE x # n
      BY <1>8, <1>12, <3>2 DEF Shape
    <3> QED
      BY <3>1, <3>2
  <2>3. PICK none : none = {}
    OBVIOUS
  <2>4. Shape(label2, lists, none, wait1)
    BY <1>12, <2>3
  <2>5. Shape(label2, ls, none, wait)
    BY <2>1, <2>2, <2>4, ShapeStep
  <2> QED
    BY <2>3, <2>5
<1>20. ReservesFor(st2, label2)
  <2>1. \A x \in DOMAIN lists : label2[x] = label[x]
    <3>1. \A x \in DOMAIN lists : x \in Blocks /\ x # n
      BY <1>3, <1>4, BlockIs
    <3> QED
      BY <1>12, <3>1
  <2> QED
    <3>1. n \notin DOMAIN lists /\ ReservesFor(stack, label) /\ label2[n] = links
      BY <1>4, <1>11, <1>12
    <3>2. f \in LoopFrames /\ f.cells[1][1] = n /\ f.links = links /\ st = NextTurn /\ st2 = Append(st, f)
      BY <1>14, <1>15
    <3> QED
      BY <2>1, <3>1, <3>2, PushedReserves
<1>21. PICK gone : gone = {}
  OBVIOUS
<1>22. Gone' = gone /\ task'.op = "reserve" /\ result'[task'.key] = "none"
  BY <1>21 DEF Gone
<1>23. task'.op = "reserve" => ReservesFor(stack', label2) /\ (result'[task'.key] = "ok" => Again(stack)')
  BY <1>16, <1>20, <1>22
<1>24. /\ keyed' = keyed /\ broken' = "no" /\ lists' = ls /\ root' = rs /\ Waiting' = wait
       /\ Shape(label2, ls, gone, wait) /\ RootsLabelled(label2, rs) /\ LabelsArePlain(label2)
       /\ task'.op \notin {"evaluate", "copy"}
  BY <1>6, <1>11, <1>12, <1>15, <1>19, <1>21, <1>22
<1>25. result' \in [Keys -> {"none", "ok"}] /\ \A k \in Keys : rs[k] = 0 => result'[k] = "none"
  <2>1. PICK res : res = result
    OBVIOUS
  <2>2. res \in [Keys -> {"none", "ok"}] /\ \A k \in Keys : rs[k] = 0 => res[k] = "none"
    BY <1>11, <1>15, <2>1
  <2> QED
    BY <2>1, <2>2
<1>26. KeyRuns(label2)'
  BY <1>22, <1>23, <1>24, <1>25, RunsAfter
<1> QED
  BY <1>26

(* A key that was reserved before: nothing waits, and its cell is a list.  *)
LEMMA AgainWaits ==
  ASSUME OwnsInv, task.op = "reserve", result[task.key] = "ok", UNCHANGED <<root, result>>,
         task' = task \/ task' = NoTask, NEW x \in Blocks, NEW y \in Nat
  PROVE  <<x, y>> \in Waiting' <=> <<x, y>> \in Waiting
<1>1. PICK rs, res, tk, st : rs = root /\ res = result /\ tk = task' /\ st = stack'
  OBVIOUS
<1>2. Waiting' = WaitingFor(rs, res, tk, st)
  BY <1>1 DEF Waiting
<1>3. <<x, y>> \in WaitingFor(rs, res, tk, st) <=> Idle(rs, res, tk, x) \/ Ahead(res, tk, st, x, y)
  BY WaitingIs
<1>4. <<x, y>> \in Waiting <=> Idle(root, result, task, x) \/ Ahead(result, task, stack, x, y)
  BY WaitingIs DEF Waiting
<1>5. ~Ahead(res, tk, st, x, y) /\ ~Ahead(result, task, stack, x, y)
  BY <1>1 DEF Ahead, NoTask
<1>6. Idle(rs, res, tk, x) <=> Idle(root, result, task, x)
  BY <1>1 DEF Idle, NoTask
<1> QED
  BY <1>2, <1>3, <1>4, <1>5, <1>6

LEMMA AgainCell ==
  ASSUME OwnsInv, PlainQuery, NEW label, KeyRuns(label), task.op = "reserve", result[task.key] = "ok",
         NEW l, l = Inner.links[1], NEW a, a = Inner.cells[1]
  PROVE  /\ Inner.i = 1 /\ 1 <= Len(Inner.links) /\ Depth \in {1, 2}
         /\ l.kind # "typed" /\ Listed(l) # <<>> /\ At(a).pl = "list" /\ label[At(a).ptr] = Listed(l)
         /\ Depth = 1 => l = Whole /\ (l.kind = "product" <=> keyed.direct)
         /\ Depth = 2 => l.kind = "fwd" /\ keyed.direct
<1>1. /\ Depth \in DOMAIN stack /\ Depth \in Nat \ {0} /\ Depth = Len(stack) /\ Inner = stack[Depth]
      /\ Inner \in LoopFrames /\ keyed \in KeyedQueries
  BY LoopsApart DEF OwnsInv
<1>2. Gone = {}
  BY DEF Gone
<1>3. /\ ReservesFor(stack, label) /\ Again(stack) /\ Shape(label, lists, {}, Waiting)
      /\ RootsLabelled(label, root) /\ LabelsArePlain(label)
  BY <1>2 DEF KeyRuns
<1>4. LoopsOf(stack, lists, root, task.key) /\ CellsAreSound(lists) /\ RootsAreCells(lists, root)
  BY ReserveHeap DEF OwnsInv, ReserveLoops
<1>5. /\ PlainLink(Whole) /\ Listed(Whole) # <<>> /\ Whole.kind \in {"fwd", "product"}
      /\ Whole.kind = "product" <=> keyed.direct
      /\ keyed.direct => \A j \in DOMAIN Listed(Whole) : Listed(Whole)[j].kind = "fwd"
  BY <1>1, WholeIsPlain
<1>6. Listed(Whole) \in Seq(KeyLinks) /\ \A j \in DOMAIN Listed(Whole) : PlainLink(Listed(Whole)[j])
  BY <1>1, <1>5, ListedIsPlain
<1>7. Depth \in {1, 2} /\ Inner.i = 1 /\ (Depth = 2 => keyed.direct /\ Inner.links = Listed(Whole))
      /\ (Depth = 1 => Inner.links = <<Whole>>)
  BY <1>1, <1>3, <1>4 DEF Again, LoopsOf
<1>8. 1 \in DOMAIN Inner.links /\ 1 <= Len(Inner.links)
  <2>1. CASE Depth = 1
    BY <1>7, <2>1
  <2>2. CASE Depth = 2
    BY <1>5, <1>6, <1>7, <2>2
  <2> QED
    BY <1>7, <2>1, <2>2
<1>9. /\ Depth = 1 => l = Whole
      /\ Depth = 2 => l.kind = "fwd" /\ l = Listed(Whole)[1]
  BY <1>5, <1>7, <1>8
<1>10. PlainLink(l) /\ Listed(l) # <<>> /\ l.kind # "typed"
  <2>1. CASE Depth = 1
    BY <1>5, <1>9, <2>1
  <2>2. CASE Depth = 2
    <3>1. PlainLink(l)
      BY <1>6, <1>7, <1>8, <1>9, <2>2
    <3> QED
      BY <1>1, <1>9, <2>2, <3>1, ListedIsPlain
  <2> QED
    BY <1>7, <2>1, <2>2
<1>11. PICK b : b = Inner.cells[1][1]
  OBVIOUS
<1>12. /\ b \in DOMAIN lists /\ b \in Blocks /\ a = <<b, 1>> /\ 1 \in DOMAIN lists[b]
       /\ label[b] = Inner.links
       /\ \A k \in Keys : root[k] = b => k = task.key
  <2>1. /\ b \in DOMAIN lists /\ \A k \in Keys : root[k] = b => k = task.key
    BY <1>1, <1>11, LoopsApart
  <2>2. b \in Blocks /\ 1 \in DOMAIN lists[b]
    BY <1>4, <2>1, BlockIs
  <2>3. Depth = 1 => a = <<root[task.key], 1>>
    BY <1>1, <1>4 DEF LoopsOf
  <2>4. Depth = 2 => a = <<b, 1>>
    <3> SUFFICES ASSUME Depth = 2 PROVE a = <<b, 1>>
      OBVIOUS
    <3>1. LoopOver(Inner, lists, root)
      <4>1. Depth \in 2..Len(stack)
        <5>1. Len(stack) = 2 /\ Depth = 2
          BY <1>1
        <5>2. 2 \in 2..2
          OBVIOUS
        <5> QED
          BY <5>1, <5>2
      <4>2. LoopOver(stack[Depth], lists, root)
        BY <1>4, <4>1 DEF LoopsOf
      <4> QED
        BY <1>1, <4>2
    <3> QED
      BY <1>8, <1>11, <3>1 DEF LoopOver, CellsOf
  <2>5. a = <<b, 1>>
    BY <1>7, <1>11, <2>3, <2>4
  <2>6. label[b] = Inner.links
    BY <1>1, <1>3, <1>11 DEF ReservesFor
  <2> QED
    BY <2>1, <2>2, <2>5, <2>6
<1>13. <<b, 1>> \notin Waiting
  <2>1. ~Idle(root, result, task, b) /\ ~Ahead(result, task, stack, b, 1)
    BY <1>12 DEF Idle, Ahead
  <2> QED
    BY <1>12, <2>1, WaitingIs DEF Waiting
<1>14. Fitting(label, lists[b][1], l)
  BY <1>3, <1>12, <1>13 DEF Shape
<1>15. At(a).pl = "list" /\ label[At(a).ptr] = Listed(l)
  <2>1. At(a) = lists[b][1]
    BY <1>12 DEF At
  <2> QED
    BY <1>10, <1>14, <2>1 DEF Fitting
<1> QED
  BY <1>5, <1>7, <1>8, <1>9, <1>10, <1>15

LEMMA AgainReturns ==
  ASSUME OwnsInv, NEW label, KeyRuns(label), task.op = "reserve", result[task.key] = "ok",
         NEW rc, ReserveReturns(rc), UNCHANGED <<keyed, lists, root, broken>>
  PROVE  KeyRuns(label)'
<1>1. task' = NoTask /\ task'.op = "none" /\ task.key \in Keys
  BY ReserveHeap DEF ReserveReturns, NoTask
<1>2. /\ broken = "no" /\ result \in [Keys -> {"none", "ok"}]
      /\ \A k \in Keys : root[k] = 0 => result[k] = "none"
  BY DEF KeyRuns
<1>3. result' = result
  BY <1>1, <1>2 DEF ReserveReturns
<1>4. PICK ls, rs, gone, wait, res : ls = lists /\ rs = root /\ gone = Gone' /\ wait = Waiting' /\ res = result
  OBVIOUS
<1>5. Gone = {} /\ CellsAreSound(lists)
  BY ReserveHeap DEF Gone
<1>6. ASSUME NEW x \in DOMAIN ls, NEW y \in DOMAIN ls[x]
      PROVE  <<x, y>> \in wait <=> <<x, y>> \in Waiting
  <2>1. x \in Blocks /\ y \in Nat
    BY <1>4, <1>5, BlockIs
  <2> QED
    BY <1>1, <1>3, <1>4, <2>1, AgainWaits
<1>7. /\ keyed' = keyed /\ broken' = "no" /\ lists' = ls /\ root' = rs /\ Gone' = gone /\ Waiting' = wait
      /\ \A x \in DOMAIN ls : x \in DOMAIN lists /\ ls[x] = lists[x]
      /\ \A j \in Keys : rs[j] # 0 => rs[j] = root[j]
      /\ \A x, y : x \in DOMAIN ls /\ <<x, y>> \in Gone => <<x, y>> \in gone
      /\ task'.op \notin {"reserve", "evaluate", "copy"}
  BY <1>1, <1>2, <1>4, <1>5
<1>8. result' \in [Keys -> {"none", "ok"}] /\ \A j \in Keys : rs[j] = 0 => result'[j] = "none"
  BY <1>2, <1>3, <1>4
<1> QED
  BY <1>6, <1>7, <1>8, StillRuns

(* The product is reserved for once more.                                  *)
LEMMA AgainPushed ==
  ASSUME OwnsInv, NEW label, KeyRuns(label), task.op = "reserve", result[task.key] = "ok",
         keyed.direct, Depth = 1, NEW links, links = Listed(Whole), NEW n, label[n] = links,
         NEW f, f.i = 1, f.links = links, f.cells[1][1] = n, f \in LoopFrames,
         stack' = Append(NextTurn, f), UNCHANGED <<keyed, lists, root, result, task, broken>>
  PROVE  KeyRuns(label)'
<1>1. /\ broken = "no" /\ result \in [Keys -> {"none", "ok"}]
      /\ \A k \in Keys : root[k] = 0 => result[k] = "none"
      /\ ReservesFor(stack, label)
  BY DEF KeyRuns
<1>2. PICK ls, rs, gone, wait, st, st2 :
         ls = lists /\ rs = root /\ gone = Gone' /\ wait = Waiting' /\ st = NextTurn /\ st2 = Append(st, f)
  OBVIOUS
<1>3. ReservesFor(st, label) /\ st \in Seq(LoopFrames) /\ Len(st) = 1
  BY <1>1, <1>2, TurnedReserves
<1>4. Len(st2) = 2 /\ st2[2] = f /\ \A d \in DOMAIN st2 : st2[d] = f \/ (d \in DOMAIN st /\ st2[d] = st[d])
  <2>1. st2 \in Seq(LoopFrames) /\ Len(st2) = 2 /\ st2[2] = f /\ st2[1] = st[1]
    <3>1. /\ st2 \in Seq(LoopFrames) /\ Len(st2) = Len(st) + 1 /\ st2[Len(st) + 1] = f
          /\ \A d \in 1..Len(st) : st2[d] = st[d]
      <4>1. st2 = Append(st, f) /\ st \in Seq(LoopFrames) /\ f \in LoopFrames
        BY <1>2, <1>3
      <4> QED
        BY <4>1, StackPushed
    <3>2. Len(st) + 1 = 2 /\ 1 \in 1..Len(st)
      BY <1>3
    <3> QED
      BY <3>1, <3>2
  <2>2. DOMAIN st2 = {1, 2} /\ 1 \in DOMAIN st
    BY <1>3, <2>1
  <2> QED
    BY <2>1, <2>2
<1>5. ReservesFor(st2, label)
  BY <1>3, <1>4 DEF ReservesFor
<1>6. Again(stack)'
  <2>1. Listed(Whole)' = links
    <3>1. PICK w : w = Whole
      OBVIOUS
    <3>2. Whole' = w
      BY <3>1, TableKept
    <3>3. Listed(w)' = Listed(w)
      BY ListedKept
    <3> QED
      BY <3>1, <3>2, <3>3
  <2> QED
    BY <1>2, <1>4, <2>1 DEF Again
<1>7. Gone = {} /\ CellsAreSound(lists)
  BY ReserveHeap DEF Gone
<1>8. ASSUME NEW x \in DOMAIN ls, NEW y \in DOMAIN ls[x]
      PROVE  <<x, y>> \in wait <=> <<x, y>> \in Waiting
  <2>1. x \in Blocks /\ y \in Nat
    BY <1>2, <1>7, BlockIs
  <2> QED
    BY <1>2, <2>1, AgainWaits
<1>9. /\ keyed' = keyed /\ broken' = "no" /\ lists' = ls /\ root' = rs /\ Gone' = gone /\ Waiting' = wait
      /\ \A x \in DOMAIN ls : x \in DOMAIN lists /\ ls[x] = lists[x]
      /\ \A j \in Keys : rs[j] # 0 => rs[j] = root[j]
      /\ \A x, y : x \in DOMAIN ls /\ <<x, y>> \in Gone => <<x, y>> \in gone
      /\ task'.op \notin {"evaluate", "copy"}
  BY <1>1, <1>2, <1>7
<1>10. task'.op = "reserve" => ReservesFor(stack', label) /\ (result'[task'.key] = "ok" => Again(stack)')
  BY <1>2, <1>5, <1>6
<1>11. result' \in [Keys -> {"none", "ok"}] /\ \A j \in Keys : rs[j] = 0 => result'[j] = "none"
  <2>1. PICK res : res = result
    OBVIOUS
  <2>2. res \in [Keys -> {"none", "ok"}] /\ \A j \in Keys : rs[j] = 0 => res[j] = "none"
    BY <1>1, <1>2, <2>1
  <2> QED
    BY <2>1, <2>2
<1> QED
  BY <1>8, <1>9, <1>10, <1>11, StillRuns

LEMMA AgainLinkRuns ==
  ASSUME OwnsInv, PlainQuery, NEW label, KeyRuns(label), ReserveLink, result[task.key] = "ok"
  PROVE  KeyRuns(label)'
<1>1. task.op = "reserve" /\ UNCHANGED <<keyed, root>> /\ keyed \in KeyedQueries /\ broken = "no"
  BY DEF ReserveLink, Runs, OwnsInv
<1>2. PICK l, a : l = Inner.links[1] /\ a = Inner.cells[1]
  OBVIOUS
<1>3. /\ Inner.i = 1 /\ 1 <= Len(Inner.links) /\ Depth \in {1, 2}
      /\ l.kind # "typed" /\ Listed(l) # <<>> /\ At(a).pl = "list" /\ label[At(a).ptr] = Listed(l)
      /\ Depth = 1 => l = Whole /\ (l.kind = "product" <=> keyed.direct)
      /\ Depth = 2 => l.kind = "fwd" /\ keyed.direct
  BY <1>1, <1>2, AgainCell
<1>4. ReserveList(l, a)
  BY <1>2, <1>3 DEF ReserveLink
<1>5. UNCHANGED <<lists, broken>>
  BY <1>3, <1>4 DEF ReserveList
<1>6. CASE l.kind = "product"
  <2>1. Depth = 1 /\ keyed.direct /\ l = Whole
    BY <1>3, <1>6
  <2>2. PICK links, n : links = Listed(l) /\ n = At(a).ptr
    OBVIOUS
  <2>3. PICK f : f = Loop(links, CellsOf(n, links))
    OBVIOUS
  <2>4. stack' = Append(NextTurn, f) /\ UNCHANGED <<task, result>>
    BY <1>3, <1>4, <1>6, <2>2, <2>3 DEF ReserveList
  <2>5. n \in Blocks
    <3>1. CellsAreSound(lists)
      BY <1>1, ReserveHeap
    <3>2. a = <<a[1], a[2]>> /\ a[1] \in DOMAIN lists /\ a[2] \in DOMAIN lists[a[1]]
      BY <1>1, <1>2, <1>3, TurnIs
    <3>3. PICK cell : cell = lists[a[1]][a[2]]
      OBVIOUS
    <3>4. cell \in CellsOfKeys /\ SoundCell(cell)
      BY <3>1, <3>2, <3>3, BlockIs
    <3>5. At(a) = cell
      BY <3>3 DEF At
    <3> QED
      BY <1>3, <2>2, <3>4, <3>5 DEF CellsOfKeys, SoundCell
  <2>6. links \in Seq(KeyLinks) /\ links # <<>> /\ \A j \in DOMAIN links : IsLink(links[j], DOMAIN keyed.chains)
    <3>1. PlainLink(l)
      BY <1>1, <2>1, WholeIsPlain
    <3>2. links \in Seq(KeyLinks) /\ \A j \in DOMAIN links : PlainLink(links[j])
      BY <1>1, <2>2, <3>1, ListedIsPlain
    <3> QED
      BY <1>3, <2>2, <3>2 DEF PlainLink
  <2>7. f \in LoopFrames /\ f.i = 1 /\ f.links = links /\ f.cells[1][1] = n
    <3>1. /\ f \in LoopFrames /\ CellsOf(n, links)[1] = <<n, 1>> /\ f.i = 1 /\ f.links = links
          /\ f.cells = CellsOf(n, links)
      BY <2>3, <2>5, <2>6, NewLoopIs
    <3> QED
      BY <3>1
  <2>8. links = Listed(Whole) /\ label[n] = links
    BY <1>3, <2>1, <2>2
  <2>9. UNCHANGED <<keyed, lists, root, result, task, broken>>
    BY <1>1, <1>5, <2>4
  <2> QED
    BY <1>1, <2>1, <2>4, <2>7, <2>8, <2>9, AgainPushed
<1>7. CASE l.kind # "product"
  <2>1. Fails(Depth + 1, "generic", NextTurn)
    BY <1>3, <1>4, <1>7 DEF ReserveList
  <2>2. Depth + 1 <= IF keyed.direct THEN 3 ELSE 2
    BY <1>3, <1>7
  <2>3. ReserveReturns("generic")
    BY <2>1, <2>2 DEF Fails
  <2> QED
    BY <1>1, <1>5, <2>3, AgainReturns
<1> QED
  BY <1>6, <1>7

LEMMA FirstLinkRuns ==
  ASSUME OwnsInv, PlainQuery, NEW label, KeyRuns(label), ReserveLink, result[task.key] = "none",
         faults \in Nat, faults' = faults
  PROVE  \E label2 : KeyRuns(label2)'
<1>1. /\ task.op = "reserve" /\ UNCHANGED <<keyed, root>> /\ Inner.i <= Len(Inner.links)
      /\ ~AllocationFails
  BY DEF ReserveLink, Runs, AllocationFails
<1>2. PICK l, a : l = Inner.links[Inner.i] /\ a = Inner.cells[Inner.i]
  OBVIOUS
<1>3. At(a).pl = "plain" /\ At(a).code = 0 /\ PlainLink(l)
  <2>1. PICK b, i : b = a[1] /\ i = a[2]
    OBVIOUS
  <2>2. a = <<b, i>> /\ lists[b][i].pl = "plain" /\ lists[b][i].code = 0 /\ PlainLink(l)
    BY <1>1, <1>2, <2>1, TurnWaits
  <2> QED
    BY <2>2 DEF At
<1>4. CASE l.kind = "typed"
  <2>1. ReserveDatum(a)
    <3>1. Listed(l) = <<>>
      BY <1>4 DEF Listed
    <3> QED
      BY <1>2, <1>4, <3>1 DEF ReserveLink
  <2>2. PICK c : c = [At(a) EXCEPT !.code = 1, !.ptr = Fresh]
    OBVIOUS
  <2>3. /\ Free # {} /\ lists' = Put(a, c) /\ stack' = NextTurn
        /\ UNCHANGED <<keyed, root, result, task, broken>>
    BY <1>1, <2>1, <2>2 DEF ReserveDatum
  <2>4. KeyRuns(label)'
    BY <1>1, <1>2, <1>4, <2>2, <2>3, DatumRuns, ZenonT(40)
  <2> QED
    BY <2>4
<1>5. CASE l.kind # "typed" /\ Listed(l) # <<>>
  <2>1. ReserveList(l, a)
    BY <1>2, <1>5 DEF ReserveLink
  <2>2. MarkAsList(a, Listed(l))
    BY <1>3, <2>1 DEF ReserveList
  <2>3. PICK links, n : links = Listed(l) /\ n = Fresh
    OBVIOUS
  <2>4. PICK c, new, f : c = MadeList(At(a), n) /\ new = NewCells(links) /\ f = Loop(links, CellsOf(n, links))
    OBVIOUS
  <2>5. /\ Free # {}
        /\ lists' = With(Put(a, [At(a) EXCEPT !.pl = "list", !.ptr = n]), n,
                         [j \in DOMAIN links |-> [Void EXCEPT !.term = (j = Len(links))]])
        /\ stack' = Append(NextTurn, Loop(links, CellsOf(n, links)))
        /\ UNCHANGED <<task, result, broken>>
    BY <1>1, <2>2, <2>3 DEF MarkAsList
  <2>6. lists' = With(Put(a, c), n, new)
    BY <2>4, <2>5 DEF MadeList, NewCells
  <2>7. stack' = Append(NextTurn, f) /\ UNCHANGED <<keyed, root, result, task, broken>>
    BY <1>1, <2>4, <2>5
  <2> QED
    BY <1>1, <1>2, <1>5, <2>3, <2>4, <2>5, <2>6, <2>7, MarkRuns
<1>6. CASE l.kind # "typed" /\ Listed(l) = <<>>
  <2>1. PICK c : c = Void
    OBVIOUS
  <2>2. lists' = Put(a, c) /\ stack' = NextTurn /\ UNCHANGED <<keyed, root, result, task, broken>>
    BY <1>1, <1>2, <1>6, <2>1 DEF ReserveLink
  <2>3. KeyRuns(label)'
    BY <1>1, <1>2, <1>6, <2>1, <2>2, VoidRuns
  <2> QED
    BY <2>3
<1> QED
  BY <1>4, <1>5, <1>6

LEMMA ReserveLinkRuns ==
  ASSUME OwnsInv, PlainQuery, NEW label, KeyRuns(label), ReserveLink, faults \in Nat, faults' = faults
  PROVE  \E label2 : KeyRuns(label2)'
<1>1. result[task.key] \in {"none", "ok"}
  <2>1. task.op = "reserve"
    BY DEF ReserveLink, Runs
  <2>2. task.key \in Keys
    BY <2>1, ReserveHeap
  <2> QED
    BY <2>2 DEF KeyRuns
<1>2. CASE result[task.key] = "ok"
  <2>1. KeyRuns(label)'
    BY <1>2, AgainLinkRuns
  <2> QED
    BY <2>1
<1>3. CASE result[task.key] = "none"
  BY <1>3, FirstLinkRuns
<1> QED
  BY <1>1, <1>2, <1>3

(* A loop that is over: none of its cells waits.                           *)
LEMMA OverAhead ==
  ASSUME OwnsInv, task.op = "reserve", Inner.i > Len(Inner.links),
         NEW x \in DOMAIN lists, NEW y \in DOMAIN lists[x]
  PROVE  ~(stack[Depth].cells[1][1] = x /\ stack[Depth].i <= y)
<1>1. /\ Depth \in DOMAIN stack /\ Inner = stack[Depth] /\ Inner \in LoopFrames /\ Inner.i \in Nat \ {0}
      /\ Len(lists[stack[Depth].cells[1][1]]) = Len(Inner.links)
  BY LoopsApart
<1>2. CellsAreSound(lists)
  BY ReserveHeap
<1>3. DOMAIN lists[x] = 1..Len(lists[x]) /\ Len(lists[x]) \in Nat
  BY <1>2, BlockIs
<1>4. y \in Nat /\ y <= Len(lists[x])
  BY <1>3
<1> QED
  BY <1>1, <1>3, <1>4

LEMMA LeftWaits ==
  ASSUME OwnsInv, task.op = "reserve", Inner.i > Len(Inner.links), NEW st, st = Outer,
         NEW x \in DOMAIN lists, NEW y \in DOMAIN lists[x]
  PROVE  <<x, y>> \in WaitingFor(root, result, task, st) <=> <<x, y>> \in Waiting
<1>1. /\ stack \in Seq(LoopFrames) /\ stack # <<>> /\ Depth = Len(stack) /\ Depth \in Nat \ {0}
  BY LoopsApart
<1>2. st \in Seq(LoopFrames) /\ Len(st) = Depth - 1 /\ \A d \in 1..(Depth - 1) : st[d] = stack[d]
  BY <1>1, StackPopped
<1>3. /\ \A d \in DOMAIN st : d \in DOMAIN stack /\ st[d] = stack[d]
      /\ \A d \in DOMAIN stack : d = Depth \/ (d \in DOMAIN st /\ st[d] = stack[d])
  BY <1>1, <1>2
<1>4. ~(stack[Depth].cells[1][1] = x /\ stack[Depth].i <= y)
  BY OverAhead
<1>5. Ahead(result, task, st, x, y) <=> Ahead(result, task, stack, x, y)
  BY <1>3, <1>4 DEF Ahead
<1>6. x \in Blocks /\ y \in Nat
  <2>1. CellsAreSound(lists)
    BY ReserveHeap
  <2> QED
    BY <2>1, BlockIs
<1> QED
  BY <1>5, <1>6, WaitingIs DEF Waiting

(* The reservation returns.                                                *)
LEMMA ReturnRuns ==
  ASSUME OwnsInv, NEW label, KeyRuns(label), task.op = "reserve", result[task.key] = "none",
         Inner.i > Len(Inner.links), Depth = 1, ReserveReturns("ok"), UNCHANGED <<keyed, lists, root, broken>>
  PROVE  KeyRuns(label)'
<1>1. task' = NoTask /\ task'.op = "none" /\ task.key \in Keys /\ root[task.key] # 0
  BY ReserveHeap DEF ReserveReturns, NoTask
<1>2. /\ broken = "no" /\ result \in [Keys -> {"none", "ok"}]
      /\ \A k \in Keys : root[k] = 0 => result[k] = "none"
  BY DEF KeyRuns
<1>3. PICK ls, rs, gone, wait, res, tk, st :
         /\ ls = lists /\ rs = root /\ gone = Gone' /\ wait = Waiting' /\ res = result'
         /\ tk = task' /\ st = stack'
  OBVIOUS
<1>4. res = [result EXCEPT ![task.key] = "ok"]
  BY <1>3 DEF ReserveReturns
<1>5. /\ res \in [Keys -> {"none", "ok"}] /\ res[task.key] = "ok"
      /\ \A k \in Keys : k # task.key => res[k] = result[k]
  BY <1>1, <1>2, <1>4
<1>6. Gone = {} /\ CellsAreSound(lists)
  BY ReserveHeap DEF Gone
<1>7. wait = WaitingFor(rs, res, tk, st)
  BY <1>3 DEF Waiting
<1>8. stack # <<>> /\ DOMAIN stack = {1}
  <2>1. stack \in Seq(LoopFrames) /\ Len(stack) = 1 /\ stack # <<>>
    BY LoopsApart
  <2>2. 1..1 = {1}
    OBVIOUS
  <2>3. DOMAIN stack = 1..Len(stack)
    BY <2>1
  <2> QED
    BY <2>1, <2>2, <2>3
<1>9. ASSUME NEW x \in DOMAIN ls, NEW y \in DOMAIN ls[x]
      PROVE  <<x, y>> \in wait <=> <<x, y>> \in Waiting
  <2>1. x \in Blocks /\ y \in Nat
    BY <1>3, <1>6, BlockIs
  <2>2. ~(stack[1].cells[1][1] = x /\ stack[1].i <= y)
    BY <1>3, OverAhead
  <2>3. ~Ahead(result, task, stack, x, y)
    BY <1>8, <2>2 DEF Ahead
  <2>4. ~Ahead(res, tk, st, x, y)
    BY <1>1, <1>3 DEF Ahead
  <2>5. Idle(rs, res, tk, x) <=> Idle(root, result, task, x)
    BY <1>1, <1>3, <1>5 DEF Idle
  <2>6. <<x, y>> \in wait <=> Idle(rs, res, tk, x) \/ Ahead(res, tk, st, x, y)
    BY <1>7, <2>1, WaitingIs
  <2>7. <<x, y>> \in Waiting <=> Idle(root, result, task, x) \/ Ahead(result, task, stack, x, y)
    BY <2>1, WaitingIs DEF Waiting
  <2> QED
    BY <2>3, <2>4, <2>5, <2>6, <2>7
<1>10. /\ keyed' = keyed /\ broken' = "no" /\ lists' = ls /\ root' = rs /\ Gone' = gone /\ Waiting' = wait
       /\ \A x \in DOMAIN ls : x \in DOMAIN lists /\ ls[x] = lists[x]
       /\ \A j \in Keys : rs[j] # 0 => rs[j] = root[j]
       /\ \A x, y : x \in DOMAIN ls /\ <<x, y>> \in Gone => <<x, y>> \in gone
       /\ task'.op \notin {"reserve", "evaluate", "copy"}
  BY <1>1, <1>2, <1>3, <1>6
<1>11. result' \in [Keys -> {"none", "ok"}] /\ \A j \in Keys : rs[j] = 0 => result'[j] = "none"
  BY <1>1, <1>2, <1>3, <1>5
<1> QED
  BY <1>9, <1>10, <1>11, StillRuns

(* The last cell of a list is marked.                                      *)
MarkedLast(cell) == [cell EXCEPT !.term = TRUE]

LEMMA ListEndRuns ==
  ASSUME OwnsInv, NEW label, KeyRuns(label), task.op = "reserve", result[task.key] = "none",
         Inner.i > Len(Inner.links), Depth # 1,
         NEW a, a = Inner.cells[Len(Inner.cells)], NEW c, c = MarkedLast(At(a)),
         lists' = Put(a, c), stack' = Outer, UNCHANGED <<keyed, root, result, task, broken>>
  PROVE  KeyRuns(label)'
<1>1. PICK b, i : b = Inner.cells[1][1] /\ i = Len(Inner.links)
  OBVIOUS
<1>2. /\ stack \in Seq(LoopFrames) /\ stack # <<>> /\ Depth = Len(stack) /\ Depth \in Nat \ {0}
      /\ Inner = stack[Depth] /\ CellsAreSound(lists)
  BY LoopsApart, ReserveHeap
<1>3. LoopOver(Inner, lists, root) /\ Inner \in LoopFrames /\ LoopIsWhole(Inner)
  <2>1. PICK ls : ls = lists
    OBVIOUS
  <2>2. /\ \A d : d \in DOMAIN ls <=> d \in DOMAIN lists
        /\ \A d \in DOMAIN lists : Len(ls[d]) = Len(lists[d])
        /\ \A d \in DOMAIN lists : d # Inner.cells[1][1] => \A j \in DOMAIN lists[d] : ls[d][j] = lists[d][j]
    BY <2>1
  <2> QED
    BY <2>2, LoopsLeft
<1>4. i \in Nat \ {0} /\ Len(Inner.cells) = i /\ i \in DOMAIN Inner.links
  <2>1. Inner.links \in Seq(KeyLinks) /\ Inner.links # <<>> /\ Len(Inner.cells) = Len(Inner.links)
    BY <1>3, FrameIs DEF LoopIsWhole
  <2> QED
    BY <1>1, <2>1
<1>5. /\ b \in DOMAIN lists /\ Len(lists[b]) = i /\ (\A k \in Keys : root[k] # b)
      /\ Inner.cells = CellsOf(b, Inner.links)
  BY <1>1, <1>3 DEF LoopOver
<1>6. a = <<b, i>>
  BY <1>4, <1>5 DEF CellsOf
<1>7. i \in DOMAIN lists[b] /\ lists[b][i] \in CellsOfKeys /\ SoundCell(lists[b][i]) /\ b \in Blocks
  <2>1. i \in DOMAIN lists[b]
    BY <1>2, <1>4, <1>5, BlockIs
  <2> QED
    BY <1>2, <1>5, <2>1, BlockIs
<1>8. PICK cell, ls : cell = lists[b][i] /\ ls = lists'
  OBVIOUS
<1>9. At(a) = cell
  BY <1>6, <1>8 DEF At
<1>10. c \in CellsOfKeys /\ c.ptr = cell.ptr /\ c.pl = cell.pl /\ c.code = cell.code
  BY <1>7, <1>8, <1>9 DEF CellsOfKeys, MarkedLast
<1>11. SoundCell(c)
  BY <1>7, <1>8, <1>10 DEF SoundCell
<1>12. ls = Replaced(lists, b, i, c)
  <2>1. a[1] = b /\ a[2] = i
    BY <1>6
  <2>2. Put(a, c) = Replaced(lists, b, i, c)
    BY <2>1 DEF Replaced, Put
  <2> QED
    BY <1>8, <2>2
<1>13. /\ DOMAIN ls = DOMAIN lists
       /\ \A d \in DOMAIN lists : DOMAIN ls[d] = DOMAIN lists[d] /\ Len(ls[d]) = Len(lists[d])
       /\ ls[b][i] = c
       /\ \A d \in DOMAIN lists : \A j \in DOMAIN lists[d] : d # b \/ j # i => ls[d][j] = lists[d][j]
  <2>1. CellsAreSound(lists) /\ b \in DOMAIN lists /\ i \in DOMAIN lists[b]
    BY <1>2, <1>5, <1>7
  <2>2. c \in CellsOfKeys
    BY <1>10
  <2> QED
    BY <1>11, <1>12, <2>1, <2>2, CellReplaced
<1>14. PICK rs, gone, wait, wait1, st : rs = root /\ gone = Gone' /\ wait = Waiting' /\ wait1 = Waiting /\ st = Outer
  OBVIOUS
<1>15. wait = WaitingFor(root, result, task, st)
  BY <1>14 DEF Waiting
<1>16. \A x \in DOMAIN lists : \A y \in DOMAIN lists[x] : <<x, y>> \in wait <=> <<x, y>> \in wait1
  BY <1>14, <1>15, LeftWaits, ZenonT(40)
<1>17. PICK none : none = {}
  OBVIOUS
<1>18. Gone = none /\ gone = none
  BY <1>14, <1>17 DEF Gone
<1>19. /\ broken = "no" /\ LabelsArePlain(label) /\ RootsLabelled(label, rs) /\ ReservesFor(stack, label)
       /\ Shape(label, lists, none, wait1)
       /\ result \in [Keys -> {"none", "ok"}] /\ \A k \in Keys : rs[k] = 0 => result[k] = "none"
  BY <1>14, <1>18 DEF KeyRuns
<1>20. <<b, i>> \notin wait1
  <2>1. ~Idle(root, result, task, b)
    BY <1>5 DEF Idle
  <2>2. ~Ahead(result, task, stack, b, i)
    <3> SUFFICES ASSUME NEW d \in DOMAIN stack, stack[d].cells[1][1] = b, stack[d].i <= i PROVE FALSE
      BY DEF Ahead
    <3>1. d = Depth
      BY <1>1, <1>2, LoopsApart
    <3> QED
      BY <1>5, <1>7, <3>1, OverAhead
  <2> QED
    BY <1>4, <1>7, <1>14, <2>1, <2>2, WaitingIs DEF Waiting
<1>21. Fitting(label, c, label[b][i])
  <2>1. Fitting(label, cell, label[b][i])
    BY <1>5, <1>7, <1>8, <1>17, <1>19, <1>20 DEF Shape
  <2> QED
    BY <1>10, <2>1 DEF Fitting
<1>22. ASSUME NEW x \in DOMAIN ls, NEW y \in DOMAIN ls[x]
       PROVE  \/ /\ x \in DOMAIN lists /\ y \in DOMAIN lists[x] /\ ls[x][y] = lists[x][y]
                 /\ <<x, y>> \in wait <=> <<x, y>> \in wait1
              \/ <<x, y>> \notin wait /\ Fitting(label, ls[x][y], label[x][y])
  <2>1. x \in DOMAIN lists /\ y \in DOMAIN lists[x]
    BY <1>13
  <2>2. <<x, y>> \in wait <=> <<x, y>> \in wait1
    BY <1>16, <2>1
  <2>3. CASE x = b /\ y = i
    BY <1>13, <1>20, <1>21, <2>2, <2>3
  <2>4. CASE x # b \/ y # i
    BY <1>13, <2>1, <2>2, <2>4
  <2> QED
    BY <2>3, <2>4
<1>23. \A x \in DOMAIN ls : Len(ls[x]) = Len(label[x])
  BY <1>13, <1>19 DEF Shape
<1>24. Shape(label, ls, gone, wait)
  <2>1. Shape(label, ls, none, wait)
    BY <1>19, <1>22, <1>23, ShapeStep
  <2> QED
    BY <1>18, <2>1
<1>25. ReservesFor(st, label)
  <2>1. st \in Seq(LoopFrames) /\ Len(st) = Depth - 1 /\ \A d \in 1..(Depth - 1) : st[d] = stack[d]
    BY <1>2, <1>14, StackPopped
  <2>2. \A d \in DOMAIN st : d \in DOMAIN stack /\ st[d] = stack[d]
    BY <1>2, <2>1
  <2> QED
    BY <1>19, <2>2 DEF ReservesFor
<1>26. task'.op = "reserve" /\ result'[task'.key] = "none"
  OBVIOUS
<1>27. task'.op = "reserve" => ReservesFor(stack', label) /\ (result'[task'.key] = "ok" => Again(stack)')
  BY <1>14, <1>25, <1>26
<1>28. /\ keyed' = keyed /\ broken' = "no" /\ lists' = ls /\ root' = rs /\ Gone' = gone /\ Waiting' = wait
       /\ RootsLabelled(label, rs) /\ LabelsArePlain(label) /\ task'.op \notin {"evaluate", "copy"}
  BY <1>8, <1>14, <1>19, <1>26
<1>29. result' \in [Keys -> {"none", "ok"}] /\ \A k \in Keys : rs[k] = 0 => result'[k] = "none"
  <2>1. PICK res : res = result
    OBVIOUS
  <2>2. res \in [Keys -> {"none", "ok"}] /\ \A k \in Keys : rs[k] = 0 => res[k] = "none"
    BY <1>19, <2>1
  <2> QED
    BY <2>1, <2>2
<1> QED
  BY <1>24, <1>27, <1>28, <1>29, RunsAfter

LEMMA ReserveEndRuns ==
  ASSUME OwnsInv, PlainQuery, NEW label, KeyRuns(label), ReserveEnd
  PROVE  KeyRuns(label)'
<1>1. /\ task.op = "reserve" /\ Inner.i > Len(Inner.links) /\ UNCHANGED <<keyed, root, broken>>
  BY DEF ReserveEnd, Runs
<1>2. result[task.key] = "none"
  <2>1. result[task.key] \in {"none", "ok"}
    BY <1>1, ReserveHeap DEF KeyRuns
  <2>2. ASSUME result[task.key] = "ok" PROVE FALSE
    <3>1. Inner.i = 1 /\ 1 <= Len(Inner.links)
      BY <1>1, <2>2, AgainCell
    <3>2. Len(Inner.links) \in Nat
      BY <1>1, LoopsApart, FrameIs
    <3> QED
      BY <1>1, <3>1, <3>2
  <2> QED
    BY <2>1, <2>2
<1>3. CASE Depth = 1
  <2>1. ReserveReturns("ok") /\ UNCHANGED lists
    BY <1>3 DEF ReserveEnd
  <2> QED
    BY <1>1, <1>2, <1>3, <2>1, ReturnRuns
<1>4. CASE Depth # 1
  <2>1. PICK a : a = Inner.cells[Len(Inner.cells)]
    OBVIOUS
  <2>2. PICK c : c = MarkedLast(At(a))
    OBVIOUS
  <2>3. lists' = Put(a, c) /\ stack' = Outer /\ UNCHANGED <<task, result>>
    BY <1>4, <2>1, <2>2 DEF ReserveEnd, MarkedLast
  <2> QED
    BY <1>1, <1>2, <1>4, <2>1, <2>2, <2>3, ListEndRuns
<1> QED
  BY <1>3, <1>4

(* Only a reservation counts an allocation that failed.                    *)
LEMMA FaultsCounted ==
  ASSUME [KeyNext]_keyVars, faults \in Nat
  PROVE  faults' \in Nat /\ (faults' = 0 => faults = 0)
<1>1. CASE UNCHANGED keyVars
  BY <1>1 DEF keyVars
<1>2. ASSUME NEW k \in Keys, NewKey(k) \/ ReserveKey(k) \/ FlatView(k) \/ DestroyKey(k)
      PROVE  faults' = faults
  BY <1>2 DEF NewKey, ReserveKey, FlatView, DestroyKey
<1>3. ASSUME NEW k, NEW v, EvaluateQuery(k, v) \/ CopyKey(k, v)
      PROVE  faults' = faults
  BY <1>3 DEF EvaluateQuery, CopyKey
<1>4. CASE ReserveLink
  <2>1. PICK l, a : l = Inner.links[Inner.i] /\ a = Inner.cells[Inner.i]
    OBVIOUS
  <2>2. \/ ReserveDatum(a)
        \/ ReserveList(l, a)
        \/ UNCHANGED faults
    BY <1>4, <2>1 DEF ReserveLink
  <2>3. faults' = faults \/ AllocationFails
    <3>1. CASE ReserveDatum(a)
      BY <3>1 DEF ReserveDatum
    <3>2. CASE ReserveList(l, a)
      <4>1. MarkAsList(a, Listed(l)) \/ UNCHANGED faults
        BY <3>2 DEF ReserveList
      <4> QED
        BY <4>1 DEF MarkAsList
    <3> QED
      BY <2>2, <3>1, <3>2
  <2> QED
    BY <2>3 DEF AllocationFails
<1>5. CASE ReserveEnd \/ EvaluateEnd \/ CopyEnd \/ ViewEnd \/ DestroyEnd
  BY <1>5 DEF ReserveEnd, EvaluateEnd, CopyEnd, ViewEnd, DestroyEnd
<1>6. CASE EvaluateLink \/ CopyCell \/ WalkCell \/ WalkUp
  BY <1>6 DEF EvaluateLink, CopyCell, WalkCell, WalkUp
<1> QED
  BY <1>1, <1>2, <1>3, <1>4, <1>5, <1>6 DEF KeyNext

LEMMA InitRuns ==
  ASSUME KeyInit
  PROVE  KeysRunInv
<1>1. /\ faults = 0 /\ broken = "no" /\ lists = <<>> /\ root = [k \in Keys |-> 0]
      /\ result = [k \in Keys |-> "none"] /\ task.op = "none"
  BY DEF KeyInit, NoTask
<1>2. PICK label : label = [b \in Blocks |-> <<>>]
  OBVIOUS
<1>3. LabelsArePlain(label)
  <2>1. \A b \in Blocks : label[b] = <<>>
    BY <1>2
  <2>2. \A b \in Blocks : label[b] \in Seq(KeyLinks) /\ \A j \in DOMAIN label[b] : PlainLink(label[b][j])
    <3>1. PICK e : e = <<>>
      OBVIOUS
    <3>2. e \in Seq(KeyLinks) /\ DOMAIN e = {}
      BY <3>1
    <3> QED
      BY <2>1, <3>1, <3>2
  <2>3. label \in [Blocks -> Seq(KeyLinks)]
    <3>1. PICK L : L = Seq(KeyLinks)
      OBVIOUS
    <3>2. <<>> \in L
      BY <3>1
    <3>3. label \in [Blocks -> L]
      BY <1>2, <3>2
    <3> QED
      BY <3>1, <3>3
  <2> QED
    BY <2>2, <2>3 DEF LabelsArePlain
<1>4. RootsLabelled(label, root)
  BY <1>1 DEF RootsLabelled
<1>5. Shape(label, lists, Gone, Waiting)
  BY <1>1 DEF Shape
<1>6. result \in [Keys -> {"none", "ok"}] /\ \A k \in Keys : root[k] = 0 => result[k] = "none"
  BY <1>1
<1>7. KeyRuns(label)
  BY <1>1, <1>3, <1>4, <1>5, <1>6 DEF KeyRuns
<1> QED
  BY <1>1, <1>7 DEF KeysRunInv

LEMMA StutterRuns ==
  ASSUME OwnsInv, NEW label, KeyRuns(label), UNCHANGED keyVars
  PROVE  KeyRuns(label)'
<1>1. UNCHANGED <<keyed, lists, root, result, task, stack, broken>>
  BY DEF keyVars
<1>2. Waiting' = Waiting /\ Gone' = Gone
  BY <1>1 DEF Waiting, Gone
<1>3. PICK ls, rs, gone, wait, res, tk, st :
         /\ ls = lists /\ rs = root /\ gone = Gone /\ wait = Waiting /\ res = result
         /\ tk = task /\ st = stack
  OBVIOUS
<1>4. /\ broken = "no" /\ LabelsArePlain(label) /\ RootsLabelled(label, rs) /\ Shape(label, ls, gone, wait)
      /\ res \in [Keys -> {"none", "ok"}] /\ \A k \in Keys : rs[k] = 0 => res[k] = "none"
      /\ tk.op = "reserve" => ReservesFor(st, label) /\ (res[tk.key] = "ok" => Again(st))
      /\ tk.op = "evaluate" => EvaluateLoops(st, label)
      /\ tk.op = "copy" => CopyLoops(st, label)
  BY <1>3 DEF KeyRuns
<1>5. Again(st) => Again(stack)'
  <2>1. PICK w : w = Whole
    OBVIOUS
  <2>2. Whole' = w /\ Listed(w)' = Listed(w)
    BY <1>1, <2>1, TableKept, ListedKept
  <2> QED
    BY <1>1, <1>3, <2>1, <2>2 DEF Again
<1>6. EvaluateLoops(st, label) => EvaluateLoops(stack, label)'
  <2>1. \A b : Reserved(b)' <=> Reserved(b)
    BY <1>1 DEF Reserved
  <2>2. \A l : Listed(l)' = Listed(l) /\ (PlainLink(l)' <=> PlainLink(l))
    BY <1>1, ListedKept
  <2>3. \A l, a : Served(label, l, a)' <=> Served(label, l, a)
    BY <1>1, <2>1, <2>2 DEF Served
  <2> QED
    BY <1>1, <1>3, <2>3 DEF EvaluateLoops
<1>7. CopyLoops(st, label) => CopyLoops(stack, label)'
  BY <1>1, <1>3 DEF CopyLoops, Reserved
<1>8. /\ keyed' = keyed /\ broken' = "no" /\ lists' = ls /\ root' = rs /\ Gone' = gone /\ Waiting' = wait
      /\ result' = res /\ task' = tk /\ stack' = st
  BY <1>1, <1>2, <1>3, <1>4
<1>9. /\ task'.op = "reserve" => ReservesFor(stack', label) /\ (result'[task'.key] = "ok" => Again(stack)')
      /\ task'.op = "evaluate" => EvaluateLoops(stack, label)'
      /\ task'.op = "copy" => CopyLoops(stack, label)'
  BY <1>4, <1>5, <1>6, <1>7, <1>8
<1>10. result' \in [Keys -> {"none", "ok"}] /\ \A k \in Keys : rs[k] = 0 => result'[k] = "none"
  BY <1>4, <1>8
<1> QED
  BY <1>4, <1>8, <1>9, <1>10, RunsAfter

LEMMA KeyStepRuns ==
  ASSUME OwnsInv, KeysRunInv, [KeyNext]_keyVars
  PROVE  KeysRunInv'
<1>1. faults' \in Nat /\ (faults' = 0 => faults = 0)
  BY FaultsCounted DEF KeysRunInv
<1> SUFFICES ASSUME faults' = 0, PlainQuery' PROVE \E label2 : KeyRuns(label2)'
  BY <1>1 DEF KeysRunInv
<1>2. keyed' = keyed
  BY DEF KeyNext, keyVars, NewKey, ReserveKey, FlatView, DestroyKey, EvaluateQuery, CopyKey, ReserveLink,
         ReserveEnd, EvaluateLink, EvaluateEnd, CopyCell, CopyEnd, WalkCell, WalkUp, ViewEnd, DestroyEnd
<1>3. PlainQuery /\ faults \in Nat /\ faults' = faults
  BY <1>1, <1>2, TableKept
<1>4. PICK label : KeyRuns(label)
  BY <1>1, <1>3 DEF KeysRunInv
<1>5. OwnsInv'
  BY KeyStepOwns
<1>6. CASE UNCHANGED keyVars
  BY <1>4, <1>6, StutterRuns
<1>7. ASSUME NEW k \in Keys, NewKey(k) PROVE \E label2 : KeyRuns(label2)'
  BY <1>3, <1>4, <1>7, NewKeyRuns
<1>8. ASSUME NEW k \in Keys, ReserveKey(k) PROVE KeyRuns(label)'
  BY <1>4, <1>8, ReserveKeyRuns
<1>9. ASSUME NEW k \in Keys, FlatView(k) \/ DestroyKey(k) PROVE KeyRuns(label)'
  BY <1>4, <1>9, WalkStartRuns
<1>10. ASSUME NEW k \in Keys, NEW v \in Rounds, EvaluateQuery(k, v) PROVE KeyRuns(label)'
  BY <1>3, <1>4, <1>10, EvaluateQueryRuns
<1>11. ASSUME NEW k \in Keys, NEW from \in Keys, CopyKey(k, from) PROVE KeyRuns(label)'
  BY <1>4, <1>11, CopyKeyRuns
<1>12. CASE ReserveLink
  BY <1>3, <1>4, <1>12, ReserveLinkRuns
<1>13. ReserveEnd => KeyRuns(label)'
  BY <1>3, <1>4, ReserveEndRuns
<1>14. EvaluateLink \/ EvaluateEnd => KeyRuns(label)'
  BY <1>3, <1>4, EvaluateLinkRuns, EvaluateEndRuns
<1>15. CopyCell \/ CopyEnd => KeyRuns(label)'
  BY <1>3, <1>4, CopyCellRuns, CopyEndRuns
<1>16. WalkCell \/ WalkUp => KeyRuns(label)'
  BY <1>4, <1>5, WalkCellRuns, WalkUpRuns
<1>17. ViewEnd \/ DestroyEnd => KeyRuns(label)'
  BY <1>4, ViewEndRuns, DestroyEndRuns
<1> QED
  BY <1>6, <1>7, <1>8, <1>9, <1>10, <1>11, <1>12, <1>13, <1>14, <1>15, <1>16, <1>17 DEF KeyNext

(* While no allocation fails, and if no link is an aggregate and the       *)
(* filters of products take no key, every assertion of the reservation,    *)
(* evaluation, copying and viewing of keys holds: for any queries, however *)
(* they nest, and any number of keys.                                      *)
THEOREM KeysRunThroughHolds == KeySpec => []KeysRunThrough
<1>1. KeyInit => OwnsInv /\ KeysRunInv
  BY InitOwns, InitRuns
<1>2. OwnsInv /\ KeysRunInv /\ [KeyNext]_keyVars => OwnsInv' /\ KeysRunInv'
  BY KeyStepOwns, KeyStepRuns
<1>3. KeysRunInv => KeysRunThrough
  BY DEF KeysRunInv, KeyRuns, KeysRunThrough
<1> QED
  BY <1>1, <1>2, <1>3, PTL DEF KeySpec
==============================================================================
