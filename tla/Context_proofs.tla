--------------------------- MODULE Context_proofs ---------------------------
(***************************************************************************)
(* Proofs about Context.  Every registry has an invariant of its own that  *)
(* its operations keep; a step of the context is a step of each registry   *)
(* or leaves it alone.  Induction over the number of records, for qsort,   *)
(* and over the width of a search, for bsearch, is done by the least       *)
(* number for which the claim would fail.                                  *)
(***************************************************************************)
EXTENDS Context, Sequences, WellFoundedInduction, TLAPS

(* Every set of natural numbers that is not empty has a least element.     *)
LEMMA LeastNumber ==
  ASSUME NEW T, T \subseteq Nat, T # {}
  PROVE  \E m \in T : \A k \in T : m <= k
<1> DEFINE R == OpToRel(<, Nat)
<1>1. IsWellFoundedOn(R, Nat)
  BY NatLessThanWellFounded
<1>2. \A a, b \in Nat : a < b => <<a, b>> \in R
  BY DEF OpToRel
<1> HIDE DEF R
<1>3. PICK m \in T : \A k \in T : ~(<<k, m>> \in R)
  BY <1>1, WFMin
<1>4. \A k \in T : k \in Nat /\ m \in Nat /\ ~(k < m)
  BY <1>2, <1>3
<1> QED
  BY <1>3, <1>4

(* The nearest of the tables up to t that are in S, 0 if none is.          *)
NearestIn(S, t, u) ==
  \/ u = 0 /\ \A v \in 1..t : v \notin S
  \/ u \in 1..t /\ u \in S /\ \A v \in (u + 1)..t : v \notin S

(* The CHOOSE of a greatest element of such a set finds that table.        *)
LEMMA GreatestIs ==
  ASSUME NEW S, NEW t \in Nat, NEW E, E = {u \in 1..t : u \in S} \cup {0}
  PROVE  NearestIn(S, t, CHOOSE u \in E : \A v \in E : u >= v)
<1> DEFINE m == CHOOSE u \in E : \A v \in E : u >= v
           D == {t - u : u \in E}
<1>1. D \subseteq Nat /\ D # {} /\ E \subseteq Nat
  OBVIOUS
<1>2. PICK d \in D : \A k \in D : d <= k
  <2> HIDE DEF D
  <2> QED
    BY <1>1, LeastNumber
<1>3. PICK u \in E : d = t - u
  BY <1>2
<1>4. ASSUME NEW v \in E PROVE u >= v
  <2>1. t - v \in D /\ u \in Nat /\ v \in Nat
    BY <1>1
  <2> HIDE DEF D
  <2> QED
    BY <1>2, <1>3, <2>1
<1>5. m \in E /\ \A v \in E : m >= v
  BY <1>3, <1>4
<1> HIDE DEF m
<1>6. \A w \in 1..t : w \in S => w \in E
  OBVIOUS
<1>7. m = 0 \/ (m \in 1..t /\ m \in S)
  BY <1>5
<1>8. m \in Nat /\ \A w \in 1..t : w \in S => w <= m
  BY <1>1, <1>5, <1>6, <1>7
<1>9. NearestIn(S, t, m)
  BY <1>7, <1>8 DEF NearestIn
<1> QED
  BY <1>9 DEF m

(* There is one such table.                                                *)
LEMMA NearestIsOne ==
  ASSUME NEW S, NEW t \in Nat, NEW u, NEW v, NearestIn(S, t, u), NearestIn(S, t, v)
  PROVE  u = v
BY DEF NearestIn

(* What a name means in the table t, and the promotions seen from it, when *)
(* the tables give it the codes f.                                         *)
Having(f, n) == {u \in Types!Table : f[u][n] # NULL}
NearestOf(f, t, n) ==
  LET E == {u \in 1..t : f[u][n] # NULL} \cup {0} IN CHOOSE u \in E : \A v \in E : u >= v
SeenIn(f, t, n) == LET u == NearestOf(f, t, n) IN IF u = 0 THEN NULL ELSE f[u][n]
RebuiltOf(f, t) ==
  {<<{SeenIn(f, t, p[1]), SeenIn(f, t, p[2])}, SeenIn(f, t, p[3])>> :
     p \in {q \in Promotions : \A k \in 1..3 : SeenIn(f, t, q[k]) # NULL}}

(* The nearest table that has a name is what the code of it is read from.  *)
LEMMA NearestName ==
  ASSUME NEW t \in Types!Table, NEW f, NEW n
  PROVE  NearestIn(Having(f, n), t, NearestOf(f, t, n))
<1> DEFINE E == {u \in 1..t : f[u][n] # NULL} \cup {0}
<1>1. t \in Nat /\ E = {u \in 1..t : u \in Having(f, n)} \cup {0}
  BY DepthAssumption DEF Having, Types!Table
<1>2. NearestOf(f, t, n) = CHOOSE u \in E : \A v \in E : u >= v
  BY DEF NearestOf
<1> HIDE DEF E
<1> QED
  BY <1>1, <1>2, GreatestIs

(* The operators of TypeTable are these ones, of the tables as they are,   *)
(* ...                                                                     *)
LEMMA CodesAre ==
  /\ \A t, n : Types!Nearest(t, n) = NearestOf(codeByName, t, n)
  /\ \A t, n : Types!CodeOf(t, n) = SeenIn(codeByName, t, n)
  /\ \A t : Types!Rebuilt(t) = RebuiltOf(codeByName, t)
<1>1. \A t, n : Types!Nearest(t, n) = NearestOf(codeByName, t, n)
  BY DEF Types!Nearest, Types!Max, NearestOf
<1>2. \A t, n : Types!CodeOf(t, n) = SeenIn(codeByName, t, n)
  BY <1>1 DEF Types!CodeOf, SeenIn
<1> QED
  BY <1>1, <1>2 DEF Types!Rebuilt, RebuiltOf

(* ... and of the tables as they are after a step.                         *)
LEMMA CodesAreNext ==
  /\ \A t, n : Types!CodeOf(t, n)' = SeenIn(codeByName', t, n)
  /\ \A t : Types!Rebuilt(t)' = RebuiltOf(codeByName', t)
<1>1. \A t, n : Types!Nearest(t, n)' = NearestOf(codeByName', t, n)
  BY DEF Types!Nearest, Types!Max, NearestOf
<1>2. \A t, n : Types!CodeOf(t, n)' = SeenIn(codeByName', t, n)
  BY <1>1 DEF Types!CodeOf, SeenIn
<1> QED
  BY <1>1, <1>2 DEF Types!Rebuilt, RebuiltOf

(* A name that has a meaning has it from a table that defines it.          *)
LEMMA CodeFrom ==
  ASSUME NEW t \in Types!Table, NEW f, NEW n, SeenIn(f, t, n) # NULL
  PROVE  LET u == NearestOf(f, t, n) IN
         u \in 1..t /\ u \in Types!Table /\ f[u][n] # NULL /\ SeenIn(f, t, n) = f[u][n]
<1>1. NearestOf(f, t, n) \in 1..t
  BY NearestName DEF SeenIn, NearestIn
<1> QED
  BY <1>1, DepthAssumption DEF SeenIn, Types!Table

(* Tables that are not seen from t do not matter; ...                      *)
LEMMA CodesKept ==
  ASSUME NEW t \in Types!Table, NEW f, NEW g, \A u \in 1..t : g[u] = f[u]
  PROVE  (\A n : SeenIn(g, t, n) = SeenIn(f, t, n)) /\ RebuiltOf(g, t) = RebuiltOf(f, t)
<1>1. ASSUME NEW n PROVE SeenIn(g, t, n) = SeenIn(f, t, n)
  <2>1. {u \in 1..t : g[u][n] # NULL} = {u \in 1..t : f[u][n] # NULL}
    OBVIOUS
  <2>2. NearestOf(g, t, n) = NearestOf(f, t, n)
    BY <2>1 DEF NearestOf
  <2>3. NearestOf(f, t, n) \in 1..t \cup {0}
    BY NearestName DEF NearestIn
  <2> QED
    BY <2>2, <2>3 DEF SeenIn
<1> QED
  BY <1>1 DEF RebuiltOf

(* ... and a name that is defined keeps its code unless a nearer table     *)
(* defines it.                                                             *)
LEMMA CodesGrow ==
  ASSUME NEW t \in Types!Table, NEW f, NEW g, NEW n,
         \A u \in 1..t : f[u][n] # NULL => g[u][n] = f[u][n]
  PROVE  \/ SeenIn(g, t, n) = SeenIn(f, t, n)
         \/ \E u \in (NearestOf(f, t, n) + 1)..t : f[u][n] = NULL /\ g[u][n] # NULL
<1> DEFINE u == NearestOf(f, t, n)
           v == NearestOf(g, t, n)
<1>1. NearestIn(Having(f, n), t, u) /\ NearestIn(Having(g, n), t, v)
  BY NearestName
<1>2. \A w \in 1..t : w \in Having(f, n) <=> f[w][n] # NULL
  BY DepthAssumption DEF Having, Types!Table
<1>3. \A w \in 1..t : w \in Having(g, n) <=> g[w][n] # NULL
  BY DepthAssumption DEF Having, Types!Table
<1>4. /\ SeenIn(f, t, n) = (IF u = 0 THEN NULL ELSE f[u][n])
      /\ SeenIn(g, t, n) = (IF v = 0 THEN NULL ELSE g[v][n])
  BY DEF SeenIn
<1>5. t \in Nat /\ u \in Nat /\ v \in Nat
  BY <1>1, DepthAssumption DEF NearestIn, Types!Table
<1> HIDE DEF u, v
<1>6. CASE v \in (u + 1)..t
  <2>1. f[v][n] = NULL /\ g[v][n] # NULL
    BY <1>1, <1>2, <1>3, <1>5, <1>6 DEF NearestIn
  <2> QED
    BY <1>6, <2>1 DEF u
<1>7. CASE v \notin (u + 1)..t
  <2>1. v <= u /\ (u # 0 => u \in 1..t /\ f[u][n] # NULL)
    BY <1>1, <1>2, <1>5, <1>7 DEF NearestIn
  <2>2. u = v
    BY <1>1, <1>2, <1>3, <1>5, <2>1 DEF NearestIn
  <2> QED
    BY <1>4, <2>1, <2>2
<1> QED
  BY <1>6, <1>7

(***************************************************************************)
(* Types.                                                                  *)
(***************************************************************************)
TypesTyped ==
  /\ made \in Types!Table
  /\ codeByName \in [Types!Table -> [TypeNames -> Types!Code \cup {NULL}]]
  /\ items \in [Types!Table -> Seq(TypeNames)]
  /\ valid \in [Types!Table -> BOOLEAN]
  /\ DOMAIN cache = Types!Table
  /\ \A t \in Types!Table : t > made => items[t] = <<>> /\ ~valid[t]

(* NamesHaveTypes is needed to see that a name keeps its code, and that a  *)
(* table that is not in use is empty to see that a new one is.             *)
TypesInv == TypesTyped /\ Types!NamesHaveTypes /\ Types!CacheOnlyLacks

(* The types that there are keep their numbers in the tables up to t.      *)
ItemsKept(t) ==
  \A u \in 1..t : \A i \in DOMAIN items[u] :
    i \in DOMAIN items'[u] /\ items'[u][i] = items[u][i]

(* The code of a name leads to a type of a table that is alive.            *)
LEMMA NamedType ==
  ASSUME TypesInv, NEW t \in Types!Table, NEW n \in TypeNames, codeByName[t][n] # NULL
  PROVE  LET c == codeByName[t][n] IN
         /\ t \in 1..made /\ c \in Types!Code /\ c[1] \in 1..t /\ c[1] \in Types!Table
         /\ c[2] \in DOMAIN items[c[1]]
<1> DEFINE c == codeByName[t][n]
<1>1. c \in Types!Code
  BY DEF TypesInv, TypesTyped
<1>2. c[1] \in Types!Table /\ t \in Nat /\ t >= 1 /\ c[1] \in Nat /\ c[1] >= 1 /\ made \in Nat
  BY <1>1, DepthAssumption DEF Types!Code, Types!Table, TypesInv, TypesTyped
<1>3. t <= made /\ c[1] <= t /\ Types!ByCode(t, c) # NULL
  BY DEF TypesInv, Types!NamesHaveTypes, Types!Tier
<1>4. c[2] \in DOMAIN items[c[1]]
  BY <1>3 DEF Types!ByCode, Types!Tier
<1> QED
  BY <1>1, <1>2, <1>3, <1>4

(* A step that defines no name again and keeps the types.                  *)
LEMMA MeaningKept ==
  ASSUME TypesInv, NEW t \in 1..made, NEW n \in TypeNames, ItemsKept(t),
         \A u \in 1..t : codeByName[u][n] # NULL => codeByName'[u][n] = codeByName[u][n]
  PROVE  Types!Meaning(t, n)' = Types!Meaning(t, n) \/ Types!Shadowed(t, n)
<1> DEFINE c == SeenIn(codeByName, t, n)
           d == SeenIn(codeByName', t, n)
<1>1. t \in Types!Table
  BY DepthAssumption DEF TypesInv, TypesTyped, Types!Table
<1>2. \/ d = c
      \/ \E u \in (NearestOf(codeByName, t, n) + 1)..t :
           codeByName[u][n] = NULL /\ codeByName'[u][n] # NULL
  BY <1>1, CodesGrow
<1>3. Types!CodeOf(t, n) = c /\ Types!CodeOf(t, n)' = d
      /\ Types!Nearest(t, n) = NearestOf(codeByName, t, n)
  BY CodesAre, CodesAreNext
<1>4. CASE d # c
  BY <1>2, <1>3, <1>4 DEF Types!Shadowed
<1>5. CASE d = c /\ c = NULL
  BY <1>3, <1>5 DEF Types!Meaning
<1>6. CASE d = c /\ c # NULL
  <2>1. PICK u \in 1..t : u \in Types!Table /\ codeByName[u][n] # NULL /\ c = codeByName[u][n]
    BY <1>1, <1>6, CodeFrom
  <2>2. c[1] \in 1..u /\ c[2] \in DOMAIN items[c[1]]
    BY <2>1, NamedType
  <2>3. c[1] \in 1..t
    BY <2>1, <2>2, <1>1, DepthAssumption DEF Types!Table
  <2> HIDE DEF c, d
  <2>4. c[2] \in DOMAIN items'[c[1]] /\ items'[c[1]][c[2]] = items[c[1]][c[2]]
    BY <2>2, <2>3 DEF ItemsKept
  <2>5. Types!Meaning(t, n) = <<c, items[c[1]][c[2]]>>
    BY <1>3, <1>6, <2>2 DEF Types!Meaning, Types!ByCode, Types!Tier
  <2>6. Types!Meaning(t, n)' = <<d, items'[c[1]][c[2]]>>
    BY <1>3, <1>6, <2>4 DEF Types!Meaning, Types!ByCode, Types!Tier
  <2> QED
    BY <1>6, <2>4, <2>5, <2>6
<1> QED
  BY <1>4, <1>5, <1>6

(* Below two tables nothing is defined that was not seen before.           *)
LEMMA PromotionsKept ==
  ASSUME NEW t \in Types!Table, t <= 2, NEW f, NEW g, g[t] = f[t],
         \A u \in 1..t, n \in TypeNames : f[u][n] # NULL => g[u][n] = f[u][n]
  PROVE  RebuiltOf(f, t) \subseteq RebuiltOf(g, t)
<1>1. ASSUME NEW n \in TypeNames, SeenIn(f, t, n) # NULL
      PROVE  SeenIn(g, t, n) = SeenIn(f, t, n)
  <2>1. NearestOf(f, t, n) \in 1..t
    BY <1>1, CodeFrom
  <2>2. \A u \in (NearestOf(f, t, n) + 1)..t : u = t
    BY <2>1, DepthAssumption DEF Types!Table
  <2>3. \A u \in 1..t : f[u][n] # NULL => g[u][n] = f[u][n]
    OBVIOUS
  <2> QED
    BY <2>2, <2>3, CodesGrow
<1>2. \A q \in Promotions : \A k \in 1..3 : q[k] \in TypeNames
  BY TypesAssumption
<1>3. ASSUME NEW q \in Promotions, \A k \in 1..3 : SeenIn(f, t, q[k]) # NULL
      PROVE  \A k \in 1..3 : SeenIn(g, t, q[k]) = SeenIn(f, t, q[k])
  BY <1>1, <1>2, <1>3
<1> DEFINE P(i) == {q \in Promotions : \A k \in 1..3 : SeenIn(i, t, q[k]) # NULL}
           E(i, p) == <<{SeenIn(i, t, p[1]), SeenIn(i, t, p[2])}, SeenIn(i, t, p[3])>>
<1>4. \A q \in P(f) : q \in P(g) /\ E(g, q) = E(f, q)
  <2> TAKE q \in P(f)
  <2>1. \A k \in 1..3 : SeenIn(g, t, q[k]) = SeenIn(f, t, q[k])
    BY <1>3
  <2> QED
    BY <2>1
<1> HIDE DEF E, P
<1>5. {E(f, p) : p \in P(f)} \subseteq {E(g, p) : p \in P(g)}
  BY <1>4
<1> QED
  BY <1>5 DEF RebuiltOf, E, P

(* A name is given a code of a type that is there, or that is new.         *)
LEMMA NameGiven ==
  ASSUME TypesInv, NEW t \in 1..made, NEW n \in TypeNames, codeByName[t][n] = NULL,
         NEW c \in Types!Code, c[1] <= t, c[2] \in DOMAIN items'[c[1]],
         codeByName' = [codeByName EXCEPT ![t][n] = c],
         items' \in [Types!Table -> Seq(TypeNames)],
         \A u \in Types!Table : u > made => items'[u] = <<>>, ItemsKept(Depth),
         valid' = [valid EXCEPT ![t] = FALSE], made' = made, cache' = cache
  PROVE  TypesInv'
<1>1. made \in Types!Table /\ made \in Nat /\ Depth \in Nat /\ t \in Types!Table
  BY DepthAssumption DEF TypesInv, TypesTyped, Types!Table
<1>2. TypesTyped'
  BY <1>1 DEF TypesInv, TypesTyped
<1>3. \A u \in Types!Table, m \in TypeNames :
        /\ codeByName[u][m] # NULL => codeByName'[u][m] = codeByName[u][m]
        /\ codeByName'[u][m] # codeByName[u][m] => u = t /\ m = n /\ codeByName'[u][m] = c
        /\ u # t => codeByName'[u] = codeByName[u]
  BY <1>1 DEF TypesInv, TypesTyped
<1>4. Types!NamesHaveTypes'
  <2> SUFFICES ASSUME NEW u \in Types!Table, NEW m \in TypeNames, codeByName'[u][m] # NULL
      PROVE  LET e == codeByName'[u][m] IN
             u <= made /\ e[1] <= u /\ e[1] \in Types!Table /\ e[2] \in DOMAIN items'[e[1]]
    <3>1. \A e \in Types!Code : e[1] \in Types!Table /\ e[2] \in DOMAIN items'[e[1]]
             => Types!ByCode(made, e)' # NULL
      BY NullAssumption DEF Types!ByCode, Types!Tier
    <3>2. \A e : \A u1 \in Types!Table : Types!ByCode(u1, e)' = Types!ByCode(made, e)'
      BY DEF Types!ByCode, Types!Tier
    <3>3. \A u1 \in Types!Table, m1 \in TypeNames :
            codeByName'[u1][m1] # NULL => codeByName'[u1][m1] \in Types!Code
      BY <1>2 DEF TypesTyped
    <3> QED
      BY <3>1, <3>2, <3>3 DEF Types!NamesHaveTypes, Types!Tier
  <2>1. CASE codeByName'[u][m] # codeByName[u][m]
    BY <1>1, <1>3, <2>1, DepthAssumption DEF Types!Code
  <2>2. CASE codeByName'[u][m] = codeByName[u][m]
    <3> DEFINE e == codeByName[u][m]
    <3>1. u \in 1..made /\ e[1] \in 1..u /\ e[1] \in Types!Table /\ e[2] \in DOMAIN items[e[1]]
      BY <2>2, NamedType
    <3>2. e[1] \in 1..Depth
      BY <3>1 DEF Types!Table
    <3>3. e[2] \in DOMAIN items'[e[1]]
      BY <3>1, <3>2 DEF ItemsKept
    <3> QED
      BY <1>1, <2>2, <3>1, <3>3 DEF Types!Table
  <2> QED
    BY <2>1, <2>2
<1>5. Types!CacheOnlyLacks'
  <2> SUFFICES ASSUME NEW u \in 1..made, valid'[u], u <= 2
               PROVE  /\ cache[u] \subseteq RebuiltOf(codeByName', u)
                      /\ u = 1 => cache[u] = RebuiltOf(codeByName', u)
    BY CodesAreNext DEF Types!CacheOnlyLacks
  <2>1. u \in Types!Table /\ u # t /\ valid[u]
    BY <1>1, DepthAssumption DEF Types!Table, TypesInv, TypesTyped
  <2>2. cache[u] \subseteq RebuiltOf(codeByName, u) /\ (u = 1 => cache[u] = RebuiltOf(codeByName, u))
    BY <2>1, CodesAre DEF TypesInv, Types!CacheOnlyLacks
  <2> DEFINE f == codeByName
             g == codeByName'
  <2>3. g[u] = f[u]
    BY <1>3, <2>1
  <2>4. \A v \in 1..u, m \in TypeNames : f[v][m] # NULL => g[v][m] = f[v][m]
    BY <1>3, <2>1, DepthAssumption DEF Types!Table
  <2>5. RebuiltOf(f, u) \subseteq RebuiltOf(g, u)
    <3> HIDE DEF f, g
    <3> QED
      BY <2>1, <2>3, <2>4, PromotionsKept
  <2>6. u = 1 => RebuiltOf(g, u) = RebuiltOf(f, u)
    <3>1. u = 1 => \A v \in 1..u : g[v] = f[v]
      BY <2>3
    <3> HIDE DEF f, g
    <3> QED
      BY <2>1, <3>1, CodesKept
  <2> QED
    BY <2>2, <2>5, <2>6
<1> QED
  BY <1>2, <1>4, <1>5 DEF TypesInv

(* Names and types stay, and what is valid is what was.                    *)
LEMMA TypesSame ==
  ASSUME TypesInv, made' \in Types!Table, made <= made',
         codeByName' = codeByName, items' = items,
         valid' \in [Types!Table -> BOOLEAN], DOMAIN cache' = Types!Table,
         \A t \in Types!Table : valid'[t] =>
           t <= made' /\ (cache'[t] = RebuiltOf(codeByName, t) \/ (valid[t] /\ cache'[t] = cache[t]))
  PROVE  TypesInv'
<1>1. \A t \in Types!Table : t > made' => t > made
  BY DepthAssumption DEF Types!Table, TypesInv, TypesTyped
<1>2. TypesTyped'
  <2>1. \A t \in Types!Table : t > made' => ~valid'[t]
    BY DepthAssumption DEF Types!Table
  <2> QED
    BY <1>1, <2>1 DEF TypesInv, TypesTyped
<1>3. Types!NamesHaveTypes'
  <2>1. \A t, c : Types!ByCode(t, c)' = Types!ByCode(t, c)
    BY DEF Types!ByCode
  <2>2. \A t \in Types!Table : t <= made => t <= made'
    BY DepthAssumption DEF Types!Table, TypesInv, TypesTyped
  <2> QED
    BY <2>1, <2>2 DEF TypesInv, Types!NamesHaveTypes, Types!Tier
<1>4. Types!CacheOnlyLacks'
  <2> SUFFICES ASSUME NEW t \in 1..made', valid'[t], t <= 2
               PROVE  /\ cache'[t] \subseteq RebuiltOf(codeByName, t)
                      /\ t = 1 => cache'[t] = RebuiltOf(codeByName, t)
    BY CodesAreNext DEF Types!CacheOnlyLacks
  <2>1. t \in Types!Table
    BY DepthAssumption DEF Types!Table
  <2>2. CASE cache'[t] = RebuiltOf(codeByName, t)
    BY <2>2
  <2>3. CASE valid[t] /\ cache'[t] = cache[t]
    <3>1. t \in 1..made
      BY <2>1, <2>3, DepthAssumption DEF Types!Table, TypesInv, TypesTyped
    <3>2. cache[t] \subseteq Types!Rebuilt(t) /\ (t = 1 => cache[t] = Types!Rebuilt(t))
      BY <2>3, <3>1 DEF TypesInv, Types!CacheOnlyLacks
    <3> QED
      BY <2>3, <3>2, CodesAre
  <2> QED
    BY <2>1, <2>2, <2>3
<1> QED
  BY <1>2, <1>3, <1>4 DEF TypesInv

(* The invariant of the types holds in the initial state, ...              *)
LEMMA TypesInit == Types!Init => TypesInv
<1> SUFFICES ASSUME Types!Init PROVE TypesInv
  OBVIOUS
<1>1. TypesTyped
  BY DepthAssumption DEF Types!Init, TypesTyped, Types!NoNames, Types!Table
<1>2. Types!NamesHaveTypes /\ Types!CacheOnlyLacks
  BY DepthAssumption DEF Types!Init, Types!NoNames, Types!NamesHaveTypes,
     Types!CacheOnlyLacks, Types!Table
<1> QED
  BY <1>1, <1>2 DEF TypesInv

(* What the properties say of a step.                                      *)
TypesMeanings ==
  \/ UNCHANGED <<made, codeByName, items>>
  \/ \A t \in 1..made, n \in TypeNames :
       t <= made' => (Types!Meaning(t, n)' = Types!Meaning(t, n) \/ Types!Shadowed(t, n))

(* ... when a context is created, ...                                      *)
LEMMA TypesCreate ==
  ASSUME TypesInv, Types!CreateDescendant
  PROVE  TypesInv' /\ TypesMeanings
<1>1. /\ made' \in Types!Table /\ made <= made'
      /\ codeByName' = codeByName /\ items' = items /\ valid' = valid /\ cache' = cache
  BY DepthAssumption DEF TypesInv, TypesTyped, Types!CreateDescendant, Types!Table
<1>2. \A t \in Types!Table : valid[t] => t <= made'
  BY <1>1, DepthAssumption DEF TypesInv, TypesTyped, Types!Table
<1>3. TypesInv'
  BY <1>1, <1>2, TypesSame DEF TypesInv, TypesTyped
<1>4. ASSUME NEW t \in 1..made, NEW n \in TypeNames
      PROVE  Types!Meaning(t, n)' = Types!Meaning(t, n) \/ Types!Shadowed(t, n)
  BY <1>1, MeaningKept DEF ItemsKept
<1> QED
  BY <1>3, <1>4 DEF TypesMeanings

(* ... when the last one is destroyed: no other table leads to its types,  *)
(* ...                                                                     *)
LEMMA TypesDestroy ==
  ASSUME TypesInv, Types!Destroy
  PROVE  TypesInv' /\ TypesMeanings
<1>1. /\ made \in Types!Table /\ made \in Nat /\ Depth \in Nat /\ made' = made - 1
      /\ made > 1 /\ made' \in Types!Table
  BY DepthAssumption DEF TypesInv, TypesTyped, Types!Destroy, Types!Table
<1>2. ASSUME NEW t \in Types!Table, t <= made'
      PROVE  /\ t \in 1..made /\ t # made
             /\ codeByName'[t] = codeByName[t] /\ items'[t] = items[t]
             /\ valid'[t] = valid[t] /\ cache'[t] = cache[t]
  <2>1. t \in 1..made /\ t # made
    BY <1>1, <1>2 DEF Types!Table
  <2> QED
    BY <2>1 DEF TypesInv, TypesTyped, Types!Destroy
<1>3. \A t \in Types!Table : t > made' =>
        codeByName'[t] = Types!NoNames /\ items'[t] = <<>> /\ ~valid'[t]
  <2> SUFFICES ASSUME NEW t \in Types!Table, t > made'
               PROVE  codeByName'[t] = Types!NoNames /\ items'[t] = <<>> /\ ~valid'[t]
    OBVIOUS
  <2>1. CASE t = made
    BY <1>1, <2>1 DEF TypesInv, TypesTyped, Types!Destroy
  <2>2. CASE t # made
    <3>1. t > made
      BY <1>1, <2>2 DEF Types!Table
    <3>2. items[t] = <<>> /\ ~valid[t]
      BY <3>1 DEF TypesInv, TypesTyped
    <3>3. \A n \in TypeNames : codeByName[t][n] = NULL
      BY <1>1, <3>1 DEF TypesInv, Types!NamesHaveTypes, Types!Table
    <3>4. codeByName[t] = Types!NoNames
      BY <3>3 DEF TypesInv, TypesTyped, Types!NoNames
    <3> QED
      BY <2>2, <3>2, <3>4 DEF TypesInv, TypesTyped, Types!Destroy
  <2> QED
    BY <2>1, <2>2
<1>4. TypesTyped'
  BY <1>1, <1>3 DEF TypesInv, TypesTyped, Types!Destroy, Types!NoNames
<1>5. ASSUME NEW t \in Types!Table, t <= made'
      PROVE  \A u \in 1..t : /\ u \in Types!Table /\ codeByName'[u] = codeByName[u]
                             /\ items'[u] = items[u]
  BY <1>1, <1>2, <1>5 DEF Types!Table
<1>6. Types!NamesHaveTypes'
  <2> SUFFICES ASSUME NEW t \in Types!Table, NEW n \in TypeNames, codeByName'[t][n] # NULL
               PROVE  LET c == codeByName'[t][n] IN
                      /\ t <= made' /\ c[1] <= t
                      /\ c[2] \in DOMAIN items'[c[1]] /\ items'[c[1]][c[2]] # NULL
    BY DEF Types!NamesHaveTypes, Types!Tier, Types!ByCode
  <2>1. t <= made'
    BY <1>1, <1>3 DEF Types!NoNames, Types!Table
  <2>2. codeByName'[t] = codeByName[t]
    BY <1>2, <2>1
  <2> DEFINE c == codeByName[t][n]
  <2>3. c[1] \in 1..t /\ c[2] \in DOMAIN items[c[1]]
    BY <2>2, NamedType
  <2>4. c[1] <= t /\ items[c[1]][c[2]] # NULL
    BY <2>2, <2>3 DEF TypesInv, Types!NamesHaveTypes, Types!Tier, Types!ByCode
  <2>5. items'[c[1]] = items[c[1]]
    BY <1>5, <2>1, <2>3
  <2> QED
    BY <2>1, <2>2, <2>3, <2>4, <2>5
<1>7. Types!CacheOnlyLacks'
  <2> SUFFICES ASSUME NEW t \in 1..made', valid'[t], t <= 2
               PROVE  /\ cache'[t] \subseteq RebuiltOf(codeByName', t)
                      /\ t = 1 => cache'[t] = RebuiltOf(codeByName', t)
    BY CodesAreNext DEF Types!CacheOnlyLacks
  <2>1. t \in Types!Table /\ t <= made' /\ t \in 1..made /\ valid[t] /\ cache'[t] = cache[t]
    BY <1>1, <1>2 DEF Types!Table
  <2>2. cache[t] \subseteq Types!Rebuilt(t) /\ (t = 1 => cache[t] = Types!Rebuilt(t))
    BY <2>1 DEF TypesInv, Types!CacheOnlyLacks
  <2> DEFINE f == codeByName
             g == codeByName'
  <2>3. \A u \in 1..t : g[u] = f[u]
    BY <1>5, <2>1
  <2>4. RebuiltOf(g, t) = RebuiltOf(f, t)
    <3> HIDE DEF f, g
    <3> QED
      BY <2>1, <2>3, CodesKept
  <2> QED
    BY <2>1, <2>2, <2>4, CodesAre
<1>8. ASSUME NEW t \in 1..made, NEW n \in TypeNames, t <= made'
      PROVE  Types!Meaning(t, n)' = Types!Meaning(t, n) \/ Types!Shadowed(t, n)
  <2>1. t \in Types!Table
    BY <1>1 DEF Types!Table
  <2>2. \A u \in 1..t : codeByName'[u] = codeByName[u] /\ items'[u] = items[u]
    BY <1>5, <1>8, <2>1
  <2>3. ItemsKept(t)
    BY <2>2 DEF ItemsKept
  <2> QED
    BY <2>2, <2>3, MeaningKept
<1> QED
  BY <1>4, <1>6, <1>7, <1>8 DEF TypesInv, TypesMeanings

(* Meanings while no table goes away.                                      *)
LEMMA MeaningsKept ==
  ASSUME TypesInv, ItemsKept(Depth),
         \A t \in Types!Table, n \in TypeNames :
           codeByName[t][n] # NULL => codeByName'[t][n] = codeByName[t][n]
  PROVE  TypesMeanings
<1> SUFFICES ASSUME NEW t \in 1..made, NEW n \in TypeNames
             PROVE  Types!Meaning(t, n)' = Types!Meaning(t, n) \/ Types!Shadowed(t, n)
  BY DEF TypesMeanings
<1>1. \A u \in 1..t : u \in Types!Table /\ u \in 1..Depth
  BY DepthAssumption DEF TypesInv, TypesTyped, Types!Table
<1>2. ItemsKept(t)
  BY <1>1 DEF ItemsKept
<1> QED
  BY <1>1, <1>2, MeaningKept

(* (An operation that is refused only makes the cache of the table         *)
(* invalid.)                                                               *)
LEMMA NothingDefined ==
  ASSUME TypesInv, NEW t \in 1..made, UNCHANGED <<made, codeByName, items>>,
         valid' = [valid EXCEPT ![t] = FALSE], cache' = cache
  PROVE  TypesInv' /\ TypesMeanings
<1>1. /\ \A u \in Types!Table : valid'[u] => valid[u] /\ u <= made
      /\ valid' \in [Types!Table -> BOOLEAN]
  BY DepthAssumption DEF TypesInv, TypesTyped, Types!Table
<1>2. made' \in Types!Table /\ made <= made' /\ DOMAIN cache' = Types!Table
  BY DepthAssumption DEF TypesInv, TypesTyped, Types!Table
<1> QED
  BY <1>1, <1>2, TypesSame DEF TypesMeanings

(* ... when a type is defined, ...                                         *)
LEMMA TypesDefine ==
  ASSUME TypesInv, NEW t \in 1..made, NEW n \in TypeNames, Types!Define(t, n)
  PROVE  TypesInv' /\ TypesMeanings
<1>1. CASE Types!Refused(t, n)
  BY <1>1, NothingDefined DEF Types!Define
<1>2. CASE ~Types!Refused(t, n)
  <2> DEFINE c == <<t, Types!NextNumber(t)>>
  <2>1. /\ t \in Types!Table /\ made \in Nat /\ t <= made /\ codeByName[t][n] = NULL
        /\ items[t] \in Seq(TypeNames) /\ Len(items[t]) \in Nat
        /\ Types!NextNumber(t) = Len(items[t]) + 1 /\ Types!NextNumber(t) <= MaxTypes
    BY <1>2, DepthAssumption, TypesAssumption
       DEF TypesInv, TypesTyped, Types!Table, Types!Refused, Types!NextNumber
  <2>2. /\ codeByName' = [codeByName EXCEPT ![t][n] = c]
        /\ items' = [items EXCEPT ![t] = Append(@, n)]
        /\ valid' = [valid EXCEPT ![t] = FALSE] /\ made' = made /\ cache' = cache
    BY <1>2 DEF Types!Define
  <2>3. c \in Types!Code /\ c[1] <= t /\ c[1] = t /\ c[2] = Len(items[t]) + 1
    BY <2>1, TypesAssumption DEF Types!Code, Types!Table
  <2>4. items[t] \in Seq(TypeNames) /\ items'[t] = Append(items[t], n)
    BY <2>1, <2>2 DEF TypesInv, TypesTyped
  <2>5. /\ items'[t] \in Seq(TypeNames) /\ Len(items[t]) + 1 \in DOMAIN items'[t]
        /\ \A i \in DOMAIN items[t] : i \in DOMAIN items'[t] /\ items'[t][i] = items[t][i]
    BY <2>4
  <2>6. \A u \in Types!Table : u # t => items'[u] = items[u]
    BY <2>2 DEF TypesInv, TypesTyped
  <2>7. items' \in [Types!Table -> Seq(TypeNames)]
    BY <2>2, <2>5, <2>6 DEF TypesInv, TypesTyped
  <2>8. ItemsKept(Depth)
    BY <2>5, <2>6 DEF ItemsKept, Types!Table
  <2>9. \A u \in Types!Table : u > made => items'[u] = <<>>
    BY <2>1, <2>6 DEF TypesInv, TypesTyped
  <2>10. \A u \in Types!Table, m \in TypeNames :
           codeByName[u][m] # NULL => codeByName'[u][m] = codeByName[u][m]
    BY <2>1, <2>2 DEF TypesInv, TypesTyped
  <2>11. TypesMeanings
    BY <2>8, <2>10, MeaningsKept
  <2>12. c[2] \in DOMAIN items'[c[1]]
    BY <2>3, <2>5
  <2> HIDE DEF c
  <2>13. TypesInv'
    BY <2>1, <2>2, <2>3, <2>7, <2>8, <2>9, <2>12, NameGiven
  <2> QED
    BY <2>11, <2>13
<1> QED
  BY <1>1, <1>2

(* ... when an alias is, ...                                               *)
LEMMA TypesAlias ==
  ASSUME TypesInv, NEW t \in 1..made, NEW n \in TypeNames, NEW c \in Types!Code,
         Types!Alias(t, n, c)
  PROVE  TypesInv' /\ TypesMeanings
<1>1. CASE codeByName' = codeByName
  BY <1>1, NothingDefined DEF Types!Alias
<1>2. CASE codeByName' # codeByName
  <2>1. /\ codeByName[t][n] = NULL /\ c[2] \in DOMAIN items[c[1]]
        /\ codeByName' = [codeByName EXCEPT ![t][n] = c] /\ ~(c[1] > t)
    BY <1>2 DEF Types!Alias, Types!ByCode, Types!Tier
  <2>2. made' = made /\ items' = items /\ cache' = cache /\ valid' = [valid EXCEPT ![t] = FALSE]
    BY DEF Types!Alias
  <2>3. c[1] <= t /\ t \in Types!Table
    BY <2>1, DepthAssumption DEF Types!Code, Types!Table, TypesInv, TypesTyped
  <2>4. ItemsKept(Depth) /\ items' \in [Types!Table -> Seq(TypeNames)]
        /\ \A u \in Types!Table : u > made => items'[u] = <<>>
    BY <2>2 DEF ItemsKept, TypesInv, TypesTyped
  <2>5. \A u \in Types!Table, m \in TypeNames :
           codeByName[u][m] # NULL => codeByName'[u][m] = codeByName[u][m]
    BY <2>1, <2>3 DEF TypesInv, TypesTyped
  <2>6. TypesMeanings
    BY <2>4, <2>5, MeaningsKept
  <2>7. c[2] \in DOMAIN items'[c[1]]
    BY <2>1, <2>2
  <2>8. TypesInv'
    BY <2>1, <2>2, <2>3, <2>4, <2>7, NameGiven
  <2> QED
    BY <2>6, <2>8
<1> QED
  BY <1>1, <1>2

(* ... and when the promotions are asked for.                              *)
LEMMA TypesPromote ==
  ASSUME TypesInv, NEW t \in 1..made, Types!Promote(t)
  PROVE  TypesInv' /\ TypesMeanings
<1>1. t \in Types!Table /\ made \in Nat
  BY DepthAssumption DEF Types!Table, TypesInv, TypesTyped
<1>2. /\ made' = made /\ codeByName' = codeByName /\ items' = items
      /\ valid' = [valid EXCEPT ![t] = TRUE]
      /\ cache' = IF valid[t] THEN cache ELSE [cache EXCEPT ![t] = RebuiltOf(codeByName, t)]
  BY CodesAre DEF Types!Promote
<1>3. valid' \in [Types!Table -> BOOLEAN] /\ DOMAIN cache' = Types!Table
  BY <1>1, <1>2 DEF TypesInv, TypesTyped
<1>4. ASSUME NEW u \in Types!Table, valid'[u]
      PROVE  u <= made' /\ (cache'[u] = RebuiltOf(codeByName, u) \/ (valid[u] /\ cache'[u] = cache[u]))
  <2>1. CASE u = t
    BY <1>1, <1>2, <2>1 DEF TypesInv, TypesTyped
  <2>2. CASE u # t
    <3>1. valid[u] /\ cache'[u] = cache[u]
      BY <1>1, <1>2, <1>4, <2>2 DEF TypesInv, TypesTyped
    <3>2. u <= made
      BY <3>1, <1>1 DEF TypesInv, TypesTyped, Types!Table
    <3> QED
      BY <1>2, <3>1, <3>2
  <2> QED
    BY <2>1, <2>2
<1>5. made' \in Types!Table /\ made <= made'
  BY <1>1, <1>2 DEF TypesInv, TypesTyped
<1>6. TypesInv'
  BY <1>2, <1>3, <1>4, <1>5, TypesSame
<1> QED
  BY <1>2, <1>6 DEF TypesMeanings

(* The invariant of the types is inductive, and no step changes a meaning  *)
(* but by hiding it.                                                       *)
LEMMA TypesNext ==
  ASSUME TypesInv, [Types!Next]_(Types!vars)
  PROVE  TypesInv' /\ TypesMeanings
<1>1. CASE UNCHANGED Types!vars
  <2>1. /\ made' \in Types!Table /\ made <= made' /\ codeByName' = codeByName /\ items' = items
        /\ valid' = valid /\ cache' = cache /\ made' = made
    BY <1>1, DepthAssumption DEF Types!vars, TypesInv, TypesTyped, Types!Table
  <2>2. \A t \in Types!Table : valid[t] => t <= made
    BY DepthAssumption DEF TypesInv, TypesTyped, Types!Table
  <2> QED
    BY <2>1, <2>2, TypesSame DEF TypesMeanings, TypesInv, TypesTyped
<1>2. CASE Types!CreateDescendant
  BY <1>2, TypesCreate
<1>3. CASE Types!Destroy
  BY <1>3, TypesDestroy
<1>4. ASSUME NEW t \in 1..made, Types!Operation(t)
      PROVE  TypesInv' /\ TypesMeanings
  BY <1>4, TypesDefine, TypesAlias, TypesPromote DEF Types!Operation
<1> QED
  BY <1>1, <1>2, <1>3, <1>4 DEF Types!Next

(***************************************************************************)
(* Constants.                                                              *)
(***************************************************************************)
(* What was accepted last is in the table it was given to.                 *)
ConstantsInv ==
  /\ made \in Types!Table
  /\ values \in [Types!Table -> [ConstantNames -> Constants!Item \cup {NULL}]]
  /\ \A t \in Types!Table : t > made => values[t] = Constants!Undefined
  /\ lastConstant.op = "define" /\ lastConstant.rc = "ok" =>
       LET t == lastConstant.t
           n == lastConstant.n
       IN /\ t \in 1..made /\ values[t][n] # NULL
          /\ values[t][n].bits = Constants!BitsOf(lastConstant.type, lastConstant.v)

(* GetValue reads the nearest table that has the name, ...                 *)
LEMMA ConstantsAre == \A t, n : Constants!GetValue(t, n) = SeenIn(values, t, n)
<1>1. \A t, n : Constants!Nearest(t, n) = NearestOf(values, t, n)
  BY DEF Constants!Nearest, Constants!Max, NearestOf
<1> QED
  BY <1>1 DEF Constants!GetValue, SeenIn

(* ... after a step too.                                                   *)
LEMMA ConstantsAreNext == \A t, n : Constants!GetValue(t, n)' = SeenIn(values', t, n)
<1>1. \A t, n : Constants!Nearest(t, n)' = NearestOf(values', t, n)
  BY DEF Constants!Nearest, Constants!Max, NearestOf
<1> QED
  BY <1>1 DEF Constants!GetValue, SeenIn

(* The table itself is the nearest.                                        *)
LEMMA OwnSeen ==
  ASSUME NEW t \in Types!Table, NEW f, NEW n, f[t][n] # NULL
  PROVE  SeenIn(f, t, n) = f[t][n]
<1> DEFINE u == NearestOf(f, t, n)
<1>1. NearestIn(Having(f, n), t, u)
  BY NearestName
<1>3. t \in Having(f, n) /\ t \in Nat /\ t >= 1
  BY DepthAssumption DEF Having, Types!Table
<1> HIDE DEF u
<1>2. u = t
  BY <1>1, <1>3 DEF NearestIn
<1> QED
  BY <1>2, <1>3 DEF SeenIn, u

(* The property of the accepted definitions follows from the invariant.    *)
LEMMA ConstantsInvSeen == ConstantsInv => Constants!AcceptedIsSeen
<1> SUFFICES ASSUME ConstantsInv, lastConstant.op = "define", lastConstant.rc = "ok"
             PROVE  Constants!GetValue(lastConstant.t, lastConstant.n).bits
                      = Constants!BitsOf(lastConstant.type, lastConstant.v)
  BY DEF Constants!AcceptedIsSeen
<1> DEFINE t == lastConstant.t
           n == lastConstant.n
<1>1. /\ t \in Types!Table /\ values[t][n] # NULL
      /\ values[t][n].bits = Constants!BitsOf(lastConstant.type, lastConstant.v)
  BY DepthAssumption DEF ConstantsInv, Types!Table
<1> HIDE DEF t, n
<1>2. Constants!GetValue(t, n) = values[t][n]
  BY <1>1, OwnSeen, ConstantsAre
<1> QED
  BY <1>1, <1>2 DEF t, n

ConstantMeanings ==
  \A t \in 1..made, n \in ConstantNames :
    t <= made' =>
      \/ Constants!GetValue(t, n)' = Constants!GetValue(t, n)
      \/ \E u \in (Constants!Nearest(t, n) + 1)..t : values[u][n] = NULL /\ values'[u][n] # NULL

(* A step that keeps the values of the tables that stay alive.             *)
LEMMA ConstantsKept ==
  ASSUME made \in Types!Table, made' \in Types!Table,
         \A t \in 1..made, n \in ConstantNames :
           t <= made' /\ values[t][n] # NULL => values'[t][n] = values[t][n]
  PROVE  ConstantMeanings
<1> SUFFICES ASSUME NEW t \in 1..made, NEW n \in ConstantNames, t <= made'
             PROVE  \/ Constants!GetValue(t, n)' = Constants!GetValue(t, n)
                    \/ \E u \in (Constants!Nearest(t, n) + 1)..t :
                         values[u][n] = NULL /\ values'[u][n] # NULL
  BY DEF ConstantMeanings
<1>1. t \in Types!Table /\ \A u \in 1..t : u \in 1..made /\ u <= made'
  BY DepthAssumption DEF Types!Table
<1> DEFINE f == values
           g == values'
<1>2. \A u \in 1..t : f[u][n] # NULL => g[u][n] = f[u][n]
  BY <1>1
<1>3. \/ SeenIn(g, t, n) = SeenIn(f, t, n)
      \/ \E u \in (NearestOf(f, t, n) + 1)..t : f[u][n] = NULL /\ g[u][n] # NULL
  <2> HIDE DEF f, g
  <2> QED
    BY <1>1, <1>2, CodesGrow
<1>4. Constants!Nearest(t, n) = NearestOf(f, t, n)
  BY DEF Constants!Nearest, Constants!Max, NearestOf
<1>5. Constants!GetValue(t, n) = SeenIn(f, t, n)
  BY ConstantsAre
<1>6. Constants!GetValue(t, n)' = SeenIn(g, t, n)
  BY ConstantsAreNext
<1> QED
  BY <1>3, <1>4, <1>5, <1>6

(* The invariant of the constants holds in the initial state, ...          *)
LEMMA ConstantsInit == Constants!Init => ConstantsInv
<1> SUFFICES ASSUME Constants!Init PROVE ConstantsInv
  OBVIOUS
<1>1. lastConstant.op = "none"
  BY DEF Constants!Init, Constants!NoOperation
<1> QED
  BY <1>1, DepthAssumption
     DEF Constants!Init, ConstantsInv, Constants!Undefined, Types!Table, Constants!Table

(* ... and when a constant is defined, anew or once more.                  *)
LEMMA ConstantsDefine ==
  ASSUME ConstantsInv, NEW t \in 1..made, NEW n \in ConstantNames,
         NEW type \in {"int", "float"}, NEW v \in Values, Constants!Define(t, n, type, v)
  PROVE  ConstantsInv' /\ ConstantMeanings
<1> DEFINE item == [type |-> type, bits |-> Constants!BitsOf(type, v)]
<1>1. item \in Constants!Item /\ item # NULL /\ item.bits = Constants!BitsOf(type, v)
  <2>1. DOMAIN Bits = Values
    BY ConstantsAssumption
  <2>2. Constants!BitsOf(type, v) \in Constants!AllBits
    BY <2>1 DEF Constants!BitsOf, Constants!AllBits, Constants!Range
  <2> QED
    BY <2>2, NullAssumption DEF Constants!Item
<1>2. t \in Types!Table /\ made \in Nat /\ t <= made /\ t \in Nat /\ made' = made
  BY DepthAssumption DEF ConstantsInv, Types!Table, Constants!Define
<1>3. CASE values[t][n] = NULL
  <2>1. /\ values' = [values EXCEPT ![t][n] = item]
        /\ lastConstant'.op = "define" /\ lastConstant'.t = t /\ lastConstant'.n = n
        /\ lastConstant'.type = type /\ lastConstant'.v = v
    BY <1>3 DEF Constants!Define, Constants!Report
  <2> HIDE DEF item
  <2>2. values'[t][n] = item /\ values' \in [Types!Table -> [ConstantNames -> Constants!Item \cup {NULL}]]
    BY <1>1, <1>2, <2>1 DEF ConstantsInv
  <2>3. \A u \in Types!Table : u > made => values'[u] = Constants!Undefined
    BY <1>2, <2>1 DEF ConstantsInv
  <2>4. ConstantsInv'
    BY <1>1, <1>2, <2>1, <2>2, <2>3 DEF ConstantsInv
  <2>5. \A u \in 1..made, m \in ConstantNames : values[u][m] # NULL => values'[u][m] = values[u][m]
    BY <1>2, <1>3, <2>1, DepthAssumption DEF ConstantsInv, Types!Table
  <2> QED
    BY <1>2, <2>4, <2>5, ConstantsKept DEF ConstantsInv
<1>4. CASE values[t][n] # NULL
  <2>1. /\ values' = values
        /\ lastConstant'.op = "define" /\ lastConstant'.t = t /\ lastConstant'.n = n
        /\ lastConstant'.type = type /\ lastConstant'.v = v
        /\ lastConstant'.rc = "ok" => values[t][n].bits = Constants!BitsOf(type, v)
    BY <1>4 DEF Constants!Define, Constants!Report
  <2>2. ConstantsInv'
    BY <1>2, <1>4, <2>1 DEF ConstantsInv
  <2> QED
    BY <1>2, <2>1, <2>2, ConstantsKept DEF ConstantsInv
<1> QED
  BY <1>3, <1>4

(* The invariant of the constants is inductive, and no step changes a      *)
(* value but by hiding it.                                                 *)
LEMMA ConstantsNext ==
  ASSUME ConstantsInv, [Constants!Next]_(Constants!vars)
  PROVE  ConstantsInv' /\ ConstantMeanings
<1>1. CASE UNCHANGED Constants!vars
  <2>1. ConstantsInv'
    BY <1>1 DEF Constants!vars, ConstantsInv
  <2> QED
    BY <1>1, <2>1, ConstantsKept DEF Constants!vars, ConstantsInv
<1>2. CASE Constants!CreateDescendant
  <2>1. /\ made' \in Types!Table /\ made' = made + 1 /\ values' = values
        /\ lastConstant'.op = "none"
    BY <1>2, DepthAssumption
       DEF ConstantsInv, Types!Table, Constants!CreateDescendant, Constants!NoOperation
  <2>2. \A t \in Types!Table : t > made' => t > made
    BY <2>1, DepthAssumption DEF ConstantsInv, Types!Table
  <2>3. ConstantsInv'
    BY <2>1, <2>2 DEF ConstantsInv
  <2> QED
    BY <2>1, <2>3, ConstantsKept DEF ConstantsInv
<1>3. CASE Constants!Destroy
  <2>1. /\ made' \in Types!Table /\ made' = made - 1 /\ made \in Nat
        /\ values' = [values EXCEPT ![made] = Constants!Undefined]
        /\ lastConstant'.op = "none"
    BY <1>3, DepthAssumption
       DEF ConstantsInv, Types!Table, Constants!Destroy, Constants!NoOperation
  <2>2. \A t \in Types!Table : t > made' => t = made \/ t > made
    BY <2>1, DepthAssumption DEF ConstantsInv, Types!Table
  <2>3. values' \in [Types!Table -> [ConstantNames -> Constants!Item \cup {NULL}]]
    BY <2>1 DEF ConstantsInv, Constants!Undefined
  <2>4. \A t \in Types!Table : t > made' => values'[t] = Constants!Undefined
    BY <2>1, <2>2 DEF ConstantsInv
  <2>5. ConstantsInv'
    BY <2>1, <2>3, <2>4 DEF ConstantsInv
  <2>6. \A t \in 1..made, n \in ConstantNames :
          t <= made' /\ values[t][n] # NULL => values'[t][n] = values[t][n]
    BY <2>1, DepthAssumption DEF ConstantsInv, Types!Table
  <2> QED
    BY <2>1, <2>5, <2>6, ConstantsKept DEF ConstantsInv
<1>4. ASSUME NEW t \in 1..made, NEW n \in ConstantNames, Constants!Lex(t, n)
      PROVE  ConstantsInv' /\ ConstantMeanings
  <2>1. made' = made /\ values' = values /\ lastConstant'.op = "lex"
    BY <1>4 DEF Constants!Lex, Constants!Report
  <2>2. ConstantsInv'
    BY <2>1 DEF ConstantsInv
  <2> QED
    BY <2>1, <2>2, ConstantsKept DEF ConstantsInv
<1>5. ASSUME NEW t \in 1..made, Constants!Operation(t)
      PROVE  ConstantsInv' /\ ConstantMeanings
  BY <1>4, <1>5, ConstantsDefine DEF Constants!Operation
<1> QED
  BY <1>1, <1>2, <1>3, <1>5 DEF Constants!Next

(***************************************************************************)
(* Functions.                                                              *)
(***************************************************************************)
(* What a call has tried has denied.                                       *)
FunctionsInv ==
  /\ made \in Types!Table
  /\ call # NULL => /\ call \in Functions!Call /\ result = NULL
                    /\ \A c \in call.tried : call.sort \notin c

OverloadTaken ==
  (call # NULL /\ result' # NULL /\ Functions!Candidates # {}) =>
    /\ (result'.rc = "ok") <=> (\E c \in Functions!Candidates : call.sort \in c)
    /\ result'.rc = "ok" => call.sort \in result'.by /\ result'.by \in Functions!Candidates

(* The invariant of the functions holds in the initial state, ...          *)
LEMMA FunctionsInit == Functions!Init => FunctionsInv
BY DepthAssumption DEF Functions!Init, FunctionsInv, Types!Table, Functions!Table

(* ... and through a call, which ends as the property says.                *)
LEMMA FunctionsStep ==
  ASSUME FunctionsInv, Functions!Step
  PROVE  FunctionsInv' /\ OverloadTaken
<1>1. made' = made /\ made' \in Types!Table
  BY DEF FunctionsInv, Functions!Step, Functions!Unknown, Functions!AskParent, Functions!Cannot,
     Functions!Deny, Functions!Accept, Functions!Return
<1>2. CASE Functions!Unknown
  BY <1>1, <1>2 DEF Functions!Unknown, Functions!Return, FunctionsInv, OverloadTaken
<1>3. CASE Functions!AskParent
  <2>1. /\ call \in Functions!Call /\ call.frames < MaxFrames /\ result' = result
        /\ call' = [call EXCEPT !.frames = @ + 1] /\ result = NULL
        /\ \A c \in call.tried : call.sort \notin c
    BY <1>3 DEF Functions!AskParent, FunctionsInv
  <2>2. call' \in Functions!Call /\ call'.tried = call.tried /\ call'.sort = call.sort
    BY <2>1, FunctionsAssumption DEF Functions!Call
  <2> QED
    BY <1>1, <2>1, <2>2 DEF FunctionsInv, OverloadTaken
<1>4. CASE Functions!Cannot
  BY <1>1, <1>4 DEF Functions!Cannot, Functions!Return, FunctionsInv, OverloadTaken
<1>5. ASSUME NEW c \in Constructors, Functions!Deny(c)
      PROVE  FunctionsInv' /\ OverloadTaken
  <2>1. /\ call \in Functions!Call /\ call.sort \notin c /\ result' = result
        /\ call' = [call EXCEPT !.tried = @ \cup {c}] /\ result = NULL
        /\ \A d \in call.tried : call.sort \notin d
    BY <1>5 DEF Functions!Deny, FunctionsInv
  <2>2. call' \in Functions!Call /\ call'.tried = call.tried \cup {c} /\ call'.sort = call.sort
    BY <2>1 DEF Functions!Call
  <2> QED
    BY <1>1, <2>1, <2>2 DEF FunctionsInv, OverloadTaken
<1>6. ASSUME NEW c \in Constructors, Functions!Accept(c)
      PROVE  FunctionsInv' /\ OverloadTaken
  BY <1>1, <1>6 DEF Functions!Accept, Functions!Return, FunctionsInv, OverloadTaken
<1> QED
  BY <1>2, <1>3, <1>4, <1>5, <1>6 DEF Functions!Step

(* The invariant of the functions is inductive.                            *)
LEMMA FunctionsNext ==
  ASSUME FunctionsInv, [Functions!Next]_(Functions!vars)
  PROVE  FunctionsInv' /\ OverloadTaken
<1>1. CASE UNCHANGED Functions!vars
  BY <1>1 DEF Functions!vars, FunctionsInv, OverloadTaken
<1>2. CASE Functions!CreateDescendant
  BY <1>2, DepthAssumption
     DEF Functions!CreateDescendant, FunctionsInv, OverloadTaken, Types!Table
<1>3. CASE Functions!Destroy
  BY <1>3, DepthAssumption DEF Functions!Destroy, FunctionsInv, OverloadTaken, Types!Table
<1>4. ASSUME NEW t \in 1..made, NEW n \in FunctionNames, NEW c, Functions!Define(t, n, c)
      PROVE  FunctionsInv' /\ OverloadTaken
  BY <1>4 DEF Functions!Define, FunctionsInv, OverloadTaken
<1>5. ASSUME NEW t \in 1..made, NEW n \in FunctionNames, NEW s \in Sorts,
             Functions!CallResolve(t, n, s)
      PROVE  FunctionsInv' /\ OverloadTaken
  <2>1. t \in Functions!Table /\ 1 \in 1..MaxFrames
    BY DepthAssumption, FunctionsAssumption DEF FunctionsInv, Types!Table, Functions!Table
  <2>2. /\ call' \in Functions!Call /\ call'.tried = {} /\ result' = NULL /\ made' = made
        /\ call = NULL
    BY <1>5, <2>1 DEF Functions!CallResolve, Functions!Call
  <2> QED
    BY <2>2 DEF FunctionsInv, OverloadTaken
<1>6. ASSUME NEW t \in 1..made, Functions!Operation(t)
      PROVE  FunctionsInv' /\ OverloadTaken
  BY <1>4, <1>5, <1>6 DEF Functions!Operation
<1> QED
  BY <1>1, <1>2, <1>3, <1>6, FunctionsStep DEF Functions!Next

(***************************************************************************)
(* Converters: sorting and searching.                                      *)
(***************************************************************************)
Distinct(rs) == \A i, j \in DOMAIN rs : i # j => rs[i].key # rs[j].key
Increasing(s) == \A i, j \in DOMAIN s : i < j => s[i].key < s[j].key
RecordsOf(s) == {s[i] : i \in DOMAIN s}
Arranges(s, rs) ==
  /\ s \in [DOMAIN rs -> RecordsOf(rs)] /\ Increasing(s) /\ RecordsOf(s) = RecordsOf(rs)

(* One more record has a place among those that are in order.              *)
LEMMA Inserted ==
  ASSUME NEW m \in Nat, NEW rs, DOMAIN rs = 1..(m + 1), Distinct(rs),
         \A i \in 1..(m + 1) : rs[i].key \in Int,
         NEW r0, DOMAIN r0 = 1..m, \A i \in 1..m : r0[i] = rs[i],
         NEW s0, Arranges(s0, r0)
  PROVE  \E s : Arranges(s, rs)
<1> DEFINE e == rs[m + 1]
           P == {i \in 1..(m + 1) : i = m + 1 \/ e.key < s0[i].key}
<1>1. /\ DOMAIN s0 = 1..m /\ \A i \in 1..m : \E j \in 1..m : s0[i] = rs[j]
      /\ \A j \in 1..m : \E i \in 1..m : s0[i] = rs[j]
      /\ \A i, j \in 1..m : i < j => s0[i].key < s0[j].key
  <2>1. DOMAIN s0 = 1..m /\ \A i \in 1..m : s0[i] \in RecordsOf(r0)
    BY DEF Arranges
  <2>2. \A j \in 1..m : r0[j] \in RecordsOf(s0)
    BY DEF Arranges, RecordsOf
  <2>3. \A i, j \in 1..m : i < j => s0[i].key < s0[j].key
    BY <2>1 DEF Arranges, Increasing
  <2>4. \A i \in 1..m : \E j \in 1..m : s0[i] = rs[j]
    <3> TAKE i \in 1..m
    <3>1. PICK j \in DOMAIN r0 : s0[i] = r0[j]
      BY <2>1 DEF RecordsOf
    <3> QED
      BY <3>1
  <2>5. \A j \in 1..m : \E i \in 1..m : s0[i] = rs[j]
    <3> TAKE j \in 1..m
    <3>1. PICK i \in DOMAIN s0 : r0[j] = s0[i]
      BY <2>2 DEF RecordsOf
    <3> QED
      BY <2>1, <3>1
  <2> QED
    BY <2>1, <2>3, <2>4, <2>5
<1>2. \A i \in 1..m : s0[i].key \in Int /\ s0[i].key # e.key
  <2> TAKE i \in 1..m
  <2>1. PICK j \in 1..m : s0[i] = rs[j]
    BY <1>1
  <2>2. \A a, b \in 1..(m + 1) : a # b => rs[a].key # rs[b].key
    BY DEF Distinct
  <2> HIDE DEF P
  <2>3. j # m + 1 /\ j \in 1..(m + 1) /\ m + 1 \in 1..(m + 1)
    OBVIOUS
  <2>4. rs[j].key # rs[m + 1].key
    BY <2>2, <2>3
  <2>5. rs[j].key \in Int
    BY <2>3
  <2> QED
    BY <2>1, <2>4, <2>5
<1>3. P \subseteq Nat /\ m + 1 \in P
  OBVIOUS
<1>4. PICK k \in P : \A i \in P : k <= i
  <2> HIDE DEF P
  <2> QED
    BY <1>3, LeastNumber
<1>5. k \in 1..(m + 1)
  BY <1>4
<1>6. \A i \in 1..m : i < k => s0[i].key < e.key
  <2> TAKE i \in 1..m
  <2>1. i < k => i \notin P
    BY <1>4, <1>5
  <2> QED
    BY <1>2, <2>1
<1>7. \A i \in 1..m : i >= k => e.key < s0[i].key
  <2> TAKE i \in 1..m
  <2>1. i >= k => k \in 1..m /\ e.key < s0[k].key
    BY <1>4, <1>5
  <2>2. e.key \in Int
    OBVIOUS
  <2> HIDE DEF e, P
  <2>3. CASE i = k
    BY <2>1, <2>3
  <2>4. CASE i > k
    <3>1. k \in 1..m /\ e.key < s0[k].key /\ k < i
      BY <1>5, <2>1, <2>4
    <3>2. s0[k].key < s0[i].key
      BY <1>1, <3>1
    <3> QED
      BY <1>2, <2>2, <3>1, <3>2
  <2> QED
    BY <1>5, <2>3, <2>4
<1> DEFINE s == [i \in 1..(m + 1) |-> IF i < k THEN s0[i] ELSE IF i = k THEN e ELSE s0[i - 1]]
<1>8. \A i \in 1..(m + 1) :
        /\ i < k => i \in 1..m /\ s[i] = s0[i]
        /\ i = k => s[i] = e
        /\ i > k => i - 1 \in 1..m /\ i - 1 >= k /\ s[i] = s0[i - 1]
  BY <1>5
<1>9. DOMAIN s = 1..(m + 1)
  OBVIOUS
<1> HIDE DEF s, e, P
<1>10. ASSUME NEW i \in 1..(m + 1), NEW j \in 1..(m + 1), i < j
       PROVE  s[i].key < s[j].key
  <2>0. i \in Nat /\ j \in Nat /\ k \in Nat /\ m \in Nat
    BY <1>5
  <2>1. CASE j < k
    <3>1. i < k /\ i \in 1..m /\ j \in 1..m /\ s[i] = s0[i] /\ s[j] = s0[j]
      BY <1>8, <1>10, <2>0, <2>1
    <3> QED
      BY <1>1, <1>10, <3>1
  <2>2. CASE j = k
    <3>1. i < k /\ i \in 1..m /\ s[i] = s0[i] /\ s[j] = e
      BY <1>8, <1>10, <2>0, <2>2
    <3> QED
      BY <1>6, <3>1
  <2>3. CASE j > k /\ i < k
    <3>1. i \in 1..m /\ j - 1 \in 1..m /\ i < j - 1 /\ s[i] = s0[i] /\ s[j] = s0[j - 1]
      BY <1>8, <1>10, <2>0, <2>3
    <3> QED
      BY <1>1, <3>1
  <2>4. CASE j > k /\ i = k
    <3>1. j - 1 \in 1..m /\ j - 1 >= k /\ s[i] = e /\ s[j] = s0[j - 1]
      BY <1>8, <1>10, <2>0, <2>4
    <3> QED
      BY <1>7, <3>1
  <2>5. CASE j > k /\ i > k
    <3>1. i - 1 \in 1..m /\ j - 1 \in 1..m /\ i - 1 < j - 1
      BY <1>8, <1>10, <2>0, <2>5
    <3>2. s[i] = s0[i - 1] /\ s[j] = s0[j - 1]
      BY <1>8, <2>5
    <3> QED
      BY <1>1, <3>1, <3>2
  <2> QED
    BY <1>10, <2>0, <2>1, <2>2, <2>3, <2>4, <2>5
<1>11. \A i \in 1..(m + 1) : \E j \in 1..(m + 1) : s[i] = rs[j]
  <2> TAKE i \in 1..(m + 1)
  <2>1. s[i] = e \/ \E j \in 1..m : s[i] = s0[j]
    BY <1>5, <1>8
  <2>2. m + 1 \in 1..(m + 1) /\ \A j \in 1..m : j \in 1..(m + 1)
    OBVIOUS
  <2> QED
    BY <1>1, <2>1, <2>2 DEF e
<1>12. \A j \in 1..(m + 1) : \E i \in 1..(m + 1) : s[i] = rs[j]
  <2> TAKE j \in 1..(m + 1)
  <2>1. CASE j = m + 1
    BY <1>5, <1>8, <2>1 DEF e
  <2>2. CASE j # m + 1
    <3>1. j \in 1..m
      BY <2>2
    <3>2. PICK i \in 1..m : s0[i] = rs[j]
      BY <1>1, <3>1
    <3>3. CASE i < k
      BY <1>8, <3>2, <3>3
    <3>4. CASE ~(i < k)
      <4>1. i + 1 \in 1..(m + 1) /\ i + 1 > k /\ (i + 1) - 1 = i
        BY <1>5, <3>4
      <4> QED
        BY <1>8, <3>2, <4>1
    <3> QED
      BY <3>3, <3>4
  <2> QED
    BY <2>1, <2>2
<1>13. Arranges(s, rs)
  <2>1. Increasing(s)
    BY <1>9, <1>10 DEF Increasing
  <2>2. s = [i \in 1..(m + 1) |-> s[i]]
    BY DEF s
  <2>3. \A i \in 1..(m + 1) : s[i] \in RecordsOf(rs)
    BY <1>11 DEF RecordsOf
  <2>4. s \in [DOMAIN rs -> RecordsOf(rs)]
    <3> DEFINE R == RecordsOf(rs)
    <3>1. \A i \in 1..(m + 1) : s[i] \in R
      BY <2>3
    <3> HIDE DEF R
    <3>2. s \in [1..(m + 1) -> R]
      BY <2>2, <3>1
    <3> QED
      BY <3>2 DEF R
  <2>5. RecordsOf(s) = RecordsOf(rs)
    <3>1. ASSUME NEW r \in RecordsOf(s) PROVE r \in RecordsOf(rs)
      <4>1. PICK i \in 1..(m + 1) : r = s[i]
        BY <1>9 DEF RecordsOf
      <4> QED
        BY <2>3, <4>1
    <3>2. ASSUME NEW r \in RecordsOf(rs) PROVE r \in RecordsOf(s)
      <4>1. PICK j \in 1..(m + 1) : r = rs[j]
        BY DEF RecordsOf
      <4>2. PICK i \in 1..(m + 1) : s[i] = rs[j]
        BY <1>12
      <4> QED
        BY <1>9, <4>1, <4>2 DEF RecordsOf
    <3> QED
      BY <3>1, <3>2
  <2> QED
    BY <2>1, <2>4, <2>5 DEF Arranges
<1> QED
  BY <1>13

(* There is an order of any records with different keys: the shortest      *)
(* exception would be one record longer than a sequence that has one.      *)
LEMMA SortExists ==
  ASSUME NEW rs \in Seq(Converters!Record), Distinct(rs)
  PROVE  \E s : Arranges(s, rs)
<1> DEFINE Bad(n) == \E r \in Seq(Converters!Record) :
                       Len(r) = n /\ Distinct(r) /\ ~\E s : Arranges(s, r)
           T == {n \in Nat : Bad(n)}
<1> SUFFICES ASSUME T # {} PROVE FALSE
  OBVIOUS
<1>1. PICK m \in T : \A n \in T : m <= n
  <2> HIDE DEF T
  <2>1. T \subseteq Nat
    BY DEF T
  <2> QED
    BY <2>1, LeastNumber
<1>2. PICK r \in Seq(Converters!Record) : Len(r) = m /\ Distinct(r) /\ ~\E s : Arranges(s, r)
  BY <1>1
<1>3. m \in Nat /\ DOMAIN r = 1..m /\ \A i \in 1..m : r[i] \in Converters!Record
  BY <1>2
<1>4. \A i \in 1..m : r[i].key \in Int
  BY <1>3, ConvertersAssumption DEF Converters!Record
<1>5. CASE m = 0
  <2>1. DOMAIN r = {} /\ r = [i \in {} |-> r[i]]
    BY <1>3, <1>5
  <2>2. Arranges(r, r)
    BY <2>1 DEF Arranges, Increasing, RecordsOf
  <2> QED
    BY <1>2, <2>2
<1>6. CASE m # 0
  <2> DEFINE n == m - 1
             r0 == [i \in 1..n |-> r[i]]
  <2>1. n \in Nat /\ m = n + 1 /\ n < m
    BY <1>3, <1>6
  <2>2. r0 \in Seq(Converters!Record) /\ Len(r0) = n /\ Distinct(r0)
    <3>1. \A i \in 1..n : r[i] \in Converters!Record
      BY <1>3, <2>1
    <3>2. r0 \in [1..n -> Converters!Record]
      BY <3>1
    <3>3. DOMAIN r0 = 1..n /\ \A i \in 1..n : i \in 1..m /\ r0[i] = r[i]
      BY <1>3, <2>1
    <3> HIDE DEF r0
    <3>4. Distinct(r0)
      BY <1>2, <1>3, <3>3 DEF Distinct
    <3>5. r0 \in Seq(Converters!Record) /\ Len(r0) = n
      BY <2>1, <3>2
    <3> QED
      BY <3>4, <3>5
  <2>3. ~Bad(n)
    BY <1>1, <2>1
  <2>4. PICK s0 : Arranges(s0, r0)
    BY <2>2, <2>3
  <2>5. DOMAIN r0 = 1..n /\ \A i \in 1..n : r0[i] = r[i]
    OBVIOUS
  <2>6. DOMAIN r = 1..(n + 1) /\ \A i \in 1..(n + 1) : r[i].key \in Int
    BY <1>3, <1>4, <2>1
  <2> HIDE DEF n, r0
  <2> QED
    BY <1>2, <2>1, <2>4, <2>5, <2>6, Inserted
<1> QED
  BY <1>5, <1>6

(* qsort.                                                                  *)
LEMMA SortedArranges ==
  ASSUME NEW rs \in Seq(Converters!Record), Distinct(rs)
  PROVE  Arranges(Converters!Sorted(rs), rs)
<1>1. PICK s : Arranges(s, rs)
  BY SortExists
<1>2. Converters!Sorted(rs) = CHOOSE t \in [DOMAIN rs -> RecordsOf(rs)] :
                                Increasing(t) /\ RecordsOf(t) = RecordsOf(rs)
  BY DEF Converters!Sorted, RecordsOf, Increasing, Converters!Range
<1> QED
  BY <1>1, <1>2 DEF Arranges

(* What a search of the records after the lo-th up to the hi-th gives.     *)
FoundIn(rs, k, lo, hi, v) ==
  \/ \E i \in (lo + 1)..hi : rs[i].key = k /\ v = rs[i].fn
  \/ v = NULL /\ \A i \in (lo + 1)..hi : rs[i].key # k

FnIn(rs, k, lo, hi) == CHOOSE v : FoundIn(rs, k, lo, hi, v)

(* One step of the recursion of bsearch.                                   *)
Halved(rs, k, lo, hi, below, above) ==
  LET mid == (lo + hi) \div 2
  IN IF lo >= hi THEN NULL
     ELSE IF rs[mid + 1].key = k THEN rs[mid + 1].fn
     ELSE IF k < rs[mid + 1].key THEN below ELSE above

(* g is the function that the recursion of bsearch defines.                *)
Search(rs, k, g) ==
  g = [part \in (0..Len(rs)) \X (0..Len(rs)) |->
         Halved(rs, k, part[1], part[2], g[<<part[1], (part[1] + part[2]) \div 2>>],
                g[<<(part[1] + part[2]) \div 2 + 1, part[2]>>])]

(* The records have increasing keys.                                       *)
Searched(rs, k) ==
  /\ k \in Int /\ Len(rs) \in Nat
  /\ \A i \in 1..Len(rs) : rs[i].key \in Int
  /\ \A i, j \in 1..Len(rs) : i < j => rs[i].key < rs[j].key

(* At most one answer is right, as no two records have one key.            *)
LEMMA FoundOnce ==
  ASSUME NEW rs, NEW k, Searched(rs, k),
         NEW lo \in 0..Len(rs), NEW hi \in 0..Len(rs), NEW v, NEW w,
         FoundIn(rs, k, lo, hi, v), FoundIn(rs, k, lo, hi, w)
  PROVE  v = w
<1>1. \A i \in (lo + 1)..hi : i \in 1..Len(rs)
  BY DEF Searched
<1>2. \A i, j \in (lo + 1)..hi : rs[i].key = k /\ rs[j].key = k => i = j
  <2> SUFFICES ASSUME NEW i \in (lo + 1)..hi, NEW j \in (lo + 1)..hi,
                      rs[i].key = k, rs[j].key = k, i # j
               PROVE  FALSE
    OBVIOUS
  <2>1. i \in 1..Len(rs) /\ j \in 1..Len(rs) /\ k \in Int
    BY <1>1 DEF Searched
  <2>2. i < j \/ j < i
    BY <2>1
  <2>3. rs[i].key < rs[j].key \/ rs[j].key < rs[i].key
    BY <2>1, <2>2 DEF Searched
  <2> QED
    BY <2>1, <2>3
<1> QED
  BY <1>2 DEF FoundIn

(* There is a right answer.                                                *)
LEMMA FnInFound ==
  ASSUME NEW rs, NEW k, NEW lo, NEW hi
  PROVE  FoundIn(rs, k, lo, hi, FnIn(rs, k, lo, hi))
<1>1. \E v : FoundIn(rs, k, lo, hi, v)
  <2>1. CASE \E i \in (lo + 1)..hi : rs[i].key = k
    BY <2>1 DEF FoundIn
  <2>2. CASE ~\E i \in (lo + 1)..hi : rs[i].key = k
    BY <2>2 DEF FoundIn
  <2> QED
    BY <2>1, <2>2
<1> QED
  BY <1>1 DEF FnIn

(* A step gives what a search of the whole range finds, if the searches of *)
(* the parts do.                                                           *)
LEMMA HalvedFinds ==
  ASSUME NEW rs, NEW k, Searched(rs, k),
         NEW lo \in 0..Len(rs), NEW hi \in 0..Len(rs),
         NEW mid, mid = (lo + hi) \div 2, NEW below, NEW above,
         lo < hi => FoundIn(rs, k, lo, mid, below) /\ FoundIn(rs, k, mid + 1, hi, above)
  PROVE  FoundIn(rs, k, lo, hi, Halved(rs, k, lo, hi, below, above))
<1>0. lo \in Nat /\ hi \in Nat /\ k \in Int /\ Len(rs) \in Nat /\ mid \in Int
  BY DEF Searched
<1>1. CASE lo >= hi
  BY <1>0, <1>1 DEF FoundIn, Halved
<1>2. CASE lo < hi
  <2>1. lo <= mid /\ mid < hi
    BY <1>0, <1>2
  <2>2. mid + 1 \in (lo + 1)..hi /\ mid + 1 \in 1..Len(rs) /\ ~(lo >= hi)
    BY <1>0, <1>2, <2>1
  <2>3. rs[mid + 1].key \in Int
    BY <2>2 DEF Searched
  <2>4. \A i \in (lo + 1)..hi : i \in 1..Len(rs)
    BY <1>0
  <2>5. CASE rs[mid + 1].key = k
    BY <2>2, <2>5 DEF FoundIn, Halved
  <2>6. CASE k < rs[mid + 1].key
    <3>1. Halved(rs, k, lo, hi, below, above) = below
      BY <1>0, <2>2, <2>3, <2>6 DEF Halved
    <3>2. \A i \in (lo + 1)..hi : i \in (lo + 1)..mid \/ rs[i].key # k
      <4> TAKE i \in (lo + 1)..hi
      <4>1. CASE i <= mid
        BY <1>0, <4>1
      <4>2. CASE i = mid + 1
        BY <1>0, <2>6, <2>3, <4>2
      <4>3. CASE i > mid + 1
        <5>1. rs[mid + 1].key < rs[i].key /\ rs[i].key \in Int
          BY <2>2, <2>4, <4>3 DEF Searched
        <5> QED
          BY <1>0, <2>3, <2>6, <5>1
      <4> QED
        BY <1>0, <4>1, <4>2, <4>3
    <3>3. \A i \in (lo + 1)..mid : i \in (lo + 1)..hi
      BY <1>0, <2>1
    <3>4. FoundIn(rs, k, lo, mid, below)
      BY <1>2
    <3> QED
      BY <3>1, <3>2, <3>3, <3>4 DEF FoundIn
  <2>7. CASE rs[mid + 1].key < k
    <3>1. Halved(rs, k, lo, hi, below, above) = above
      BY <1>0, <2>2, <2>3, <2>7 DEF Halved
    <3>2. \A i \in (lo + 1)..hi : i \in (mid + 2)..hi \/ rs[i].key # k
      <4> TAKE i \in (lo + 1)..hi
      <4>1. CASE i > mid + 1
        BY <1>0, <4>1
      <4>2. CASE i = mid + 1
        BY <1>0, <2>7, <2>3, <4>2
      <4>3. CASE i < mid + 1
        <5>1. rs[i].key < rs[mid + 1].key /\ rs[i].key \in Int
          BY <2>2, <2>4, <4>3 DEF Searched
        <5> QED
          BY <1>0, <2>3, <2>7, <5>1
      <4> QED
        BY <1>0, <4>1, <4>2, <4>3
    <3>3. \A i \in (mid + 1 + 1)..hi : i \in (lo + 1)..hi
      BY <1>0, <2>1
    <3>4. FoundIn(rs, k, mid + 1, hi, above)
      BY <1>2
    <3>5. \A i : i \in (mid + 2)..hi <=> i \in (mid + 1 + 1)..hi
      BY <1>0
    <3> QED
      BY <3>1, <3>2, <3>3, <3>4, <3>5 DEF FoundIn
  <2> QED
    BY <1>0, <2>3, <2>5, <2>6, <2>7
<1> QED
  BY <1>0, <1>1, <1>2

(* The recursion has a solution...                                         *)
LEMMA SearchExists ==
  ASSUME NEW rs, NEW k, Searched(rs, k)
  PROVE  \E g : Search(rs, k, g)
<1> DEFINE D == (0..Len(rs)) \X (0..Len(rs))
           g == [part \in D |-> FnIn(rs, k, part[1], part[2])]
           Body(part) == Halved(rs, k, part[1], part[2],
                           g[<<part[1], (part[1] + part[2]) \div 2>>],
                           g[<<(part[1] + part[2]) \div 2 + 1, part[2]>>])
<1>1. ASSUME NEW part \in D PROVE g[part] = Body(part)
  <2> DEFINE lo == part[1]
             hi == part[2]
             mid == (lo + hi) \div 2
  <2>1. lo \in 0..Len(rs) /\ hi \in 0..Len(rs) /\ Len(rs) \in Nat
    BY DEF Searched
  <2>2. FoundIn(rs, k, lo, hi, g[part])
    BY FnInFound
  <2>3. lo < hi => FoundIn(rs, k, lo, mid, g[<<lo, mid>>])
                   /\ FoundIn(rs, k, mid + 1, hi, g[<<mid + 1, hi>>])
    <3> SUFFICES ASSUME lo < hi
                 PROVE  FoundIn(rs, k, lo, mid, g[<<lo, mid>>])
                        /\ FoundIn(rs, k, mid + 1, hi, g[<<mid + 1, hi>>])
      OBVIOUS
    <3>1. mid \in 0..Len(rs) /\ mid + 1 \in 0..Len(rs)
      <4> HIDE DEF lo, hi
      <4> QED
        BY <2>1
    <3>2. <<lo, mid>> \in D /\ <<mid + 1, hi>> \in D
      <4> HIDE DEF lo, hi, mid
      <4> QED
        BY <2>1, <3>1
    <3>3. g[<<lo, mid>>] = FnIn(rs, k, lo, mid) /\ g[<<mid + 1, hi>>] = FnIn(rs, k, mid + 1, hi)
      <4> HIDE DEF lo, hi, mid, D
      <4> QED
        BY <3>2
    <3> QED
      BY <3>3, FnInFound
  <2> DEFINE below == g[<<lo, mid>>]
             above == g[<<mid + 1, hi>>]
  <2>4. FoundIn(rs, k, lo, hi, Halved(rs, k, lo, hi, below, above))
    <3>1. mid = (lo + hi) \div 2
      OBVIOUS
    <3> HIDE DEF lo, hi, g, mid
    <3>2. lo < hi => FoundIn(rs, k, lo, mid, below) /\ FoundIn(rs, k, mid + 1, hi, above)
      BY <2>3
    <3> HIDE DEF below, above
    <3> QED
      BY <2>1, <3>1, <3>2, HalvedFinds
  <2>5. FoundIn(rs, k, lo, hi, Body(part))
    BY <2>4
  <2> DEFINE a == g[part]
             b == Body(part)
  <2>6. FoundIn(rs, k, lo, hi, a) /\ FoundIn(rs, k, lo, hi, b)
    BY <2>2, <2>5
  <2>7. a = b
    <3> HIDE DEF a, b, lo, hi
    <3> QED
      BY <2>1, <2>6, FoundOnce
  <2> QED
    BY <2>7
<1>2. g = [part \in D |-> Body(part)]
  <2>1. \A part \in D : g[part] = Body(part)
    BY <1>1
  <2> HIDE DEF Body
  <2> QED
    BY <2>1
<1>3. Search(rs, k, g)
  BY <1>2 DEF Search
<1> QED
  BY <1>3

(* ... and every solution finds the record of the key, if there is one.    *)
LEMMA SearchFinds ==
  ASSUME NEW rs, NEW k, Searched(rs, k), NEW g, Search(rs, k, g)
  PROVE  \A lo, hi \in 0..Len(rs) : FoundIn(rs, k, lo, hi, g[<<lo, hi>>])
<1> DEFINE Wrong(n) == \E lo, hi \in 0..Len(rs) :
                         /\ hi - lo <= n
                         /\ ~FoundIn(rs, k, lo, hi, g[<<lo, hi>>])
           T == {n \in Nat : Wrong(n)}
<1>1. Len(rs) \in Nat
  BY DEF Searched
<1>2. \A n \in Nat : ~Wrong(n)
  <2> SUFFICES ASSUME T # {} PROVE FALSE
    OBVIOUS
  <2>1. PICK m \in T : \A n \in T : m <= n
    <3> HIDE DEF Wrong
    <3>1. T \subseteq Nat
      OBVIOUS
    <3> HIDE DEF T
    <3> QED
      BY <3>1, LeastNumber
  <2>2. m \in Nat /\ Wrong(m) /\ \A n \in Nat : n < m => ~Wrong(n)
    <3> HIDE DEF Wrong
    <3>1. \A n \in Nat : n < m /\ m \in Nat => ~(m <= n)
      OBVIOUS
    <3> QED
      BY <2>1, <3>1
  <2>3. PICK lo \in 0..Len(rs), hi \in 0..Len(rs) :
          hi - lo <= m /\ ~FoundIn(rs, k, lo, hi, g[<<lo, hi>>])
    BY <2>2
  <2> DEFINE mid == (lo + hi) \div 2
             below == g[<<lo, mid>>]
             above == g[<<mid + 1, hi>>]
  <2>4. g[<<lo, hi>>] = Halved(rs, k, lo, hi, below, above)
    <3>1. <<lo, hi>> \in (0..Len(rs)) \X (0..Len(rs))
      OBVIOUS
    <3> QED
      BY <3>1 DEF Search
  <2>5. ASSUME lo < hi
        PROVE  FoundIn(rs, k, lo, mid, below) /\ FoundIn(rs, k, mid + 1, hi, above)
    <3>1. /\ mid \in 0..Len(rs) /\ mid + 1 \in 0..Len(rs) /\ m - 1 \in Nat /\ m - 1 < m
          /\ mid - lo <= m - 1 /\ hi - (mid + 1) <= m - 1
      <4>1. lo \in Nat /\ hi \in Nat
        BY <1>1
      <4> QED
        BY <1>1, <2>2, <2>3, <2>5, <4>1
    <3>2. ~Wrong(m - 1)
      <4> HIDE DEF Wrong
      <4> QED
        BY <2>2, <3>1
    <3> HIDE DEF mid
    <3> QED
      BY <3>1, <3>2
  <2>6. mid = (lo + hi) \div 2
    OBVIOUS
  <2> HIDE DEF mid, below, above
  <2>7. FoundIn(rs, k, lo, hi, Halved(rs, k, lo, hi, below, above))
    BY <2>5, <2>6, HalvedFinds
  <2> QED
    BY <2>3, <2>4, <2>7
<1> SUFFICES ASSUME NEW lo \in 0..Len(rs), NEW hi \in 0..Len(rs)
             PROVE  FoundIn(rs, k, lo, hi, g[<<lo, hi>>])
  OBVIOUS
<1>3. \E n \in Nat : hi - lo <= n
  BY <1>1
<1> QED
  BY <1>2, <1>3

(* Bsearch is one of the solutions.                                        *)
LEMMA BsearchSearches ==
  ASSUME NEW rs, NEW k, Searched(rs, k)
  PROVE  FoundIn(rs, k, 0, Len(rs), Converters!Bsearch(rs, k))
<1> DEFINE g == CHOOSE g : Search(rs, k, g)
<1>1. Search(rs, k, g)
  BY SearchExists
<1>2. Converters!Bsearch(rs, k) = g[<<0, Len(rs)>>]
  BY DEF Converters!Bsearch, Search, Halved
<1>3. 0 \in 0..Len(rs) /\ Len(rs) \in 0..Len(rs)
  BY DEF Searched
<1> HIDE DEF g
<1>4. \A lo, hi \in 0..Len(rs) : FoundIn(rs, k, lo, hi, g[<<lo, hi>>])
  BY <1>1, SearchFinds
<1> QED
  BY <1>2, <1>3, <1>4

(* What a look-up of a key in a set of records gives.                      *)
Found(rs, k, v) ==
  \/ \E r \in RecordsOf(rs) : r.key = k /\ v = r.fn
  \/ v = NULL /\ \A r \in RecordsOf(rs) : r.key # k

(* bsearch finds what the records hold.                                    *)
LEMMA BsearchFinds ==
  ASSUME NEW rs \in Seq(Converters!Record), Increasing(rs), NEW k \in Keys
  PROVE  Found(rs, k, Converters!Bsearch(rs, k))
<1>1. Searched(rs, k)
  <2>1. \A i \in 1..Len(rs) : i \in DOMAIN rs /\ rs[i] \in Converters!Record
    OBVIOUS
  <2>2. Keys \subseteq Int /\ Len(rs) \in Nat
    BY ConvertersAssumption
  <2>3. \A i \in 1..Len(rs) : rs[i].key \in Int
    BY <2>1, <2>2 DEF Converters!Record
  <2> QED
    BY <2>1, <2>2, <2>3 DEF Searched, Increasing
<1>2. FoundIn(rs, k, 0, Len(rs), Converters!Bsearch(rs, k))
  BY <1>1, BsearchSearches
<1> DEFINE v == Converters!Bsearch(rs, k)
<1> HIDE DEF v
<1>3. FoundIn(rs, k, 0, Len(rs), v)
  BY <1>2 DEF v
<1>4. \A i \in DOMAIN rs : i \in (0 + 1)..Len(rs)
  OBVIOUS
<1>5. \A i \in (0 + 1)..Len(rs) : i \in DOMAIN rs
  OBVIOUS
<1>6. Found(rs, k, v)
  BY <1>3, <1>4, <1>5 DEF FoundIn, Found, RecordsOf
<1> QED
  BY <1>6 DEF v

(* Found depends on the set of the records only.                           *)
LEMMA SortedFinds ==
  ASSUME NEW rs \in Seq(Converters!Record), Distinct(rs)
  PROVE  LET s == Converters!Sorted(rs) IN
         /\ s \in Seq(Converters!Record) /\ Len(s) = Len(rs)
         /\ Increasing(s) /\ RecordsOf(s) = RecordsOf(rs)
         /\ \A k \in Keys : Found(rs, k, Converters!Bsearch(s, k))
<1> DEFINE s == Converters!Sorted(rs)
<1> HIDE DEF s
<1>1. s \in [DOMAIN rs -> RecordsOf(rs)] /\ Increasing(s) /\ RecordsOf(s) = RecordsOf(rs)
  BY SortedArranges DEF s, Arranges
<1>2. RecordsOf(rs) \subseteq Converters!Record
  BY DEF RecordsOf
<1>3. s \in [1..Len(rs) -> Converters!Record] /\ Len(rs) \in Nat
  BY <1>1, <1>2
<1>4. s \in Seq(Converters!Record) /\ Len(s) = Len(rs)
  BY <1>3
<1>5. ASSUME NEW k \in Keys PROVE Found(rs, k, Converters!Bsearch(s, k))
  <2> DEFINE v == Converters!Bsearch(s, k)
  <2> HIDE DEF v
  <2>1. Found(s, k, v)
    BY <1>1, <1>4, BsearchFinds DEF v
  <2>2. Found(rs, k, v)
    BY <1>1, <2>1 DEF Found
  <2> QED
    BY <2>2 DEF v
<1> QED
  BY <1>1, <1>4, <1>5 DEF s

Sound(tables, marks) ==
  /\ tables \in [Types!Table -> Seq(Converters!Record)]
  /\ marks \in [Types!Table -> BOOLEAN]
  /\ \A t \in Types!Table : Distinct(tables[t]) /\ (marks[t] => Increasing(tables[t]))

(* The record of the last addition is in the table it was given to.        *)
ConvertersInv ==
  /\ made \in Types!Table
  /\ Sound(records, sorted)
  /\ available \in [Types!Table -> Nat]
  /\ Converters!RoomLeft
  /\ \A t \in Types!Table : t > made => records[t] = <<>> /\ available[t] = 0
  /\ lastConversion.op = "add" /\ lastConversion.rc = 0 =>
       /\ lastConversion.t \in 1..made /\ lastConversion.k \in Keys
       /\ \E r \in RecordsOf(records[lastConversion.t]) :
            r.key = lastConversion.k /\ r.fn = lastConversion.f

HolderOf(tables, t) ==
  LET E == {u \in 1..t : tables[u] # <<>>} \cup {0} IN CHOOSE u \in E : \A v \in E : u >= v

(* The table a look-up searches is the nearest one with records.           *)
LEMMA HolderIs ==
  ASSUME NEW t \in Types!Table, NEW tables
  PROVE  NearestIn({u \in Types!Table : tables[u] # <<>>}, t, HolderOf(tables, t))
<1> DEFINE S == {u \in Types!Table : tables[u] # <<>>}
           E == {u \in 1..t : tables[u] # <<>>} \cup {0}
<1>1. t \in Nat /\ E = {u \in 1..t : u \in S} \cup {0}
  BY DepthAssumption DEF Types!Table
<1>2. HolderOf(tables, t) = CHOOSE u \in E : \A v \in E : u >= v
  BY DEF HolderOf
<1> HIDE DEF E, S
<1>3. NearestIn(S, t, HolderOf(tables, t))
  BY <1>1, <1>2, GreatestIs
<1> QED
  BY <1>3 DEF S

(* Holder of ConverterTable is this one, before a step and after it.       *)
LEMMA HoldersAre ==
  /\ \A t : Converters!Holder(t) = HolderOf(records, t)
  /\ \A t : Converters!Holder(t)' = HolderOf(records', t)
BY DEF Converters!Holder, Converters!Max, HolderOf

(* Only one function can be found.                                         *)
LEMMA FoundIs ==
  ASSUME NEW rs, Distinct(rs), NEW k, NEW v, Found(rs, k, v),
         NEW r \in RecordsOf(rs), r.key = k
  PROVE  v = r.fn
BY DEF Distinct, Found, RecordsOf

(* What the array is once it is searched.                                  *)
InOrderOf(tables, marks, u) == IF marks[u] THEN tables[u] ELSE Converters!Sorted(tables[u])

(* The array that is searched is in order, has the records of the table,   *)
(* and what a search gives is what they hold.                              *)
LEMMA InOrderSound ==
  ASSUME NEW tables, NEW marks, Sound(tables, marks), NEW u \in Types!Table
  PROVE  LET s == InOrderOf(tables, marks, u) IN
         /\ s \in Seq(Converters!Record) /\ Len(s) = Len(tables[u])
         /\ Increasing(s) /\ RecordsOf(s) = RecordsOf(tables[u])
         /\ \A k \in Keys : Found(tables[u], k, Converters!Bsearch(s, k))
<1> DEFINE rs == tables[u]
<1>1. rs \in Seq(Converters!Record) /\ Distinct(rs) /\ (marks[u] => Increasing(rs))
  BY DEF Sound
<1>2. InOrderOf(tables, marks, u) = IF marks[u] THEN rs ELSE Converters!Sorted(rs)
  BY DEF InOrderOf
<1> HIDE DEF rs
<1>3. CASE marks[u]
  <2>1. \A k \in Keys : Found(rs, k, Converters!Bsearch(rs, k))
    BY <1>1, <1>3, BsearchFinds
  <2> QED
    BY <1>1, <1>2, <1>3, <2>1 DEF rs
<1>4. CASE ~marks[u]
  <2> DEFINE s == Converters!Sorted(rs)
  <2>1. /\ s \in Seq(Converters!Record) /\ Len(s) = Len(rs)
        /\ Increasing(s) /\ RecordsOf(s) = RecordsOf(rs)
        /\ \A k \in Keys : Found(rs, k, Converters!Bsearch(s, k))
    BY <1>1, SortedFinds
  <2> QED
    BY <1>2, <1>4, <2>1 DEF rs
<1> QED
  BY <1>3, <1>4

(* A look-up finds what the nearest table with records holds.              *)
FoundFrom(tables, t, k, v) ==
  LET u == HolderOf(tables, t) IN IF u = 0 THEN v = NULL ELSE Found(tables[u], k, v)

LookupOf(tables, marks, t, k) ==
  LET u == HolderOf(tables, t) IN
  IF u = 0 THEN NULL ELSE Converters!Bsearch(InOrderOf(tables, marks, u), k)

(* The binary search finds what the nearest table with records holds,      *)
(* whether or not the look-up had to sort it first.                        *)
LEMMA LookupFinds ==
  ASSUME NEW tables, NEW marks, Sound(tables, marks), NEW t \in Types!Table, NEW k \in Keys
  PROVE  FoundFrom(tables, t, k, LookupOf(tables, marks, t, k))
<1> DEFINE u == HolderOf(tables, t)
<1>1. u # 0 => u \in 1..t
  BY HolderIs DEF NearestIn
<1>2. u # 0 => u \in Types!Table
  BY <1>1, DepthAssumption DEF Types!Table
<1> HIDE DEF u
<1>3. u # 0 => Found(tables[u], k, Converters!Bsearch(InOrderOf(tables, marks, u), k))
  BY <1>2, InOrderSound
<1> QED
  BY <1>3 DEF FoundFrom, LookupOf, u

(* Lookup of ConverterTable is this one, before a step and after it.       *)
LEMMA LookupsAre ==
  /\ \A t, k : Converters!Lookup(t, k) = LookupOf(records, sorted, t, k)
  /\ \A t, k : Converters!Lookup(t, k)' = LookupOf(records', sorted', t, k)
<1>1. \A u : /\ Converters!InOrder(u) = InOrderOf(records, sorted, u)
             /\ Converters!InOrder(u)' = InOrderOf(records', sorted', u)
  BY DEF Converters!InOrder, InOrderOf
<1>2. \A t, k : Converters!Lookup(t, k) = LookupOf(records, sorted, t, k)
  BY <1>1, HoldersAre DEF Converters!Lookup, LookupOf
<1>3. \A t, k : Converters!Lookup(t, k)' = LookupOf(records', sorted', t, k)
  BY <1>1, HoldersAre DEF Converters!Lookup, LookupOf
<1> QED
  BY <1>2, <1>3

(* What is found stays found while no record goes.                         *)
LEMMA FoundKept ==
  ASSUME NEW f, NEW g, NEW m, NEW n, Sound(f, m), Sound(g, n),
         NEW t \in Types!Table, NEW k \in Keys, NEW v, NEW w,
         FoundFrom(f, t, k, v), FoundFrom(g, t, k, w), v # NULL,
         \A u \in 1..t : RecordsOf(f[u]) \subseteq RecordsOf(g[u])
  PROVE  \/ w = v
         \/ \E u \in (HolderOf(f, t) + 1)..t : f[u] = <<>> /\ g[u] # <<>>
<1> DEFINE a == HolderOf(f, t)
           b == HolderOf(g, t)
<1>1. /\ NearestIn({u \in Types!Table : f[u] # <<>>}, t, a)
      /\ NearestIn({u \in Types!Table : g[u] # <<>>}, t, b)
  BY HolderIs
<1>2. /\ a # 0 /\ Found(f[a], k, v)
      /\ IF b = 0 THEN w = NULL ELSE Found(g[b], k, w)
  BY DEF FoundFrom
<1> HIDE DEF a, b
<1>3. t \in Nat /\ a \in 1..t /\ \A u \in 1..t : u \in Types!Table
  BY <1>1, <1>2, DepthAssumption DEF NearestIn, Types!Table
<1>4. PICK r \in RecordsOf(f[a]) : r.key = k /\ v = r.fn
  BY <1>2 DEF Found
<1>5. r \in RecordsOf(g[a])
  BY <1>3, <1>4
<1>6. g[a] # <<>>
  BY <1>5 DEF RecordsOf
<1>7. b \in 1..t /\ b >= a /\ (b > a => f[b] = <<>> /\ g[b] # <<>>)
  BY <1>1, <1>3, <1>6 DEF NearestIn
<1>8. CASE b > a
  BY <1>3, <1>7, <1>8 DEF a
<1>9. CASE b = a
  <2>1. Found(g[a], k, w) /\ Distinct(g[a])
    BY <1>2, <1>3, <1>7, <1>9 DEF Sound
  <2> QED
    BY <1>4, <1>5, <2>1, FoundIs
<1> QED
  BY <1>3, <1>7, <1>8, <1>9

(* The properties of the states follow from the invariant.                 *)
LEMMA ConvertersInvSeen == ConvertersInv => Converters!ArraysSound /\ Converters!AddedIsFound
<1> SUFFICES ASSUME ConvertersInv PROVE Converters!ArraysSound /\ Converters!AddedIsFound
  OBVIOUS
<1>1. Converters!ArraysSound
  BY DEF ConvertersInv, Sound, Increasing, Converters!ArraysSound, Converters!MarkedIsSorted,
     Converters!Table, Types!Table
<1>2. ASSUME lastConversion.op = "add", lastConversion.rc = 0
      PROVE  Converters!Lookup(lastConversion.t, lastConversion.k) = lastConversion.f
  <2> DEFINE t == lastConversion.t
             k == lastConversion.k
             v == LookupOf(records, sorted, t, k)
             u == HolderOf(records, t)
  <2>1. t \in 1..made /\ k \in Keys /\ Sound(records, sorted)
    BY <1>2 DEF ConvertersInv
  <2>2. PICK r \in RecordsOf(records[t]) : r.key = k /\ r.fn = lastConversion.f
    BY <1>2 DEF ConvertersInv
  <2>3. t \in Types!Table /\ t \in Nat /\ t >= 1
    BY <2>1, DepthAssumption DEF ConvertersInv, Types!Table
  <2>4. records[t] # <<>>
    BY <2>2 DEF RecordsOf
  <2> HIDE DEF t, k, v, u
  <2>5. FoundFrom(records, t, k, v)
    BY <2>1, <2>3, LookupFinds DEF v
  <2>6. NearestIn({w \in Types!Table : records[w] # <<>>}, t, u)
    BY <2>3, HolderIs DEF u
  <2>7. u = t
    BY <2>3, <2>4, <2>6 DEF NearestIn
  <2>8. Found(records[t], k, v) /\ Distinct(records[t])
    BY <2>1, <2>3, <2>5, <2>7 DEF FoundFrom, u, Sound
  <2>9. v = r.fn
    BY <2>2, <2>8, FoundIs
  <2> QED
    BY <2>2, <2>9, LookupsAre DEF v, t, k
<1> QED
  BY <1>1, <1>2 DEF Converters!AddedIsFound

(* What the property says of a step.                                       *)
ConversionsStay ==
  \/ UNCHANGED <<made, records, sorted>>
  \/ \A t \in 1..made, k \in Keys :
       (t <= made' /\ Converters!Lookup(t, k) # NULL) =>
         \/ Converters!Lookup(t, k)' = Converters!Lookup(t, k)
         \/ \E u \in (Converters!Holder(t) + 1)..t : records[u] = <<>> /\ records'[u] # <<>>

(* A step that loses no record of the tables that stay alive.              *)
LEMMA ConversionsKept ==
  ASSUME made \in Types!Table, Sound(records, sorted), Sound(records', sorted'),
         \A u \in 1..made : u <= made' => RecordsOf(records[u]) \subseteq RecordsOf(records'[u]),
         made' \in Types!Table
  PROVE  ConversionsStay
<1> SUFFICES ASSUME NEW t \in 1..made, NEW k \in Keys, t <= made',
                    Converters!Lookup(t, k) # NULL
             PROVE  \/ Converters!Lookup(t, k)' = Converters!Lookup(t, k)
                    \/ \E u \in (Converters!Holder(t) + 1)..t :
                         records[u] = <<>> /\ records'[u] # <<>>
  BY DEF ConversionsStay
<1> DEFINE f == records
           g == records'
           m == sorted
           n == sorted'
           v == LookupOf(f, m, t, k)
           w == LookupOf(g, n, t, k)
<1>1. t \in Types!Table /\ \A u \in 1..t : u \in 1..made /\ u <= made'
  BY DepthAssumption DEF Types!Table
<1>2. \A u \in 1..t : RecordsOf(f[u]) \subseteq RecordsOf(g[u])
  BY <1>1
<1>3. Converters!Lookup(t, k) = v /\ Converters!Lookup(t, k)' = w
  BY LookupsAre
<1>4. Converters!Holder(t) = HolderOf(f, t)
  BY HoldersAre
<1>5. Sound(f, m) /\ Sound(g, n)
  OBVIOUS
<1> HIDE DEF f, g, m, n
<1>6. FoundFrom(f, t, k, v) /\ FoundFrom(g, t, k, w)
  BY <1>1, <1>5, LookupFinds
<1> HIDE DEF v, w
<1>7. v # NULL
  BY <1>3
<1>8. \/ w = v
      \/ \E u \in (HolderOf(f, t) + 1)..t : f[u] = <<>> /\ g[u] # <<>>
  BY <1>1, <1>2, <1>5, <1>6, <1>7, FoundKept
<1> QED
  BY <1>3, <1>4, <1>8 DEF f, g

(* A look-up leaves the table it searches in order, with the same records. *)
LookedUp(f, m, u) == IF u = 0 THEN f ELSE [f EXCEPT ![u] = InOrderOf(f, m, u)]
Marked(m, u) == IF u = 0 THEN m ELSE [m EXCEPT ![u] = TRUE]

(* It leaves the other tables alone, and the marks true.                   *)
LEMMA LookedUpSound ==
  ASSUME NEW f, NEW m, Sound(f, m), NEW h \in Types!Table \cup {0}
  PROVE  LET g == LookedUp(f, m, h) IN
         /\ Sound(g, Marked(m, h))
         /\ \A u \in Types!Table : RecordsOf(g[u]) = RecordsOf(f[u]) /\ Len(g[u]) = Len(f[u])
<1>1. 0 \notin Types!Table
  BY DepthAssumption DEF Types!Table
<1>2. CASE h = 0
  BY <1>2 DEF LookedUp, Marked
<1>3. CASE h # 0
  <2> DEFINE g == LookedUp(f, m, h)
             n == Marked(m, h)
             s == InOrderOf(f, m, h)
  <2>1. /\ s \in Seq(Converters!Record) /\ Len(s) = Len(f[h])
        /\ Increasing(s) /\ RecordsOf(s) = RecordsOf(f[h])
    BY <1>3, InOrderSound
  <2>2. g = [f EXCEPT ![h] = s] /\ n = [m EXCEPT ![h] = TRUE]
    BY <1>3 DEF LookedUp, Marked
  <2> HIDE DEF g, n, s
  <2>3. /\ g \in [Types!Table -> Seq(Converters!Record)] /\ n \in [Types!Table -> BOOLEAN]
        /\ \A u \in Types!Table : g[u] = IF u = h THEN s ELSE f[u]
        /\ \A u \in Types!Table : n[u] = IF u = h THEN TRUE ELSE m[u]
    BY <1>3, <2>1, <2>2 DEF Sound
  <2>4. Distinct(s)
    <3> SUFFICES ASSUME NEW i \in DOMAIN s, NEW j \in DOMAIN s, i # j
                 PROVE  s[i].key # s[j].key
      BY DEF Distinct
    <3>1. i \in Nat /\ j \in Nat /\ s[i] \in Converters!Record /\ s[j] \in Converters!Record
      BY <2>1
    <3>2. s[i].key \in Int /\ s[j].key \in Int
      BY <3>1, ConvertersAssumption DEF Converters!Record
    <3>3. i < j \/ j < i
      BY <3>1
    <3>4. s[i].key < s[j].key \/ s[j].key < s[i].key
      BY <2>1, <3>3 DEF Increasing
    <3> QED
      BY <3>2, <3>4
  <2>5. Sound(g, n)
    BY <2>1, <2>3, <2>4 DEF Sound
  <2> QED
    BY <2>1, <2>3, <2>5 DEF g, n
<1> QED
  BY <1>2, <1>3

(* The invariant of the converters holds in the initial state, ...         *)
LEMMA ConvertersInit == Converters!Init => ConvertersInv
<1> SUFFICES ASSUME Converters!Init PROVE ConvertersInv
  OBVIOUS
<1>1. Sound(records, sorted)
  BY DEF Converters!Init, Sound, Distinct, Increasing, Converters!Table, Types!Table
<1>2. lastConversion.op = "none"
  BY DEF Converters!Init, Converters!NoOperation
<1> QED
  BY <1>1, <1>2, DepthAssumption
     DEF Converters!Init, ConvertersInv, Converters!RoomLeft, Converters!Table, Types!Table

(* An operation that only looks a pair up.                                 *)
LEMMA LooksUp ==
  ASSUME ConvertersInv, NEW t \in 1..made, Converters!SortedOnLookup(t),
         UNCHANGED <<made, available>>,
         ~(lastConversion'.op = "add" /\ lastConversion'.rc = 0)
  PROVE  ConvertersInv' /\ ConversionsStay
<1> DEFINE h == Converters!Holder(t)
           g == LookedUp(records, sorted, h)
           n == Marked(sorted, h)
<1>1. t \in Types!Table /\ made \in Types!Table /\ Sound(records, sorted)
  BY DepthAssumption DEF ConvertersInv, Types!Table
<1>2. h \in Types!Table \cup {0}
  <2>1. h = 0 \/ h \in 1..t
    BY <1>1, HoldersAre, HolderIs DEF NearestIn
  <2> HIDE DEF h
  <2> QED
    BY <1>1, <2>1, DepthAssumption DEF Types!Table
<1>3. records' = g /\ sorted' = n
  BY DEF Converters!SortedOnLookup, LookedUp, Marked, Converters!InOrder, InOrderOf
<1>4. /\ Sound(g, n)
      /\ \A u \in Types!Table : RecordsOf(g[u]) = RecordsOf(records[u]) /\ Len(g[u]) = Len(records[u])
  <2> HIDE DEF h
  <2> QED
    BY <1>1, <1>2, LookedUpSound
<1> HIDE DEF g, n, h
<1>5. ASSUME NEW u \in Types!Table
      PROVE  RecordsOf(records'[u]) = RecordsOf(records[u]) /\ Len(records'[u]) = Len(records[u])
             /\ (records'[u] = <<>> <=> records[u] = <<>>)
  <2>1. records[u] \in Seq(Converters!Record) /\ g[u] \in Seq(Converters!Record)
    BY <1>1, <1>4 DEF Sound
  <2> QED
    BY <1>3, <1>4, <2>1
<1>6. Converters!RoomLeft'
  BY <1>5 DEF ConvertersInv, Converters!RoomLeft, Converters!Table, Types!Table
<1>7. ConvertersInv'
  BY <1>3, <1>4, <1>5, <1>6 DEF ConvertersInv
<1>8. \A u \in 1..made : RecordsOf(records[u]) \subseteq RecordsOf(records'[u])
  BY <1>1, <1>5, DepthAssumption DEF Types!Table
<1> QED
  BY <1>1, <1>3, <1>4, <1>7, <1>8, ConversionsKept

(* A record with a new key is added at the end.                            *)
LEMMA Appended ==
  ASSUME NEW rs \in Seq(Converters!Record), Distinct(rs), NEW r \in Converters!Record,
         \A q \in RecordsOf(rs) : q.key # r.key
  PROVE  LET s == Append(rs, r) IN
         /\ s \in Seq(Converters!Record) /\ Len(s) = Len(rs) + 1 /\ s # <<>>
         /\ Distinct(s) /\ r \in RecordsOf(s) /\ RecordsOf(rs) \subseteq RecordsOf(s)
<1> DEFINE s == Append(rs, r)
<1>1. /\ s \in Seq(Converters!Record) /\ Len(rs) \in Nat /\ Len(s) = Len(rs) + 1
      /\ DOMAIN rs = 1..Len(rs) /\ DOMAIN s = 1..(Len(rs) + 1)
      /\ \A i \in 1..Len(rs) : s[i] = rs[i]
      /\ s[Len(rs) + 1] = r
  OBVIOUS
<1> HIDE DEF s
<1>2. \A i \in 1..(Len(rs) + 1) : i \in 1..Len(rs) \/ i = Len(rs) + 1
  BY <1>1
<1>3. \A i \in 1..Len(rs) : s[i].key # r.key
  BY <1>1 DEF RecordsOf
<1>4. Distinct(s)
  <2> SUFFICES ASSUME NEW i \in 1..(Len(rs) + 1), NEW j \in 1..(Len(rs) + 1), i # j
               PROVE  s[i].key # s[j].key
    BY <1>1 DEF Distinct
  <2>1. CASE i \in 1..Len(rs) /\ j \in 1..Len(rs)
    BY <1>1, <2>1 DEF Distinct
  <2> QED
    BY <1>1, <1>2, <1>3, <2>1
<1>5. r \in RecordsOf(s)
  BY <1>1 DEF RecordsOf
<1>6. RecordsOf(rs) \subseteq RecordsOf(s)
  BY <1>1 DEF RecordsOf
<1>7. s # <<>>
  BY <1>1
<1> QED
  BY <1>1, <1>4, <1>5, <1>6, <1>7 DEF s

(* ... when a converter is added, which makes room for the next one, ...   *)
LEMMA AddsNew ==
  ASSUME ConvertersInv, NEW t \in 1..made, NEW k \in Keys, NEW f \in Funcs,
         Converters!AddNew(t, k, f)
  PROVE  ConvertersInv' /\ ConversionsStay
<1> DEFINE h == Converters!Holder(t)
           g == LookedUp(records, sorted, h)
           n == Marked(sorted, h)
           r == [key |-> k, fn |-> f]
           s == Append(g[t], r)
<1>1. t \in Types!Table /\ made \in Types!Table /\ Sound(records, sorted)
  BY DepthAssumption DEF ConvertersInv, Types!Table
<1>2. h \in Types!Table \cup {0}
  <2>1. h = 0 \/ h \in 1..t
    BY <1>1, HoldersAre, HolderIs DEF NearestIn
  <2> HIDE DEF h
  <2> QED
    BY <1>1, <2>1, DepthAssumption DEF Types!Table
<1>3. /\ records' = [g EXCEPT ![t] = s] /\ sorted' = [n EXCEPT ![t] = FALSE] /\ made' = made
      /\ available' = IF Len(records[t]) + 1 >= available[t]
                      THEN [available EXCEPT ![t] = @ + Increment] ELSE available
  BY DEF Converters!AddNew, LookedUp, Marked, Converters!InOrder, InOrderOf, Converters!Full
<1>4. /\ Sound(g, n)
      /\ \A u \in Types!Table : RecordsOf(g[u]) = RecordsOf(records[u]) /\ Len(g[u]) = Len(records[u])
  <2> HIDE DEF h
  <2> QED
    BY <1>1, <1>2, LookedUpSound
<1>5. r \in Converters!Record /\ r.key = k /\ r.fn = f
  BY DEF Converters!Record
<1>6. \A q \in RecordsOf(records[t]) : q.key # k
  BY DEF Converters!AddNew, Converters!Own, Converters!Range, RecordsOf
<1>7. /\ lastConversion'.op = "add" /\ lastConversion'.rc = 0 /\ lastConversion'.t = t
      /\ lastConversion'.k = k /\ lastConversion'.f = f
  BY DEF Converters!AddNew, Converters!Report
<1> DEFINE gt == g[t]
<1>8. /\ s \in Seq(Converters!Record) /\ Len(s) = Len(records[t]) + 1 /\ s # <<>>
      /\ Distinct(s) /\ r \in RecordsOf(s) /\ RecordsOf(records[t]) \subseteq RecordsOf(s)
  <2>1. /\ gt \in Seq(Converters!Record) /\ Distinct(gt)
        /\ RecordsOf(gt) = RecordsOf(records[t]) /\ Len(gt) = Len(records[t])
    <3> HIDE DEF g, n
    <3> QED
      BY <1>1, <1>4 DEF Sound
  <2> HIDE DEF gt, r
  <2>2. \A q \in RecordsOf(gt) : q.key # r.key
    BY <1>5, <1>6, <2>1
  <2> DEFINE a == Append(gt, r)
  <2>3. /\ a \in Seq(Converters!Record) /\ Len(a) = Len(gt) + 1 /\ a # <<>>
        /\ Distinct(a) /\ r \in RecordsOf(a) /\ RecordsOf(gt) \subseteq RecordsOf(a)
    BY <1>5, <2>1, <2>2, Appended
  <2>4. s = a
    BY DEF gt
  <2> QED
    BY <2>1, <2>3, <2>4
<1> HIDE DEF h, g, n, r, s, gt
<1>9. /\ records' \in [Types!Table -> Seq(Converters!Record)] /\ sorted' \in [Types!Table -> BOOLEAN]
      /\ \A u \in Types!Table : records'[u] = IF u = t THEN s ELSE g[u]
      /\ \A u \in Types!Table : sorted'[u] = IF u = t THEN FALSE ELSE n[u]
  BY <1>1, <1>3, <1>4, <1>8 DEF Sound
<1>10. Sound(records', sorted')
  BY <1>4, <1>8, <1>9 DEF Sound
<1>11. \A u \in Types!Table : RecordsOf(records[u]) \subseteq RecordsOf(records'[u])
  BY <1>4, <1>8, <1>9
<1>12. /\ available' \in [Types!Table -> Nat]
       /\ \A u \in Types!Table : u # t => available'[u] = available[u]
       /\ Len(records[t]) + 1 < available'[t]
  <2>1. available \in [Types!Table -> Nat] /\ Increment \in Nat /\ Increment >= 2
    BY ConvertersAssumption DEF ConvertersInv
  <2>2. /\ records[t] \in Seq(Converters!Record) /\ available[t] \in Nat
        /\ IF records[t] = <<>> THEN available[t] = 0 ELSE Len(records[t]) < available[t]
    BY <1>1, <2>1 DEF ConvertersInv, Sound, Converters!RoomLeft, Converters!Table, Types!Table
  <2>3. Len(records[t]) \in Nat /\ (records[t] = <<>> => Len(records[t]) = 0)
    BY <2>2
  <2>4. CASE Len(records[t]) + 1 >= available[t]
    BY <1>1, <1>3, <2>1, <2>2, <2>3, <2>4
  <2>5. CASE ~(Len(records[t]) + 1 >= available[t])
    BY <1>1, <1>3, <2>1, <2>2, <2>3, <2>5
  <2> QED
    BY <2>4, <2>5
<1>13. ASSUME NEW u \in Types!Table, u # t
       PROVE  Len(records'[u]) = Len(records[u]) /\ (records'[u] = <<>> <=> records[u] = <<>>)
  <2>1. records[u] \in Seq(Converters!Record) /\ g[u] \in Seq(Converters!Record)
    BY <1>1, <1>4 DEF Sound
  <2> QED
    BY <1>4, <1>9, <1>13, <2>1
<1>14. Converters!RoomLeft'
  <2> SUFFICES ASSUME NEW u \in Types!Table
               PROVE  IF records'[u] = <<>> THEN available'[u] = 0 ELSE Len(records'[u]) < available'[u]
    BY DEF Converters!RoomLeft, Converters!Table, Types!Table
  <2>1. CASE u = t
    BY <1>8, <1>9, <1>12, <2>1
  <2>2. CASE u # t
    BY <1>12, <1>13, <2>2 DEF ConvertersInv, Converters!RoomLeft, Converters!Table, Types!Table
  <2> QED
    BY <2>1, <2>2
<1>15. ASSUME NEW u \in Types!Table, u > made'
       PROVE  records'[u] = <<>> /\ available'[u] = 0
  <2>1. u # t /\ u > made
    BY <1>1, <1>3, <1>15, DepthAssumption DEF Types!Table
  <2> QED
    BY <1>12, <1>13, <2>1 DEF ConvertersInv
<1>16. /\ lastConversion'.t \in 1..made' /\ lastConversion'.k \in Keys
       /\ \E q \in RecordsOf(records'[lastConversion'.t]) :
            q.key = lastConversion'.k /\ q.fn = lastConversion'.f
  <2>1. r \in RecordsOf(records'[t])
    BY <1>1, <1>8, <1>9
  <2> QED
    BY <1>3, <1>5, <1>7, <2>1
<1>17. ConvertersInv'
  BY <1>1, <1>3, <1>10, <1>12, <1>14, <1>15, <1>16 DEF ConvertersInv
<1>18. \A u \in 1..made : RecordsOf(records[u]) \subseteq RecordsOf(records'[u])
  BY <1>1, <1>11, DepthAssumption DEF Types!Table
<1> QED
  BY <1>1, <1>3, <1>10, <1>17, <1>18, ConversionsKept

(* The records stay, and so do the tables that are alive.                  *)
LEMMA RecordsStay ==
  ASSUME ConvertersInv, UNCHANGED <<records, sorted, available>>,
         made' \in Types!Table, made <= made',
         lastConversion'.op = "add" /\ lastConversion'.rc = 0 =>
           /\ lastConversion'.t \in 1..made' /\ lastConversion'.k \in Keys
           /\ \E r \in RecordsOf(records[lastConversion'.t]) :
                r.key = lastConversion'.k /\ r.fn = lastConversion'.f
  PROVE  ConvertersInv' /\ ConversionsStay
<1>1. \A t \in Types!Table : t > made' => t > made
  BY DepthAssumption DEF Types!Table, ConvertersInv
<1>2. Converters!RoomLeft'
  BY DEF ConvertersInv, Converters!RoomLeft
<1>3. Sound(records', sorted')
  BY DEF ConvertersInv
<1>4. ConvertersInv'
  BY <1>1, <1>2, <1>3 DEF ConvertersInv
<1> QED
  BY <1>3, <1>4, ConversionsKept DEF ConvertersInv

(* ... when one is added again, ...                                        *)
LEMMA AddsRepeated ==
  ASSUME ConvertersInv, NEW t \in 1..made, NEW k \in Keys, NEW f \in Funcs,
         Converters!AddRepeated(t, k, f)
  PROVE  ConvertersInv' /\ ConversionsStay
<1>1. /\ made' = made /\ UNCHANGED <<records, sorted, available>>
      /\ lastConversion'.t = t /\ lastConversion'.k = k /\ lastConversion'.f = f
      /\ lastConversion'.rc = 0 => [key |-> k, fn |-> f] \in Converters!Own(t, k)
  BY DEF Converters!AddRepeated, Converters!Report
<1>2. made \in Types!Table /\ made <= made
  BY DepthAssumption DEF ConvertersInv, Types!Table
<1>3. [key |-> k, fn |-> f] \in Converters!Own(t, k) =>
        \E r \in RecordsOf(records[t]) : r.key = k /\ r.fn = f
  <2> DEFINE q == [key |-> k, fn |-> f]
  <2>1. q.key = k /\ q.fn = f
    OBVIOUS
  <2> HIDE DEF q
  <2>2. q \in Converters!Own(t, k) => q \in RecordsOf(records[t])
    BY DEF Converters!Own, Converters!Range, RecordsOf
  <2> QED
    BY <2>1, <2>2 DEF q
<1> QED
  BY <1>1, <1>2, <1>3, RecordsStay

(* ... and when the last context is destroyed.                             *)
LEMMA ConvertersDestroy ==
  ASSUME ConvertersInv, Converters!Destroy
  PROVE  ConvertersInv' /\ ConversionsStay
<1>1. /\ made \in Types!Table /\ made' \in Types!Table /\ made' = made - 1 /\ made \in Nat
      /\ records' = [records EXCEPT ![made] = <<>>]
      /\ sorted' = [sorted EXCEPT ![made] = FALSE]
      /\ available' = [available EXCEPT ![made] = 0]
      /\ lastConversion'.op = "none" /\ Sound(records, sorted)
  BY DepthAssumption
     DEF ConvertersInv, Types!Table, Converters!Destroy, Converters!NoOperation
<1>2. /\ records' \in [Types!Table -> Seq(Converters!Record)] /\ sorted' \in [Types!Table -> BOOLEAN]
      /\ available' \in [Types!Table -> Nat]
  BY <1>1 DEF ConvertersInv, Sound
<1>3. ASSUME NEW u \in Types!Table
      PROVE  /\ u = made => records'[u] = <<>> /\ available'[u] = 0 /\ sorted'[u] = FALSE
             /\ u # made => /\ records'[u] = records[u] /\ available'[u] = available[u]
                            /\ sorted'[u] = sorted[u]
  BY <1>1 DEF ConvertersInv, Sound
<1>4. Distinct(<<>>)
  BY DEF Distinct
<1>5. Sound(records', sorted')
  <2> SUFFICES ASSUME NEW u \in Types!Table
               PROVE  Distinct(records'[u]) /\ (sorted'[u] => Increasing(records'[u]))
    BY <1>2 DEF Sound
  <2> QED
    BY <1>1, <1>3, <1>4 DEF Sound
<1>6. Converters!RoomLeft'
  BY <1>3 DEF ConvertersInv, Converters!RoomLeft, Converters!Table, Types!Table
<1>7. ASSUME NEW u \in Types!Table, u > made'
      PROVE  records'[u] = <<>> /\ available'[u] = 0
  <2>1. u = made \/ u > made
    BY <1>1, <1>7, DepthAssumption DEF Types!Table
  <2> QED
    BY <1>3, <2>1 DEF ConvertersInv
<1>8. ConvertersInv'
  BY <1>1, <1>2, <1>5, <1>6, <1>7 DEF ConvertersInv
<1>9. ASSUME NEW u \in 1..made, u <= made'
      PROVE  RecordsOf(records[u]) \subseteq RecordsOf(records'[u])
  <2>1. u \in Types!Table /\ u # made
    BY <1>1, <1>9, DepthAssumption DEF Types!Table
  <2> QED
    BY <1>3, <2>1
<1> QED
  BY <1>1, <1>5, <1>8, <1>9, ConversionsKept

(* The invariant of the converters is inductive, and no step loses a       *)
(* converter but by hiding it.                                             *)
LEMMA ConvertersNext ==
  ASSUME ConvertersInv, [Converters!Next]_(Converters!vars)
  PROVE  ConvertersInv' /\ ConversionsStay
<1>0. made \in Types!Table /\ made <= made
  BY DepthAssumption DEF ConvertersInv, Types!Table
<1>1. CASE UNCHANGED Converters!vars
  <2>1. /\ UNCHANGED <<records, sorted, available>> /\ made' = made
        /\ lastConversion' = lastConversion
    BY <1>1 DEF Converters!vars
  <2> QED
    BY <1>0, <2>1, RecordsStay DEF ConvertersInv
<1>2. CASE Converters!CreateDescendant
  <2>1. /\ UNCHANGED <<records, sorted, available>> /\ made' \in Types!Table /\ made <= made'
        /\ lastConversion'.op = "none"
    BY <1>2, DepthAssumption
       DEF ConvertersInv, Types!Table, Converters!CreateDescendant, Converters!NoOperation
  <2> QED
    BY <2>1, RecordsStay
<1>3. CASE Converters!Destroy
  BY <1>3, ConvertersDestroy
<1>4. ASSUME NEW t \in 1..made, Converters!Get(t)
      PROVE  ConvertersInv' /\ ConversionsStay
  <2>1. /\ Converters!SortedOnLookup(t) /\ UNCHANGED <<made, available>>
        /\ lastConversion'.op = "get"
    BY <1>4 DEF Converters!Get, Converters!Report
  <2> QED
    BY <2>1, LooksUp
<1>5. ASSUME NEW t \in 1..made, NEW k \in Keys, NEW f \in Funcs,
             Converters!AddInherited(t, k, f) \/ Converters!AddNoMemory(t, k, f)
      PROVE  ConvertersInv' /\ ConversionsStay
  <2>1. /\ Converters!SortedOnLookup(t) /\ UNCHANGED <<made, available>>
        /\ lastConversion'.rc # 0
    BY <1>5 DEF Converters!AddInherited, Converters!AddNoMemory, Converters!Report
  <2> QED
    BY <2>1, LooksUp
<1>6. ASSUME NEW t \in 1..made, Converters!Operation(t)
      PROVE  ConvertersInv' /\ ConversionsStay
  BY <1>4, <1>5, <1>6, AddsRepeated, AddsNew DEF Converters!Operation
<1> QED
  BY <1>1, <1>2, <1>3, <1>6 DEF Converters!Next

(***************************************************************************)
(* The context.                                                            *)
(***************************************************************************)
Inv == TypesInv /\ ConvertersInv /\ FunctionsInv /\ ConstantsInv

(* What the properties say of a step.                                      *)
StepIsSound == TypesMeanings /\ ConversionsStay /\ OverloadTaken /\ ConstantMeanings

(* A step of the context is a step of every registry, or leaves it alone.  *)
LEMMA StepOfEach ==
  ASSUME [Next]_vars
  PROVE  /\ [Types!Next]_(Types!vars) /\ [Converters!Next]_(Converters!vars)
         /\ [Functions!Next]_(Functions!vars) /\ [Constants!Next]_(Constants!vars)
<1> USE DEF typeVars, converterVars, functionVars, constantVars,
            Types!vars, Converters!vars, Functions!vars, Constants!vars
<1>1. CASE UNCHANGED vars
  BY <1>1 DEF vars
<1>2. CASE CreateDescendant
  BY <1>2 DEF CreateDescendant, Types!Next, Converters!Next, Functions!Next, Constants!Next
<1>3. CASE Destroy
  BY <1>3 DEF Destroy, Types!Next, Converters!Next, Functions!Next, Constants!Next
<1>4. CASE ResolveStep
  <2>1. made' = made
    BY <1>4 DEF ResolveStep, Functions!Step, Functions!Unknown, Functions!AskParent,
       Functions!Cannot, Functions!Deny, Functions!Accept, Functions!Return
  <2> QED
    BY <1>4, <2>1 DEF ResolveStep, Functions!Next
<1>5. ASSUME NEW t \in 1..made, OfTypes(t) PROVE
         /\ [Types!Next]_(Types!vars) /\ [Converters!Next]_(Converters!vars)
         /\ [Functions!Next]_(Functions!vars) /\ [Constants!Next]_(Constants!vars)
  <2>1. made' = made
    BY <1>5 DEF OfTypes, Types!Operation, Types!Define, Types!Alias, Types!Promote
  <2> QED
    BY <1>5, <2>1 DEF OfTypes, Types!Next
<1>6. ASSUME NEW t \in 1..made, OfConverters(t) PROVE
         /\ [Types!Next]_(Types!vars) /\ [Converters!Next]_(Converters!vars)
         /\ [Functions!Next]_(Functions!vars) /\ [Constants!Next]_(Constants!vars)
  <2>1. made' = made
    BY <1>6 DEF OfConverters, Converters!Operation, Converters!Get, Converters!AddRepeated,
       Converters!AddInherited, Converters!AddNoMemory, Converters!AddNew
  <2> QED
    BY <1>6, <2>1 DEF OfConverters, Converters!Next
<1>7. ASSUME NEW t \in 1..made, OfFunctions(t) PROVE
         /\ [Types!Next]_(Types!vars) /\ [Converters!Next]_(Converters!vars)
         /\ [Functions!Next]_(Functions!vars) /\ [Constants!Next]_(Constants!vars)
  <2>1. made' = made
    BY <1>7 DEF OfFunctions, Functions!Operation, Functions!Define, Functions!CallResolve
  <2> QED
    BY <1>7, <2>1 DEF OfFunctions, Functions!Next
<1>8. ASSUME NEW t \in 1..made, OfConstants(t) PROVE
         /\ [Types!Next]_(Types!vars) /\ [Converters!Next]_(Converters!vars)
         /\ [Functions!Next]_(Functions!vars) /\ [Constants!Next]_(Constants!vars)
  <2>1. made' = made
    BY <1>8 DEF OfConstants, Constants!Operation, Constants!Define, Constants!Lex
  <2> QED
    BY <1>8, <2>1 DEF OfConstants, Constants!Next
<1> QED
  BY <1>1, <1>2, <1>3, <1>4, <1>5, <1>6, <1>7, <1>8 DEF Next

(* The invariant of the context holds in the initial states, ...           *)
LEMMA InvInit == Init => Inv
BY TypesInit, ConvertersInit, FunctionsInit, ConstantsInit DEF Init, Inv

(* ... is kept by every step, ...                                          *)
LEMMA InvNext ==
  ASSUME Inv, [Next]_vars
  PROVE  Inv' /\ StepIsSound
<1>1. TypesInv' /\ TypesMeanings
  BY StepOfEach, TypesNext DEF Inv
<1>2. ConvertersInv' /\ ConversionsStay
  BY StepOfEach, ConvertersNext DEF Inv
<1>3. FunctionsInv' /\ OverloadTaken
  BY StepOfEach, FunctionsNext DEF Inv
<1>4. ConstantsInv' /\ ConstantMeanings
  BY StepOfEach, ConstantsNext DEF Inv
<1> QED
  BY <1>1, <1>2, <1>3, <1>4 DEF Inv, StepIsSound

(* ... and so always holds.                                                *)
LEMMA InvHolds == Spec => []Inv
<1>1. Inv /\ [Next]_vars => Inv'
  BY InvNext
<1> QED
  BY <1>1, InvInit, PTL DEF Spec

(* A behaviour of the context is one of the table of types, of the table   *)
(* of converters and of the table of constants alike: what holds of a      *)
(* registry by itself holds in the context (context.cc).                   *)
THEOREM EachRegistry == Spec => Types!Spec /\ Converters!Spec /\ Constants!Spec
<1>1. Init => Types!Init /\ Converters!Init /\ Constants!Init
  BY DEF Init
<1>2. [Next]_vars => /\ [Types!Next]_(Types!vars) /\ [Converters!Next]_(Converters!vars)
                     /\ [Constants!Next]_(Constants!vars)
  BY StepOfEach
<1> QED
  BY <1>1, <1>2, PTL DEF Spec, Types!Spec, Converters!Spec, Constants!Spec

(* In every state a name leads to a type and the cache of promotions gives *)
(* no stale type (value.cc), and the arrays of converters are in order     *)
(* where they are marked so, with room for one more (converters.c).        *)
THEOREM TablesInOrderHolds == Spec => []TablesInOrder
<1>1. Inv => TablesInOrder
  BY ConvertersInvSeen DEF Inv, TablesInOrder, TypesInv
<1> QED
  BY <1>1, InvHolds, PTL

(* A converter that was added is found by the binary search, and a         *)
(* constant whose definition was accepted has the value that was given,    *)
(* whatever was defined, searched and destroyed before (converters.c,      *)
(* constants.cc).                                                          *)
THEOREM DefinedIsSeenHolds == Spec => []DefinedIsSeen
<1>1. Inv => DefinedIsSeen
  BY ConvertersInvSeen, ConstantsInvSeen DEF Inv, DefinedIsSeen
<1> QED
  BY <1>1, InvHolds, PTL

(* No step changes what a name of a type or of a constant means in a       *)
(* table, unless a nearer table defines the name (value.cc, constants.cc). *)
THEOREM MeaningsStayHolds == Spec => MeaningsStay
<1>1. Inv /\ [Next]_vars => TypesMeanings /\ ConstantMeanings
  BY InvNext DEF StepIsSound
<1>2. Inv /\ [Next]_vars =>
        [\/ UNCHANGED <<made, codeByName, items>>
         \/ \A t \in 1..made, n \in TypeNames :
              t <= made' => (Types!Meaning(t, n)' = Types!Meaning(t, n)
                             \/ Types!Shadowed(t, n))]_(Types!vars)
  BY <1>1 DEF TypesMeanings
<1>3. Inv /\ [Next]_vars =>
        [\A t \in 1..made, n \in ConstantNames :
           t <= made' =>
             \/ Constants!GetValue(t, n)' = Constants!GetValue(t, n)
             \/ \E u \in (Constants!Nearest(t, n) + 1)..t :
                  values[u][n] = NULL /\ values'[u][n] # NULL]_(Constants!vars)
  BY <1>1 DEF ConstantMeanings
<1> QED
  BY <1>2, <1>3, InvHolds, PTL
  DEF Spec, MeaningsStay, Types!MeaningsStay, Constants!MeaningStays

(* A converter that is found stays found, through the sortings and         *)
(* additions of its table, unless a nearer table gets its first record     *)
(* (converters.c).                                                         *)
THEOREM FoundStaysHolds == Spec => FoundStays
<1>1. Inv /\ [Next]_vars => ConversionsStay
  BY InvNext DEF StepIsSound
<1>2. Inv /\ [Next]_vars =>
        [\/ UNCHANGED <<made, records, sorted>>
         \/ \A t \in 1..made, k \in Keys :
              (t <= made' /\ Converters!Lookup(t, k) # NULL) =>
                \/ Converters!Lookup(t, k)' = Converters!Lookup(t, k)
                \/ \E u \in (Converters!Holder(t) + 1)..t :
                     records[u] = <<>> /\ records'[u] # <<>>]_(Converters!vars)
  BY <1>1 DEF ConversionsStay
<1> QED
  BY <1>2, InvHolds, PTL DEF Spec, FoundStays, Converters!FoundStays

(* A call is resolved if and only if a constructor of that name accepts    *)
(* the arguments, in whatever order the constructors are tried             *)
(* (function.cc).                                                          *)
THEOREM OverloadsHolds == Spec => Overloads
<1>1. Inv /\ [Next]_vars => OverloadTaken
  BY InvNext DEF StepIsSound
<1>2. Inv /\ [Next]_vars =>
        [(call # NULL /\ result' # NULL /\ Functions!Candidates # {}) =>
           /\ (result'.rc = "ok") <=> (\E c \in Functions!Candidates : call.sort \in c)
           /\ result'.rc = "ok" => call.sort \in result'.by
                                   /\ result'.by \in Functions!Candidates]_(Functions!vars)
  BY <1>1 DEF OverloadTaken
<1> QED
  BY <1>2, InvHolds, PTL DEF Spec, Overloads, Functions!Overloads
==============================================================================
