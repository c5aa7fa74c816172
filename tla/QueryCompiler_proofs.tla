------------------------- MODULE QueryCompiler_proofs -------------------------
(***************************************************************************)
(* Proofs about QueryCompiler: who destroys what.                          *)
(*                                                                         *)
(* OneOwner is not inductive: that a reduction hands a query to a new      *)
(* attribute makes no second owner only if nothing else could become one.  *)
(* OwnInv says what all of the heap, the semantic values, the stack of     *)
(* scopes and the context's list may claim; each reduction preserves it.   *)
(* LiveInv, on top of it, says what was destroyed; LiveRefs follows.       *)
(* LeaveInv, on top of both, says why everything that is made will be      *)
(* destroyed: it has an owner, a holder or a place in the context's list,  *)
(* the claims lead upwards, and what an owner destroyed it left nothing    *)
(* of.  LeavesNothing follows.                                             *)
(***************************************************************************)
EXTENDS QueryCompiler, FiniteSetTheorems, WellFoundedInduction, TLAPS

(* Every set of natural numbers that is not empty has a least element.     *)
LEMMA LeastElement ==
  ASSUME NEW T, T \subseteq Nat, T # {}
  PROVE  \E m \in T : \A k \in T : m <= k
<1> DEFINE R == OpToRel(<, Nat)
<1>1. IsWellFoundedOn(R, Nat)
  BY NatLessThanWellFounded
<1>2. \A a, b \in Nat : a < b => <<a, b>> \in R
  BY DEF OpToRel
<1> HIDE DEF R
<1>3. PICK m \in T : \A k \in T : ~(<<k, m>> \in R)
  BY <1>1, WFMin
<1>4. \A k \in T : k \in Nat /\ m \in Nat /\ ~(k < m)
  BY <1>2, <1>3
<1> QED
  BY <1>3, <1>4

(* One step on from a set.                                                 *)
Onward(f, s) == s \cup UNION {f[o] : o \in s}

Steps(f, S, g, n) == g[0] = S /\ \A k \in 1..n : g[k] = Onward(f, g[k - 1])

(* The sets that Reach computes exist for any number of steps, ...         *)
LEMMA StepsExist ==
  ASSUME NEW f, NEW S
  PROVE  \A n \in Nat : \E g : Steps(f, S, g, n)
<1> DEFINE T == {n \in Nat : ~\E g : Steps(f, S, g, n)}
<1> SUFFICES ASSUME T # {} PROVE FALSE
  OBVIOUS
<1>1. PICK m \in T : \A k \in T : m <= k
  BY LeastElement
<1>2. CASE m = 0
  <2>1. Steps(f, S, [k \in {0} |-> S], 0)
    BY DEF Steps
  <2> QED
    BY <1>1, <1>2, <2>1
<1>3. CASE m # 0
  <2>1. m \in Nat /\ m - 1 \in Nat /\ m - 1 \notin T
    BY <1>1, <1>3
  <2>2. PICK g : Steps(f, S, g, m - 1)
    BY <2>1
  <2> DEFINE g2 == [k \in 0..m |-> IF k = m THEN Onward(f, g[m - 1]) ELSE g[k]]
  <2>3. g2[0] = S
    BY <1>3, <2>1, <2>2 DEF Steps
  <2>4. ASSUME NEW k \in 1..m PROVE g2[k] = Onward(f, g2[k - 1])
    <3>1. k \in 0..m /\ k - 1 \in 0..m /\ k - 1 # m
      BY <2>1
    <3>2. CASE k = m
      BY <3>1, <3>2
    <3>3. CASE k # m
      <4>1. k \in 1..(m - 1)
        BY <2>1, <3>3
      <4> QED
        BY <2>2, <3>1, <3>3, <4>1 DEF Steps
    <3> QED
      BY <3>2, <3>3
  <2>5. Steps(f, S, g2, m)
    BY <2>3, <2>4 DEF Steps
  <2> QED
    BY <1>1, <2>5
<1> QED
  BY <1>2, <1>3

(* ... and are the same for all of them.                                   *)
LEMMA StepsUnique ==
  ASSUME NEW f, NEW S, NEW g1, NEW g2, NEW n1 \in Nat, NEW n2 \in Nat,
         Steps(f, S, g1, n1), Steps(f, S, g2, n2)
  PROVE  \A k \in Nat : k <= n1 /\ k <= n2 => g1[k] = g2[k]
<1> DEFINE T == {k \in Nat : k <= n1 /\ k <= n2 /\ g1[k] # g2[k]}
<1> SUFFICES ASSUME T # {} PROVE FALSE
  OBVIOUS
<1>1. PICK m \in T : \A k \in T : m <= k
  BY LeastElement
<1>2. CASE m = 0
  BY <1>1, <1>2 DEF Steps
<1>3. CASE m # 0
  <2>1. /\ m \in Nat /\ m - 1 \in Nat /\ m - 1 \notin T
        /\ m \in 1..n1 /\ m \in 1..n2 /\ m - 1 <= n1 /\ m - 1 <= n2
    BY <1>1, <1>3
  <2>2. g1[m - 1] = g2[m - 1]
    BY <2>1
  <2> QED
    BY <1>1, <2>1, <2>2 DEF Steps
<1> QED
  BY <1>2, <1>3

(* Reach is the last of these sets.                                        *)
LEMMA ReachSteps ==
  ASSUME NEW f, NEW S, Cardinality(DOMAIN f) \in Nat
  PROVE  \E g : Steps(f, S, g, Cardinality(DOMAIN f)) /\ Reach(f, S) = g[Cardinality(DOMAIN f)]
<1> DEFINE Is(g) == g = [n \in Nat |-> IF n = 0 THEN S
                           ELSE LET s == g[n - 1] IN s \cup UNION {f[o] : o \in s}]
           some(n) == CHOOSE g : Steps(f, S, g, n)
           G == [n \in Nat |-> some(n)[n]]
<1>1. \A n \in Nat : Steps(f, S, some(n), n)
  BY StepsExist
<1>2. G[0] = S
  BY <1>1 DEF Steps
<1>3. ASSUME NEW n \in Nat, n # 0 PROVE G[n] = Onward(f, G[n - 1])
  <2>1. n - 1 \in Nat /\ n \in 1..n
    BY <1>3
  <2>2. some(n)[n] = Onward(f, some(n)[n - 1])
    BY <1>1, <2>1 DEF Steps
  <2>3. some(n)[n - 1] = some(n - 1)[n - 1]
    <3> HIDE DEF some
    <3> QED
      BY <1>1, <2>1, StepsUnique
  <2> QED
    BY <2>1, <2>2, <2>3
<1>4. Is(G)
  <2>1. \A n \in Nat : n # 0 => G[n] = LET s == G[n - 1] IN s \cup UNION {f[o] : o \in s}
    BY <1>3 DEF Onward
  <2>2. G = [n \in Nat |-> G[n]]
    OBVIOUS
  <2> HIDE DEF G
  <2> QED
    BY <1>2, <2>1, <2>2
<1> DEFINE seen == CHOOSE g : Is(g)
<1>5. Is(seen)
  <2> HIDE DEF Is, G
  <2> QED BY <1>4
<1>6. Reach(f, S) = seen[Cardinality(DOMAIN f)]
  BY DEF Reach
<1>7. Steps(f, S, seen, Cardinality(DOMAIN f))
  <2> HIDE DEF seen
  <2>1. seen[0] = S
    BY <1>5
  <2>2. ASSUME NEW k \in 1..Cardinality(DOMAIN f) PROVE seen[k] = Onward(f, seen[k - 1])
    <3>1. k \in Nat /\ k # 0
      OBVIOUS
    <3>2. seen[k] = LET s == seen[k - 1] IN s \cup UNION {f[o] : o \in s}
      BY <1>5, <3>1
    <3> QED
      BY <3>2 DEF Onward
  <2> QED
    BY <2>1, <2>2 DEF Steps
<1> QED
  BY <1>6, <1>7

(* The sets grow and never leave a set that f does not lead out of.        *)
LEMMA StepsGrow ==
  ASSUME NEW f, NEW S, NEW g, NEW n \in Nat, Steps(f, S, g, n)
  PROVE  \A k \in 0..n : S \subseteq g[k]
<1> DEFINE T == {k \in Nat : k <= n /\ ~(S \subseteq g[k])}
<1> SUFFICES ASSUME T # {} PROVE FALSE
  OBVIOUS
<1>1. PICK m \in T : \A k \in T : m <= k
  BY LeastElement
<1>2. CASE m = 0
  BY <1>1, <1>2 DEF Steps
<1>3. CASE m # 0
  <2>1. m \in 1..n /\ m - 1 \in 0..n /\ m - 1 \notin T
    BY <1>1, <1>3
  <2>2. g[m] = Onward(f, g[m - 1])
    BY <2>1 DEF Steps
  <2> QED
    BY <1>1, <2>1, <2>2 DEF Onward
<1> QED
  BY <1>2, <1>3

(* ... what no step leads out of contains them all.                        *)
LEMMA StepsWithin ==
  ASSUME NEW f, NEW S, NEW C, S \subseteq C, \A o \in C : f[o] \subseteq C,
         NEW g, NEW n \in Nat, Steps(f, S, g, n)
  PROVE  \A k \in 0..n : g[k] \subseteq C
<1> DEFINE T == {k \in Nat : k <= n /\ ~(g[k] \subseteq C)}
<1> SUFFICES ASSUME T # {} PROVE FALSE
  OBVIOUS
<1>1. PICK m \in T : \A k \in T : m <= k
  BY LeastElement
<1>2. CASE m = 0
  BY <1>1, <1>2 DEF Steps
<1>3. CASE m # 0
  <2>1. m \in 1..n /\ m - 1 \in 0..n /\ m - 1 \notin T
    BY <1>1, <1>3
  <2>2. g[m] = Onward(f, g[m - 1])
    BY <2>1 DEF Steps
  <2>3. g[m - 1] \subseteq C
    BY <2>1
  <2>4. Onward(f, g[m - 1]) \subseteq C
    BY <2>3 DEF Onward
  <2> QED
    BY <1>1, <2>2, <2>4
<1> QED
  BY <1>2, <1>3

(* What is reached from S contains S, and stays where f does.              *)
LEMMA ReachWithin ==
  ASSUME NEW f, NEW S, IsFiniteSet(DOMAIN f),
         NEW C, S \subseteq C, \A o \in C : f[o] \subseteq C
  PROVE  S \subseteq Reach(f, S) /\ Reach(f, S) \subseteq C
<1> DEFINE n == Cardinality(DOMAIN f)
<1>1. n \in Nat
  BY FS_CardinalityType
<1>2. PICK g : Steps(f, S, g, n) /\ Reach(f, S) = g[n]
  BY <1>1, ReachSteps
<1>3. n \in 0..n
  BY <1>1
<1> HIDE DEF n
<1>4. S \subseteq g[n]
  BY <1>1, <1>2, <1>3, StepsGrow
<1>5. g[n] \subseteq C
  BY <1>1, <1>2, <1>3, StepsWithin
<1> QED
  BY <1>2, <1>4, <1>5

(* As many steps as there are objects are enough to reach them all: a step *)
(* that is not the last one reaches one object more.                       *)
LEMMA ReachClosed ==
  ASSUME NEW f, NEW S, IsFiniteSet(DOMAIN f), S \subseteq DOMAIN f,
         \A o \in DOMAIN f : f[o] \subseteq DOMAIN f
  PROVE  \A o \in Reach(f, S) : f[o] \subseteq Reach(f, S)
<1> DEFINE D == DOMAIN f
           n == Cardinality(D)
<1>1. n \in Nat
  BY FS_CardinalityType
<1>2. PICK g : Steps(f, S, g, n) /\ Reach(f, S) = g[n]
  BY <1>1, ReachSteps
<1> DEFINE Closed(k) == \A o \in g[k] : f[o] \subseteq g[k]
           T == {k \in Nat : k <= n /\ ~(Closed(k) \/ Cardinality(g[k]) >= k)}
<1>3. \A k \in 0..n : g[k] \subseteq D
  <2> HIDE DEF n
  <2> QED BY <1>1, <1>2, StepsWithin
<1>4. \A k \in 0..n : IsFiniteSet(g[k]) /\ Cardinality(g[k]) \in Nat
  BY <1>3, FS_Subset, FS_CardinalityType
<1>5. T = {}
  <2> SUFFICES ASSUME T # {} PROVE FALSE
    OBVIOUS
  <2> HIDE DEF n
  <2>1. PICK m \in T : \A k \in T : m <= k
    BY LeastElement
  <2>2. CASE m = 0
    <3>1. 0 \in 0..n
      BY <1>1
    <3> QED
      BY <1>4, <2>1, <2>2, <3>1
  <2>3. CASE m # 0
    <3>1. m \in 1..n /\ m - 1 \in 0..n /\ m \in 0..n /\ m - 1 \notin T
      BY <1>1, <2>1, <2>3
    <3>2. g[m] = Onward(f, g[m - 1])
      BY <1>2, <3>1 DEF Steps
    <3>3. CASE Closed(m - 1)
      <4>1. g[m] = g[m - 1]
        BY <3>2, <3>3 DEF Onward
      <4> QED
        BY <2>1, <3>3, <4>1
    <3>4. CASE ~Closed(m - 1)
      <4>1. Cardinality(g[m - 1]) >= m - 1
        BY <3>1, <3>4
      <4>2. g[m - 1] \subseteq g[m] /\ g[m - 1] # g[m]
        BY <3>2, <3>4 DEF Onward
      <4>3. Cardinality(g[m - 1]) < Cardinality(g[m])
        BY <1>4, <3>1, <4>2, FS_Subset
      <4>4. Cardinality(g[m]) >= m
        BY <1>4, <3>1, <4>1, <4>3
      <4> QED
        BY <2>1, <4>4
    <3> QED
      BY <3>3, <3>4
  <2> QED
    BY <2>2, <2>3
<1>6. Closed(n)
  <2>1. n \in 0..n
    BY <1>1
  <2>2. CASE Cardinality(g[n]) >= n
    <3>1. g[n] = D
      BY <1>1, <1>3, <1>4, <2>1, <2>2, FS_Subset
    <3> QED
      BY <3>1
  <2> QED
    BY <1>5, <2>1, <2>2
<1> QED
  BY <1>2, <1>6
-----------------------------------------------------------------------------
(***************************************************************************)
(* The types of objects and of semantic values, and what they refer to.    *)
(***************************************************************************)
Sorts == {"static", "member", "forward", "bound", "op", "function", "scope", "product"}

QueryObject == [kind : {"query"}, links : Seq([attr : Nat, owned : BOOLEAN])]
AttrObject == [kind : {"attr"}, sort : Sorts, atomic : BOOLEAN, collection : BOOLEAN,
               static : BOOLEAN, type : Nat, data : Seq(Nat), top : Nat]
CompoundObject ==
  [kind : {"compound"}, parent : Nat,
   attrs : UNION {[A -> Nat] : A \in SUBSET (Attributes \cup Nat)}]
Object == QueryObject \cup AttrObject \cup CompoundObject

ItemSet ==
  [is : {"query"}, q : Nat, path : BOOLEAN] \cup [is : {"op"}]
  \cup [is : {"call"}, args : Seq(Nat)] \cup [is : {"open"}, q : Nat]
  \cup [is : {"name"}, n : Names \cup {0}, bind : BOOLEAN]
  \cup [is : {"def"}, c : Nat, named : BOOLEAN] \cup [is : {"colon"}, c : Nat]

IsQuery(hp, o) == o \in DOMAIN hp /\ hp[o].kind = "query"
IsAttr(hp, o) == o \in DOMAIN hp /\ hp[o].kind = "attr"
IsCompoundObject(hp, o) == o \in DOMAIN hp /\ hp[o].kind = "compound"
IsProduct(hp, o) == IsAttr(hp, o) /\ hp[o].sort = "product"

(* The attributes of compounds, which nodes borrow; they own all others.   *)
Definable == {"member", "forward", "bound"}

(* What an object may ever destroy: a bound attribute its query too, which *)
(* an iterator over the compound destroys in its place.                    *)
Claims(hp, o) ==
  IF hp[o].kind = "query"
  THEN {hp[o].links[k].attr : k \in {j \in DOMAIN hp[o].links : hp[o].links[j].owned}}
  ELSE IF hp[o].kind = "attr" THEN {hp[o].data[k] : k \in DOMAIN hp[o].data}
  ELSE {hp[o].attrs[n] : n \in DOMAIN hp[o].attrs}

Unclaimed(hp, o) == \A p \in DOMAIN hp : o \notin Claims(hp, p)

(* What a forwarding attribute leads to is the attribute of a compound, or *)
(* belongs to a query that one of them forwards to.                        *)
Settled(hp, a) ==
  \/ hp[a].sort \in Definable
  \/ \E b, q \in DOMAIN hp : /\ IsAttr(hp, b) /\ hp[b].sort = "forward"
                            /\ q \in Claims(hp, b) /\ IsQuery(hp, q) /\ a \in Claims(hp, q)

(* What an object refers to.                                               *)
QueryRefs(hp, o) ==
  /\ hp[o].links # <<>>
  /\ \A k \in DOMAIN hp[o].links :
       /\ IsAttr(hp, hp[o].links[k].attr)
       /\ hp[o].links[k].owned <=> hp[hp[o].links[k].attr].sort \notin Definable

AttrRefs(hp, o) ==
  /\ \A k \in DOMAIN hp[o].data : IsQuery(hp, hp[o].data[k])
  /\ IsAttr(hp, hp[o].top)
  /\ hp[hp[o].top].sort # "forward"
  /\ hp[o].sort # "forward" => hp[o].top = o
  /\ hp[o].sort = "forward" => Settled(hp, hp[o].top)
  /\ hp[o].type # 0 => IsCompoundObject(hp, hp[o].type)
  /\ hp[o].sort # "forward" /\ ~hp[o].atomic => hp[o].type # 0
  /\ hp[o].sort = "bound" => Len(hp[o].data) = 1
  /\ hp[o].sort = "product" => hp[o].type # 0

CompoundRefs(hp, o) ==
  /\ \A n \in DOMAIN hp[o].attrs :
       /\ IsAttr(hp, hp[o].attrs[n])
       /\ hp[hp[o].attrs[n]].sort \in Definable
  /\ hp[o].parent # 0 => IsCompoundObject(hp, hp[o].parent)

Refs(hp, o) == /\ hp[o].kind = "query" => QueryRefs(hp, o)
               /\ hp[o].kind = "attr" => AttrRefs(hp, o)
               /\ hp[o].kind = "compound" => CompoundRefs(hp, o)

(* The heap: no object has two claims on it, and no two attributes iterate *)
(* over the same virtual compound.                                         *)
HeapInv(hp) ==
  /\ hp \in Seq(Object)
  /\ \A o \in DOMAIN hp : Refs(hp, o)
  /\ \A p, o \in DOMAIN hp : p # o => Claims(hp, p) \cap Claims(hp, o) = {}
  /\ \A a, b \in DOMAIN hp :
       IsProduct(hp, a) /\ IsProduct(hp, b) /\ hp[a].type = hp[b].type => a = b

(* The queries a semantic value holds, and the compound it builds.         *)
Holds(it) == IF it.is \in {"query", "open"} THEN {it.q} \ {0}
             ELSE IF it.is = "call" THEN {it.args[k] : k \in DOMAIN it.args} ELSE {}
Builds(it) == IF it.is \in {"def", "colon"} THEN {it.c} \ {0} ELSE {}

Unbuilt(hp, c) == \A a \in DOMAIN hp : IsProduct(hp, a) => hp[a].type # c

ItemRefs(hp, it) ==
  /\ \A q \in Holds(it) : IsQuery(hp, q) /\ Unclaimed(hp, q)
  /\ \A c \in Builds(it) : IsCompoundObject(hp, c) /\ Unbuilt(hp, c)
  /\ it.is = "query" => it.q # 0
  /\ it.is = "def" => it.c # 0

(* What precedes an item that completes or continues something.            *)
After(low, it) ==
  /\ it.is = "op" => low # <<>> /\ low[Len(low)].is = "query"
  /\ it.is \in {"def", "colon"} => low # <<>> /\ low[Len(low)].is = "open"
  /\ it.is = "name" => low # <<>> /\ low[Len(low)].is \in {"open", "def"}

Apart(it, u) == Holds(it) \cap Holds(u) = {} /\ Builds(it) \cap Builds(u) = {}

(* The stack of semantic values: no two hold the same query, or build the  *)
(* same compound, and what they hold nothing else would destroy.           *)
SemInv(sm, hp) ==
  /\ sm \in Seq(ItemSet)
  /\ \A i \in DOMAIN sm : ItemRefs(hp, sm[i])
  /\ \A i \in DOMAIN sm : After(SubSeq(sm, 1, i - 1), sm[i])
  /\ \A i, j \in DOMAIN sm : i # j => Apart(sm[i], sm[j])

ScopeInv == /\ scopes \in Seq([compound : Nat, pos : Nat, bound : BOOLEAN])
            /\ \A i \in DOMAIN scopes : IsCompoundObject(heap, scopes[i].compound)
            /\ rc = "parsing" => scopes # <<>>

ListInv == /\ listed \in Seq(Nat)
           /\ \A i \in DOMAIN listed : IsCompoundObject(heap, listed[i])
           /\ \A i, j \in DOMAIN listed : listed[i] = listed[j] => i = j

ClientInv == /\ rc # "parsing" => sem = <<>>
             /\ result # 0 => /\ rc = "ok"
                              /\ IsQuery(heap, result) /\ Unclaimed(heap, result)
             /\ \A a \in iterated : IsProduct(heap, a)

(* OneOwner is not inductive: that a step gives an object an owner tells   *)
(* nothing unless it is known what else could become one.                  *)
OwnInv == HeapInv(heap) /\ SemInv(sem, heap) /\ ScopeInv /\ ListInv /\ ClientInv
-----------------------------------------------------------------------------
(***************************************************************************)
(* Lemmas about the growth of the heap.                                    *)
(***************************************************************************)

(* The objects of hp are in hq, attributes unchanged, and have what they   *)
(* had.                                                                    *)
Kept(hp, hq) ==
  \A o \in DOMAIN hp : /\ o \in DOMAIN hq
                       /\ hq[o].kind = hp[o].kind
                       /\ hp[o].kind = "attr" => hq[o] = hp[o]
                       /\ hp[o].kind = "compound" => hq[o].parent = hp[o].parent
                       /\ Claims(hp, o) \subseteq Claims(hq, o)

(* In hq something claims S and iterates over the compounds B at most.     *)
Later(hp, hq, S, B) ==
  /\ Kept(hp, hq)
  /\ \A o \in DOMAIN hp \ S : Unclaimed(hp, o) => Unclaimed(hq, o)
  /\ \A c \in DOMAIN hp \ B : Unbuilt(hp, c) => Unbuilt(hq, c)

(* The compound over which a new object iterates.                          *)
Typed(obj) == IF obj.kind = "attr" /\ obj.sort = "product" THEN {obj.type} ELSE {}

(* obj may be the next object of hp: nothing else claims what it claims.   *)
Fits(hp, obj) ==
  LET hq == Append(hp, obj)
      new == Len(hp) + 1
  IN /\ Refs(hq, new)
     /\ \A c \in Claims(hq, new) : c \in DOMAIN hp /\ Unclaimed(hp, c)
     /\ IsProduct(hq, new) => Unbuilt(hp, obj.type)

(* The heap with an object more.                                           *)
LEMMA AppendHeap ==
  ASSUME NEW hp \in Seq(Object), NEW obj \in Object
  PROVE  LET hq == Append(hp, obj) IN
         /\ hq \in Seq(Object)
         /\ Len(hp) \in Nat /\ DOMAIN hp = 1..Len(hp)
         /\ Len(hq) = Len(hp) + 1
         /\ DOMAIN hq = DOMAIN hp \cup {Len(hp) + 1} /\ Len(hp) + 1 \notin DOMAIN hp
         /\ hq[Len(hp) + 1] = obj
         /\ \A o \in DOMAIN hp : hq[o] = hp[o]
OBVIOUS

(* What an object refers to stays what it is when the heap grows.          *)
LEMMA RefsKept ==
  ASSUME NEW hp, NEW hq, Kept(hp, hq), NEW o \in DOMAIN hp, hq[o] = hp[o], Refs(hp, o)
  PROVE  Refs(hq, o)
<1>1. CASE hp[o].kind = "query"
  BY <1>1 DEF Kept, Refs, QueryRefs, IsAttr
<1>2. CASE hp[o].kind = "attr"
  BY <1>2 DEF Kept, Refs, AttrRefs, Settled, IsAttr, IsQuery, IsCompoundObject
<1>3. CASE hp[o].kind = "compound"
  BY <1>3 DEF Kept, Refs, CompoundRefs, IsAttr, IsCompoundObject
<1> QED
  BY <1>1, <1>2, <1>3 DEF Refs

(* An object is an object of one of the three kinds.                       *)
LEMMA ObjectKinds ==
  ASSUME NEW obj \in Object
  PROVE  /\ obj.kind = "query" => obj \in QueryObject
         /\ obj.kind = "attr" => obj \in AttrObject
         /\ obj.kind = "compound" => obj \in CompoundObject
         /\ obj.kind \in {"query", "attr", "compound"}
BY DEF Object, QueryObject, AttrObject, CompoundObject

(* An object that stays what it is has what it had.                        *)
LEMMA ClaimsKept ==
  ASSUME NEW hp, NEW hq, NEW o, hq[o] = hp[o]
  PROVE  Claims(hq, o) = Claims(hp, o)
BY DEF Claims

(* What is claimed is an object.                                           *)
LEMMA ClaimsThere ==
  ASSUME NEW hp, HeapInv(hp), NEW o \in DOMAIN hp
  PROVE  Claims(hp, o) \subseteq DOMAIN hp
<1>1. Refs(hp, o) /\ hp[o] \in Object
  BY DEF HeapInv
<1>2. hp[o].kind \in {"query", "attr", "compound"}
  BY <1>1, ObjectKinds
<1>3. CASE hp[o].kind = "query"
  BY <1>1, <1>3 DEF Claims, Refs, QueryRefs, IsAttr
<1>4. CASE hp[o].kind = "attr"
  BY <1>1, <1>4 DEF Claims, Refs, AttrRefs, IsQuery
<1>5. CASE hp[o].kind = "compound"
  BY <1>1, <1>5 DEF Claims, Refs, CompoundRefs, IsAttr
<1> QED
  BY <1>2, <1>3, <1>4, <1>5

(* ... and the invariant of the heap holds when the new object fits.       *)
LEMMA Grow ==
  ASSUME NEW hp, HeapInv(hp), NEW obj \in Object, Fits(hp, obj)
  PROVE  LET hq == Append(hp, obj)
             new == Len(hp) + 1
         IN /\ HeapInv(hq)
            /\ Later(hp, hq, Claims(hq, new), Typed(obj))
            /\ new \in Nat \ {0} /\ new \notin DOMAIN hp /\ DOMAIN hq = DOMAIN hp \cup {new}
            /\ hq[new] = obj /\ \A o \in DOMAIN hp : hq[o] = hp[o]
            /\ Unclaimed(hq, new)
<1> DEFINE hq == Append(hp, obj)
           new == Len(hp) + 1
<1>1. /\ hp \in Seq(Object) /\ hq \in Seq(Object) /\ new \in Nat \ {0}
      /\ DOMAIN hq = DOMAIN hp \cup {new} /\ new \notin DOMAIN hp
      /\ hq[new] = obj /\ \A o \in DOMAIN hp : hq[o] = hp[o]
  BY AppendHeap DEF HeapInv
<1> HIDE DEF hq, new
<1>2. Kept(hp, hq)
  BY <1>1 DEF Kept, Claims
<1>3. \A o \in DOMAIN hp : Claims(hq, o) = Claims(hp, o)
  BY <1>1 DEF Claims
<1>4. Fits(hp, obj) <=> /\ Refs(hq, new)
                        /\ \A c \in Claims(hq, new) : c \in DOMAIN hp /\ Unclaimed(hp, c)
                        /\ IsProduct(hq, new) => Unbuilt(hp, obj.type)
  BY DEF Fits, hq, new
<1>5. \A o \in DOMAIN hq : Refs(hq, o)
  BY <1>1, <1>2, <1>4, RefsKept DEF HeapInv
<1>6. \A p, o \in DOMAIN hq : p # o => Claims(hq, p) \cap Claims(hq, o) = {}
  BY <1>1, <1>3, <1>4 DEF HeapInv, Unclaimed
<1>7. \A a, b \in DOMAIN hq :
        IsProduct(hq, a) /\ IsProduct(hq, b) /\ hq[a].type = hq[b].type => a = b
  BY <1>1, <1>4 DEF HeapInv, Unbuilt, IsProduct, IsAttr
<1>8. HeapInv(hq)
  BY <1>1, <1>5, <1>6, <1>7 DEF HeapInv
<1>9. \A o \in DOMAIN hp \ Claims(hq, new) : Unclaimed(hp, o) => Unclaimed(hq, o)
  BY <1>1, <1>3 DEF Unclaimed
<1>10. \A c \in DOMAIN hp \ Typed(obj) : Unbuilt(hp, c) => Unbuilt(hq, c)
  BY <1>1 DEF Unbuilt, IsProduct, IsAttr, Typed
<1>11. Unclaimed(hq, new)
  BY <1>1, <1>3, <1>4, ClaimsThere DEF Unclaimed
<1> QED
  BY <1>1, <1>2, <1>8, <1>9, <1>10, <1>11 DEF hq, new, Later

(* The heap that follows upon the one that follows.                        *)
LEMMA LaterTwice ==
  ASSUME NEW h1, NEW h2, NEW h3, NEW S1, NEW S2, NEW B1, NEW B2,
         Later(h1, h2, S1, B1), Later(h2, h3, S2, B2)
  PROVE  Later(h1, h3, S1 \cup S2, B1 \cup B2)
BY DEF Later, Kept

(* A weaker account of what was claimed.                                   *)
LEMMA LaterOf ==
  ASSUME NEW hp, NEW hq, NEW S1, NEW B1, NEW S2, NEW B2, Later(hp, hq, S1, B1),
         S1 \cap DOMAIN hp \subseteq S2, B1 \cap DOMAIN hp \subseteq B2
  PROVE  Later(hp, hq, S2, B2)
BY DEF Later


(* The fields of a chain of one node.                                      *)
LEMMA ChainObject ==
  ASSUME NEW a \in Nat, NEW owned \in BOOLEAN
  PROVE  LET obj == Chain(a, owned) IN
         /\ obj \in Object /\ obj.kind = "query"
         /\ obj.links # <<>> /\ DOMAIN obj.links = {1}
         /\ obj.links[1].attr = a /\ obj.links[1].owned = owned
<1>1. Chain(a, owned) = [kind |-> "query", links |-> <<[attr |-> a, owned |-> owned]>>]
  BY DEF Chain
<1>2. <<[attr |-> a, owned |-> owned]>> \in Seq([attr : Nat, owned : BOOLEAN])
  OBVIOUS
<1> QED
  BY <1>1, <1>2 DEF Object, QueryObject

(* A chain of one node, whose attribute it owns unless that is a           *)
(* compound's.                                                             *)
LEMMA GrowByChain ==
  ASSUME NEW hp, HeapInv(hp), NEW a, IsAttr(hp, a), NEW owned \in BOOLEAN,
         owned => Unclaimed(hp, a) /\ hp[a].sort \notin Definable,
         ~owned => hp[a].sort \in Definable
  PROVE  LET hq == hp \o <<Chain(a, owned)>>
             new == Len(hp) + 1
         IN /\ HeapInv(hq) /\ Later(hp, hq, IF owned THEN {a} ELSE {}, {})
            /\ new \in Nat \ {0} /\ new \notin DOMAIN hp
            /\ DOMAIN hq = DOMAIN hp \cup {new} /\ hq[new] = Chain(a, owned)
            /\ IsQuery(hq, new) /\ Unclaimed(hq, new)
            /\ hq[new].links # <<>>
<1> DEFINE obj == Chain(a, owned)
           hq == Append(hp, obj)
           new == Len(hp) + 1
<1>1. hp \in Seq(Object) /\ a \in Nat
  BY DEF HeapInv, IsAttr
<1>2. /\ obj \in Object /\ obj.kind = "query" /\ obj.links # <<>>
      /\ DOMAIN obj.links = {1} /\ obj.links[1].attr = a /\ obj.links[1].owned = owned
  BY <1>1, ChainObject
<1> HIDE DEF obj
<1>3. hp \o <<obj>> = hq
  BY <1>1, <1>2
<1>4. /\ hq \in Seq(Object) /\ DOMAIN hq = DOMAIN hp \cup {new} /\ new \notin DOMAIN hp
      /\ hq[new] = obj /\ \A o \in DOMAIN hp : hq[o] = hp[o]
  BY <1>1, <1>2, AppendHeap
<1> HIDE DEF hq, new
<1>5. Claims(hq, new) = IF owned THEN {a} ELSE {}
  BY <1>2, <1>4 DEF Claims
<1>6. Refs(hq, new)
  <2>1. IsAttr(hq, a) /\ hq[a] = hp[a]
    BY <1>4 DEF IsAttr
  <2>2. QueryRefs(hq, new)
    BY <1>2, <1>4, <2>1 DEF QueryRefs
  <2> QED
    BY <1>2, <1>4, <2>2 DEF Refs
<1>7. Fits(hp, obj)
  BY <1>2, <1>4, <1>5, <1>6 DEF Fits, IsProduct, IsAttr, hq, new
<1>8. Typed(obj) = {}
  BY <1>2 DEF Typed
<1>9. /\ HeapInv(hq) /\ Later(hp, hq, Claims(hq, new), Typed(obj))
      /\ Unclaimed(hq, new) /\ new \in Nat \ {0}
  BY <1>2, <1>7, Grow DEF hq, new
<1>10. IsQuery(hq, new)
  BY <1>2, <1>4 DEF IsQuery
<1> QED
  BY <1>2, <1>3, <1>4, <1>5, <1>8, <1>9, <1>10 DEF obj, new

(* A new attribute and what it may be.                                     *)
LEMMA GrowByAttr ==
  ASSUME NEW hp, HeapInv(hp), NEW obj \in AttrObject,
         obj.top = Len(hp) + 1 \/ (IsAttr(hp, obj.top) /\ hp[obj.top].sort # "forward"),
         obj.sort # "forward" => obj.top = Len(hp) + 1,
         obj.sort = "forward" => obj.top # Len(hp) + 1,
         obj.sort = "forward" => \/ Settled(hp, obj.top)
                                 \/ \E k \in DOMAIN obj.data : obj.top \in Claims(hp, obj.data[k]),
         \A k \in DOMAIN obj.data : IsQuery(hp, obj.data[k]) /\ Unclaimed(hp, obj.data[k]),
         obj.type # 0 => IsCompoundObject(hp, obj.type),
         obj.sort # "forward" /\ ~obj.atomic => obj.type # 0,
         obj.sort = "bound" => Len(obj.data) = 1,
         obj.sort = "product" => obj.type # 0 /\ Unbuilt(hp, obj.type)
  PROVE  LET hq == hp \o <<obj>>
             new == Len(hp) + 1
         IN /\ HeapInv(hq)
            /\ Later(hp, hq, {obj.data[k] : k \in DOMAIN obj.data}, Typed(obj))
            /\ new \in Nat \ {0} /\ new \notin DOMAIN hp
            /\ DOMAIN hq = DOMAIN hp \cup {new} /\ Len(hq) = new
            /\ hq[new] = obj /\ \A o \in DOMAIN hp : hq[o] = hp[o]
            /\ IsAttr(hq, new) /\ Unclaimed(hq, new)
<1> DEFINE hq == Append(hp, obj)
           new == Len(hp) + 1
<1>1. hp \in Seq(Object) /\ obj \in Object /\ obj.kind = "attr"
  BY DEF HeapInv, Object, AttrObject
<1>2. hp \o <<obj>> = hq
  BY <1>1
<1>3. /\ hq \in Seq(Object) /\ DOMAIN hq = DOMAIN hp \cup {new} /\ new \notin DOMAIN hp
      /\ hq[new] = obj /\ \A o \in DOMAIN hp : hq[o] = hp[o] /\ Len(hq) = new
  BY <1>1, AppendHeap
<1> HIDE DEF hq, new
<1>4. Claims(hq, new) = {obj.data[k] : k \in DOMAIN obj.data}
  BY <1>1, <1>3 DEF Claims
<1>5. AttrRefs(hq, new)
  <2>1. \A k \in DOMAIN hq[new].data : IsQuery(hq, hq[new].data[k])
    BY <1>3 DEF IsQuery
  <2>2. IsAttr(hq, obj.top) /\ hq[obj.top].sort # "forward"
    BY <1>1, <1>3 DEF IsAttr, new
  <2>3. hq[new].type # 0 => IsCompoundObject(hq, hq[new].type)
    BY <1>3 DEF IsCompoundObject
  <2>4. hq[new].sort # "forward" => hq[new].top = new
    BY <1>3 DEF new
  <2>5. ASSUME hq[new].sort = "forward" PROVE Settled(hq, hq[new].top)
    <3>1. IsAttr(hp, obj.top) /\ hq[obj.top] = hp[obj.top] /\ obj.sort = "forward"
      BY <1>3, <2>5 DEF IsAttr, new
    <3>2. \A o \in DOMAIN hp : Claims(hq, o) = Claims(hp, o)
      BY <1>3, ClaimsKept
    <3>3. CASE Settled(hp, obj.top)
      BY <1>3, <3>1, <3>2, <3>3 DEF Settled, IsAttr, IsQuery
    <3>4. CASE \E k \in DOMAIN obj.data : obj.top \in Claims(hp, obj.data[k])
      <4>1. PICK k \in DOMAIN obj.data : obj.top \in Claims(hp, obj.data[k])
        BY <3>4
      <4>2. IsQuery(hp, obj.data[k]) /\ IsQuery(hq, obj.data[k])
        BY <1>3 DEF IsQuery
      <4>3. obj.data[k] \in Claims(hq, new)
        BY <1>4
      <4>4. IsAttr(hq, new) /\ hq[new].sort = "forward" /\ hq[new].top = obj.top
        BY <1>1, <1>3, <3>1 DEF IsAttr
      <4>5. obj.top \in Claims(hq, obj.data[k])
        BY <3>2, <4>1, <4>2 DEF IsQuery
      <4> QED
        BY <1>3, <4>2, <4>3, <4>4, <4>5 DEF Settled, IsQuery
    <3> QED
      BY <3>1, <3>3, <3>4
  <2> QED
    BY <1>3, <2>1, <2>2, <2>3, <2>4, <2>5 DEF AttrRefs
<1>6. Refs(hq, new)
  BY <1>1, <1>3, <1>5 DEF Refs
<1>7. Fits(hp, obj)
  <2>1. \A c \in Claims(hq, new) : c \in DOMAIN hp /\ Unclaimed(hp, c)
    BY <1>4 DEF IsQuery
  <2>2. IsProduct(hq, new) => Unbuilt(hp, obj.type)
    BY <1>3 DEF IsProduct
  <2> QED
    BY <1>6, <2>1, <2>2 DEF Fits, hq, new
<1>8. /\ HeapInv(hq) /\ Later(hp, hq, Claims(hq, new), Typed(obj))
      /\ Unclaimed(hq, new) /\ new \in Nat \ {0}
  BY <1>1, <1>7, Grow DEF hq, new
<1>9. IsAttr(hq, new) /\ Len(hq) = new
  BY <1>1, <1>3, AppendHeap DEF IsAttr, hq, new
<1> QED
  BY <1>2, <1>3, <1>4, <1>8, <1>9 DEF new

(* A new compound has no attributes yet.                                   *)
LEMMA GrowByCompound ==
  ASSUME NEW hp, HeapInv(hp), NEW parent, IsCompoundObject(hp, parent)
  PROVE  LET hq == Append(hp, Compound(parent, <<>>))
             new == Len(hp) + 1
         IN /\ HeapInv(hq) /\ Later(hp, hq, {}, {})
            /\ new \in Nat \ {0} /\ new \notin DOMAIN hp
            /\ DOMAIN hq = DOMAIN hp \cup {new} /\ Len(hq) = new
            /\ hq[new] = Compound(parent, <<>>) /\ \A o \in DOMAIN hp : hq[o] = hp[o]
            /\ IsCompoundObject(hq, new) /\ Unbuilt(hq, new)
<1> DEFINE obj == Compound(parent, <<>>)
           hq == Append(hp, obj)
           new == Len(hp) + 1
<1>1. /\ hp \in Seq(Object) /\ parent \in Nat /\ obj.kind = "compound" /\ DOMAIN obj.attrs = {}
      /\ obj.parent = parent
  BY DEF HeapInv, IsCompoundObject, Compound
<1>2. obj \in Object
  <2>1. <<>> \in [{} -> Nat]
    OBVIOUS
  <2>2. <<>> \in UNION {[A -> Nat] : A \in SUBSET (Attributes \cup Nat)}
    BY <2>1
  <2> QED
    BY <1>1, <2>2 DEF Compound, Object, CompoundObject
<1> HIDE DEF obj
<1>3. /\ DOMAIN hq = DOMAIN hp \cup {new} /\ new \notin DOMAIN hp /\ Len(hq) = new
      /\ hq[new] = obj /\ \A o \in DOMAIN hp : hq[o] = hp[o]
  BY <1>1, <1>2, AppendHeap
<1> HIDE DEF hq, new
<1>4. Claims(hq, new) = {} /\ Typed(obj) = {}
  BY <1>1, <1>3 DEF Claims, Typed
<1>5. Refs(hq, new)
  BY <1>1, <1>3 DEF Refs, CompoundRefs, IsCompoundObject
<1>6. Fits(hp, obj)
  BY <1>1, <1>3, <1>4, <1>5 DEF Fits, IsProduct, IsAttr, hq, new
<1>7. /\ HeapInv(hq) /\ Later(hp, hq, Claims(hq, new), Typed(obj)) /\ new \in Nat \ {0}
  BY <1>2, <1>6, Grow DEF hq, new
<1>8. IsCompoundObject(hq, new)
  BY <1>1, <1>3 DEF IsCompoundObject
<1>9. Unbuilt(hq, new)
  <2> SUFFICES ASSUME NEW a \in DOMAIN hq, IsProduct(hq, a), hq[a].type = new
               PROVE  FALSE
    BY DEF Unbuilt
  <2>1. a \in DOMAIN hp /\ IsProduct(hp, a) /\ hp[a].type = new
    BY <1>1, <1>3 DEF IsProduct, IsAttr
  <2>2. new # 0 => IsCompoundObject(hp, new)
    BY <2>1 DEF HeapInv, Refs, AttrRefs, IsProduct, IsAttr
  <2> QED
    BY <1>3, <1>7, <2>2 DEF IsCompoundObject
<1> QED
  BY <1>1, <1>3, <1>4, <1>7, <1>8, <1>9 DEF obj, hq, new

(* One object of the heap is replaced by one of its kind that claims one   *)
(* unclaimed object more, or none.                                         *)
LEMMA Replace ==
  ASSUME NEW hp, HeapInv(hp), NEW o \in DOMAIN hp, NEW obj \in Object, NEW more,
         hp[o].kind # "attr", obj.kind = hp[o].kind,
         obj.kind = "compound" => obj.parent = hp[o].parent,
         LET hq == [hp EXCEPT ![o] = obj]
         IN /\ Claims(hq, o) \subseteq Claims(hp, o) \cup more
            /\ Claims(hp, o) \subseteq Claims(hq, o)
            /\ Refs(hq, o),
         \A c \in more : c \in DOMAIN hp /\ Unclaimed(hp, c)
  PROVE  LET hq == [hp EXCEPT ![o] = obj]
         IN HeapInv(hq) /\ Later(hp, hq, more, {})
<1> DEFINE hq == [hp EXCEPT ![o] = obj]
<1>1. hp \in Seq(Object)
  BY DEF HeapInv
<1>2. /\ hq \in Seq(Object) /\ DOMAIN hq = DOMAIN hp
      /\ hq[o] = obj /\ \A p \in DOMAIN hp : p # o => hq[p] = hp[p]
  BY <1>1
<1>3. /\ Claims(hq, o) \subseteq Claims(hp, o) \cup more /\ Refs(hq, o)
      /\ Claims(hp, o) \subseteq Claims(hq, o)
  OBVIOUS
<1> HIDE DEF hq
<1>4. \A p \in DOMAIN hp : p # o => Claims(hq, p) = Claims(hp, p)
  BY <1>2, ClaimsKept
<1>5. Kept(hp, hq)
  BY <1>2, <1>3, <1>4 DEF Kept
<1>6. \A p \in DOMAIN hq : Refs(hq, p)
  BY <1>2, <1>3, <1>5, RefsKept DEF HeapInv
<1>7. \A p, q \in DOMAIN hq : p # q => Claims(hq, p) \cap Claims(hq, q) = {}
  BY <1>2, <1>3, <1>4 DEF HeapInv, Unclaimed
<1>8. \A p \in DOMAIN hp : IsProduct(hq, p) => IsProduct(hp, p) /\ hq[p].type = hp[p].type
  BY <1>2 DEF IsProduct, IsAttr
<1>9. HeapInv(hq)
  BY <1>2, <1>6, <1>7, <1>8 DEF HeapInv
<1>10. Later(hp, hq, more, {})
  BY <1>2, <1>3, <1>4, <1>5, <1>8 DEF Later, Unclaimed, Unbuilt
<1> QED
  BY <1>9, <1>10 DEF hq

(* What Append does, for any elements.                                     *)
LEMMA AppendFacts ==
  ASSUME NEW E, NEW s \in Seq(E), NEW e \in E
  PROVE  /\ Append(s, e) \in Seq(E) /\ Append(s, e) # <<>>
         /\ DOMAIN Append(s, e) = DOMAIN s \cup {Len(s) + 1} /\ Len(s) + 1 \notin DOMAIN s
         /\ \A k \in DOMAIN s : Append(s, e)[k] = s[k]
         /\ Append(s, e)[Len(s) + 1] = e
OBVIOUS

(* A node is appended to a chain.                                          *)
LEMMA Lengthen ==
  ASSUME NEW hp, HeapInv(hp), NEW q, IsQuery(hp, q), NEW a, IsAttr(hp, a),
         NEW owned \in BOOLEAN,
         owned => Unclaimed(hp, a) /\ hp[a].sort \notin Definable,
         ~owned => hp[a].sort \in Definable
  PROVE  LET hq == [hp EXCEPT ![q].links = Append(@, [attr |-> a, owned |-> owned])]
         IN HeapInv(hq) /\ Later(hp, hq, IF owned THEN {a} ELSE {}, {})
<1> DEFINE links == Append(hp[q].links, [attr |-> a, owned |-> owned])
           obj == [hp[q] EXCEPT !.links = links]
           hq == [hp EXCEPT ![q] = obj]
           more == IF owned THEN {a} ELSE {}
<1>1. /\ hp \in Seq(Object) /\ q \in DOMAIN hp /\ hp[q] \in QueryObject /\ a \in Nat
      /\ Refs(hp, q) /\ hp[q].kind = "query" /\ a \in DOMAIN hp
  BY ObjectKinds DEF HeapInv, IsQuery, IsAttr
<1>2. [hp EXCEPT ![q].links = Append(@, [attr |-> a, owned |-> owned])] = hq
  BY <1>1
<1>3. /\ hp[q].links \in Seq([attr : Nat, owned : BOOLEAN])
      /\ [attr |-> a, owned |-> owned] \in [attr : Nat, owned : BOOLEAN]
  BY <1>1 DEF QueryObject
<1>4. /\ links \in Seq([attr : Nat, owned : BOOLEAN]) /\ links # <<>>
      /\ DOMAIN links = DOMAIN hp[q].links \cup {Len(hp[q].links) + 1}
      /\ \A k \in DOMAIN hp[q].links : links[k] = hp[q].links[k]
      /\ links[Len(hp[q].links) + 1] = [attr |-> a, owned |-> owned]
  BY <1>3, AppendFacts, SMTT(30)
<1>5. /\ obj \in QueryObject /\ obj \in Object /\ obj.kind = "query" /\ obj.links = links
  BY <1>1, <1>4 DEF QueryObject, Object
<1>6. hq[q] = obj /\ DOMAIN hq = DOMAIN hp /\ \A p \in DOMAIN hp : p # q => hq[p] = hp[p]
  BY <1>1
<1> HIDE DEF obj, hq, links
<1>7. Claims(hq, q) \subseteq Claims(hp, q) \cup more
  <2> SUFFICES ASSUME NEW k \in DOMAIN links, links[k].owned
               PROVE  links[k].attr \in Claims(hp, q) \cup more
    BY <1>5, <1>6 DEF Claims
  <2>1. CASE k \in DOMAIN hp[q].links
    BY <1>1, <1>4, <2>1 DEF Claims
  <2>2. CASE k = Len(hp[q].links) + 1
    BY <1>4, <2>2
  <2> QED
    BY <1>4, <2>1, <2>2
<1>8. Claims(hp, q) \subseteq Claims(hq, q)
  BY <1>1, <1>4, <1>5, <1>6, SMTT(30) DEF Claims
<1>9. QueryRefs(hq, q)
  <2>1. \A b : IsAttr(hp, b) => IsAttr(hq, b) /\ hq[b] = hp[b]
    BY <1>1, <1>6 DEF IsAttr
  <2>2. /\ QueryRefs(hp, q)
    BY <1>1, <2>1 DEF Refs
  <2>3. IsAttr(hq, a) /\ hq[a] = hp[a]
    BY <2>1
  <2>4. \A k \in DOMAIN links : /\ IsAttr(hq, links[k].attr)
                                /\ links[k].owned <=> hq[links[k].attr].sort \notin Definable
    BY <1>4, <2>1, <2>2, <2>3 DEF QueryRefs
  <2> QED
    BY <1>4, <1>5, <1>6, <2>4 DEF QueryRefs
<1>10. Refs(hq, q)
  BY <1>5, <1>6, <1>9 DEF Refs
<1>11. \A c \in more : c \in DOMAIN hp /\ Unclaimed(hp, c)
  BY <1>1
<1> HIDE DEF more
<1>12. HeapInv(hq) /\ Later(hp, hq, more, {})
  BY <1>1, <1>5, <1>7, <1>8, <1>10, <1>11, Replace DEF hq
<1> QED
  BY <1>2, <1>12 DEF more

(* An attribute is added to a compound.                                    *)
LEMMA Enlarge ==
  ASSUME NEW hp, HeapInv(hp), NEW c, IsCompoundObject(hp, c),
         NEW name \in Attributes \cup Nat, NEW a, IsAttr(hp, a), Unclaimed(hp, a),
         hp[a].sort \in Definable
  PROVE  LET hq == [hp EXCEPT ![c].attrs = Extended(@, name, a)]
         IN HeapInv(hq) /\ Later(hp, hq, {a}, {})
<1> DEFINE attrs == Extended(hp[c].attrs, name, a)
           obj == [hp[c] EXCEPT !.attrs = attrs]
           hq == [hp EXCEPT ![c] = obj]
<1>1. /\ hp \in Seq(Object) /\ c \in DOMAIN hp /\ hp[c] \in CompoundObject /\ a \in Nat
      /\ Refs(hp, c) /\ hp[c].kind = "compound" /\ a \in DOMAIN hp
  BY ObjectKinds DEF HeapInv, IsCompoundObject, IsAttr
<1>2. [hp EXCEPT ![c].attrs = Extended(@, name, a)] = hq
  BY <1>1
<1>3. PICK A \in SUBSET (Attributes \cup Nat) : hp[c].attrs \in [A -> Nat]
  BY <1>1 DEF CompoundObject
<1>4. /\ attrs \in [A \cup {name} -> Nat]
      /\ \A n \in DOMAIN hp[c].attrs : n \in DOMAIN attrs /\ attrs[n] = hp[c].attrs[n]
      /\ \A n \in DOMAIN attrs : \/ n \in DOMAIN hp[c].attrs /\ attrs[n] = hp[c].attrs[n]
                                 \/ attrs[n] = a
  BY <1>1, <1>3 DEF Extended
<1>5. A \cup {name} \in SUBSET (Attributes \cup Nat)
  OBVIOUS
<1>6. /\ obj \in CompoundObject /\ obj \in Object /\ obj.kind = "compound" /\ obj.attrs = attrs
      /\ obj.parent = hp[c].parent
  BY <1>1, <1>4, <1>5 DEF CompoundObject, Object
<1>7. hq[c] = obj /\ DOMAIN hq = DOMAIN hp /\ \A p \in DOMAIN hp : p # c => hq[p] = hp[p]
  BY <1>1
<1> HIDE DEF obj, hq, attrs
<1>8. Claims(hq, c) \subseteq Claims(hp, c) \cup {a}
  BY <1>1, <1>4, <1>6, <1>7 DEF Claims
<1>9. Claims(hp, c) \subseteq Claims(hq, c)
  BY <1>1, <1>4, <1>6, <1>7 DEF Claims
<1>10. CompoundRefs(hq, c)
  <2>1. \A b : IsAttr(hp, b) => IsAttr(hq, b) /\ hq[b] = hp[b]
    BY <1>1, <1>7 DEF IsAttr
  <2>2. CompoundRefs(hp, c)
    BY <1>1 DEF Refs
  <2>3. hp[c].parent # 0 => IsCompoundObject(hq, hp[c].parent)
    BY <1>1, <1>6, <1>7, <2>2 DEF CompoundRefs, IsCompoundObject
  <2> QED
    BY <1>4, <1>6, <1>7, <2>1, <2>2, <2>3 DEF CompoundRefs
<1>11. Refs(hq, c)
  BY <1>6, <1>7, <1>10 DEF Refs
<1>12. HeapInv(hq) /\ Later(hp, hq, {a}, {})
  BY <1>1, <1>6, <1>8, <1>9, <1>11, Replace DEF hq
<1> QED
  BY <1>2, <1>12
-----------------------------------------------------------------------------
(***************************************************************************)
(* Lemmas about the stack of semantic values.                              *)
(***************************************************************************)

(* What the topmost n values hold and build. *)
HeldAbove(sm, n) == UNION {Holds(sm[k]) : k \in (Len(sm) - n + 1)..Len(sm)}
BuiltAbove(sm, n) == UNION {Builds(sm[k]) : k \in (Len(sm) - n + 1)..Len(sm)}

(* A prefix, element by element. *)
LEMMA Prefix ==
  ASSUME NEW E, NEW s \in Seq(E), NEW n \in 0..Len(s)
  PROVE  LET low == SubSeq(s, 1, Len(s) - n)
         IN /\ low \in Seq(E) /\ Len(low) = Len(s) - n /\ Len(s) \in Nat /\ Len(low) \in Nat
            /\ DOMAIN low = 1..(Len(s) - n) /\ DOMAIN s = 1..Len(s)
            /\ \A i \in DOMAIN low : low[i] = s[i] /\ i \in DOMAIN s
<1>1. Len(s) \in Nat /\ Len(s) - n \in 0..Len(s)
  OBVIOUS
<1>2. \A i \in 1..(Len(s) - n) : s[i] \in E
  BY <1>1
<1> QED
  BY <1>1, <1>2

(* ... of the first Len(s) - n elements.                                   *)
LEMMA PrefixIs ==
  ASSUME NEW E, NEW s \in Seq(E), NEW n \in 0..Len(s), NEW low,
         low = SubSeq(s, 1, Len(s) - n)
  PROVE  /\ low \in Seq(E) /\ Len(low) = Len(s) - n /\ Len(s) \in Nat /\ Len(low) \in Nat
         /\ DOMAIN low = 1..(Len(s) - n) /\ DOMAIN s = 1..Len(s)
         /\ \A i \in DOMAIN low : low[i] = s[i] /\ i \in DOMAIN s
BY Prefix

(* A prefix of a prefix is a prefix. *)
LEMMA PrefixTwice ==
  ASSUME NEW E, NEW s \in Seq(E), NEW m \in 0..Len(s), NEW i \in 1..m
  PROVE  SubSeq(SubSeq(s, 1, m), 1, i - 1) = SubSeq(s, 1, i - 1)
<1>1. Len(s) \in Nat /\ m \in Nat /\ i \in Nat
  OBVIOUS
<1>2. SubSeq(s, 1, m) = [k \in 1..m |-> s[k]]
  BY <1>1
<1>3. \A k \in 1..m : s[k] \in E
  BY <1>1
<1>4. SubSeq(s, 1, m) \in Seq(E) /\ Len(SubSeq(s, 1, m)) = m
  BY <1>1, <1>3
<1>5. SubSeq(SubSeq(s, 1, m), 1, i - 1) = [k \in 1..(i - 1) |-> SubSeq(s, 1, m)[k]]
  BY <1>1, <1>4
<1>6. SubSeq(s, 1, i - 1) = [k \in 1..(i - 1) |-> s[k]]
  BY <1>1
<1>7. \A k \in 1..(i - 1) : SubSeq(s, 1, m)[k] = s[k]
  BY <1>1, <1>2
<1> QED
  BY <1>5, <1>6, <1>7

(* What an item refers to stays what it is while nothing takes it over.    *)
LEMMA ItemLater ==
  ASSUME NEW hp, NEW hq, NEW S, NEW B, Later(hp, hq, S, B), NEW it, ItemRefs(hp, it),
         Holds(it) \cap S = {}, Builds(it) \cap B = {}
  PROVE  ItemRefs(hq, it)
<1>1. \A q \in Holds(it) : IsQuery(hq, q) /\ Unclaimed(hq, q)
  BY DEF ItemRefs, Later, Kept, IsQuery
<1>2. \A c \in Builds(it) : IsCompoundObject(hq, c) /\ Unbuilt(hq, c)
  BY DEF ItemRefs, Later, Kept, IsCompoundObject
<1> QED
  BY <1>1, <1>2 DEF ItemRefs

(* The values below the topmost n are well-formed without these.           *)
LEMMA SemBelow ==
  ASSUME NEW sm, NEW hp, SemInv(sm, hp), NEW n \in 0..Len(sm)
  PROVE  SemInv(SubSeq(sm, 1, Len(sm) - n), hp)
<1> DEFINE low == SubSeq(sm, 1, Len(sm) - n)
<1>1. sm \in Seq(ItemSet)
  BY DEF SemInv
<1>2. /\ low \in Seq(ItemSet) /\ Len(sm) \in Nat
      /\ DOMAIN low = 1..(Len(sm) - n) /\ DOMAIN sm = 1..Len(sm)
      /\ \A i \in DOMAIN low : low[i] = sm[i] /\ i \in DOMAIN sm
  BY <1>1, Prefix
<1>3. \A i \in DOMAIN low : SubSeq(low, 1, i - 1) = SubSeq(sm, 1, i - 1)
  <2>1. Len(sm) - n \in 0..Len(sm)
    BY <1>2
  <2> QED
    BY <1>1, <1>2, <2>1, PrefixTwice
<1> HIDE DEF low
<1>4. SemInv(low, hp)
  BY <1>2, <1>3 DEF SemInv
<1> QED
  BY <1>4 DEF low

(* Items on items: the new one fits on the others.                         *)
LEMMA SemPush ==
  ASSUME NEW sm, NEW hp, SemInv(sm, hp), NEW it \in ItemSet, ItemRefs(hp, it),
         After(sm, it), \A i \in DOMAIN sm : Apart(sm[i], it)
  PROVE  SemInv(Append(sm, it), hp)
<1> DEFINE sn == Append(sm, it)
           m == Len(sm)
<1>1. sm \in Seq(ItemSet) /\ m \in Nat /\ DOMAIN sm = 1..m
  BY DEF SemInv
<1>2. /\ sn \in Seq(ItemSet) /\ DOMAIN sn = DOMAIN sm \cup {m + 1} /\ Len(sn) = m + 1
      /\ m + 1 \notin DOMAIN sm
      /\ \A k \in DOMAIN sm : sn[k] = sm[k]
      /\ sn[m + 1] = it
  BY <1>1, AppendFacts
<1>3. SubSeq(sn, 1, m) = sm
  BY <1>1
<1>4. \A i \in DOMAIN sm : SubSeq(sn, 1, i - 1) = SubSeq(sm, 1, i - 1)
  <2> TAKE i \in DOMAIN sm
  <2>1. m \in 0..Len(sn) /\ i \in 1..m
    BY <1>1, <1>2
  <2> QED
    BY <1>2, <1>3, <2>1, PrefixTwice
<1> HIDE DEF sn
<1>5. \A i \in DOMAIN sn : After(SubSeq(sn, 1, i - 1), sn[i])
  <2> TAKE i \in DOMAIN sn
  <2>1. CASE i \in DOMAIN sm
    BY <1>2, <1>4, <2>1 DEF SemInv
  <2>2. CASE i = m + 1
    <3>1. i - 1 = m
      BY <1>1, <2>2
    <3> QED
      BY <1>2, <1>3, <2>2, <3>1
  <2> QED
    BY <1>2, <2>1, <2>2
<1>6. \A i \in DOMAIN sn : ItemRefs(hp, sn[i])
  BY <1>2 DEF SemInv
<1>7. \A i, j \in DOMAIN sn : i # j => Apart(sn[i], sn[j])
  BY <1>2 DEF SemInv, Apart
<1>8. SemInv(sn, hp)
  BY <1>2, <1>5, <1>6, <1>7 DEF SemInv
<1> QED
  BY <1>8 DEF sn

(* All values are, when a step claims nothing of theirs.                   *)
LEMMA SemLater ==
  ASSUME NEW sm, NEW hp, NEW hq, NEW S, NEW B, SemInv(sm, hp), Later(hp, hq, S, B),
         \A i \in DOMAIN sm : Holds(sm[i]) \cap S = {} /\ Builds(sm[i]) \cap B = {}
  PROVE  SemInv(sm, hq)
BY ItemLater DEF SemInv

(* A reduction replaces the topmost n values.                              *)
LEMMA Reduced ==
  ASSUME NEW sm, NEW hp, NEW hq, SemInv(sm, hp), NEW n \in 0..Len(sm), NEW S, NEW B,
         Later(hp, hq, S, B),
         S \cap DOMAIN hp \subseteq HeldAbove(sm, n),
         B \cap DOMAIN hp \subseteq BuiltAbove(sm, n)
  PROVE  LET low == SubSeq(sm, 1, Len(sm) - n)
         IN /\ SemInv(low, hq)
            /\ \A it \in ItemSet :
                 /\ ItemRefs(hq, it) /\ After(low, it)
                 /\ Holds(it) \cap DOMAIN hp \subseteq HeldAbove(sm, n)
                 /\ Builds(it) \cap DOMAIN hp \subseteq BuiltAbove(sm, n)
                 => SemInv(Append(low, it), hq)
<1> DEFINE low == SubSeq(sm, 1, Len(sm) - n)
<1>1. sm \in Seq(ItemSet)
  BY DEF SemInv
<1>2. /\ Len(sm) \in Nat
      /\ DOMAIN low = 1..(Len(sm) - n) /\ DOMAIN sm = 1..Len(sm)
      /\ \A i \in DOMAIN low : low[i] = sm[i] /\ i \in DOMAIN sm
  BY <1>1, Prefix
<1>3. SemInv(low, hp)
  BY SemBelow
<1> HIDE DEF low
<1>4. \A i \in DOMAIN low : /\ Holds(low[i]) \cap HeldAbove(sm, n) = {}
                            /\ Builds(low[i]) \cap BuiltAbove(sm, n) = {}
  <2> TAKE i \in DOMAIN low
  <2>1. \A k \in (Len(sm) - n + 1)..Len(sm) : k \in DOMAIN sm /\ k # i
    BY <1>2
  <2>2. \A k \in (Len(sm) - n + 1)..Len(sm) : Apart(sm[i], sm[k])
    BY <1>2, <2>1 DEF SemInv
  <2> QED
    BY <1>2, <2>2, SMTT(30) DEF Apart, HeldAbove, BuiltAbove
<1>5. \A i \in DOMAIN low : Holds(low[i]) \subseteq DOMAIN hp /\ Builds(low[i]) \subseteq DOMAIN hp
  BY <1>3 DEF SemInv, ItemRefs, IsQuery, IsCompoundObject
<1>6. SemInv(low, hq)
  <2>1. \A i \in DOMAIN low : Holds(low[i]) \cap S = {} /\ Builds(low[i]) \cap B = {}
    BY <1>4, <1>5
  <2> QED
    BY <1>3, <2>1, SemLater
<1>7. ASSUME NEW it \in ItemSet, ItemRefs(hq, it), After(low, it),
             Holds(it) \cap DOMAIN hp \subseteq HeldAbove(sm, n),
             Builds(it) \cap DOMAIN hp \subseteq BuiltAbove(sm, n)
      PROVE  SemInv(Append(low, it), hq)
  <2>1. \A i \in DOMAIN low : Apart(low[i], it)
    BY <1>4, <1>5, <1>7 DEF Apart
  <2> QED
    BY <1>6, <1>7, <2>1, SemPush
<1> QED
  BY <1>6, <1>7 DEF low

(* The items themselves: what they hold and build.                         *)
LEMMA AboveFacts ==
  ASSUME NEW sm \in Seq(ItemSet), NEW n \in 0..Len(sm), NEW k \in 0..(n - 1)
  PROVE  /\ Len(sm) - k \in DOMAIN sm
         /\ Holds(sm[Len(sm) - k]) \subseteq HeldAbove(sm, n)
         /\ Builds(sm[Len(sm) - k]) \subseteq BuiltAbove(sm, n)
<1>1. Len(sm) \in Nat /\ Len(sm) - k \in (Len(sm) - n + 1)..Len(sm)
  OBVIOUS
<1> QED
  BY <1>1, SMTT(30) DEF HeldAbove, BuiltAbove
-----------------------------------------------------------------------------
(***************************************************************************)
(* What the operators of the model return.                                 *)
(***************************************************************************)

LEMMA TopTyped ==
  ASSUME HeapInv(heap), NEW q, IsQuery(heap, q)
  PROVE  LET last == Last(heap[q].links).attr IN
         /\ IsAttr(heap, last) /\ IsAttr(heap, heap[last].top)
         /\ heap[heap[last].top].sort # "forward"
         /\ heap[last].top \in Claims(heap, q) \/ Settled(heap, heap[last].top)
         /\ TopAttr(q) = heap[heap[last].top] /\ TopAttr(q) \in AttrObject
         /\ TopAttr(q).type # 0 => IsCompoundObject(heap, TopAttr(q).type)
         /\ ~TopAttr(q).atomic => TopAttr(q).type # 0
<1> DEFINE last == Last(heap[q].links).attr
           top == heap[last].top
<1>1. /\ heap \in Seq(Object) /\ q \in DOMAIN heap /\ heap[q].kind = "query"
      /\ QueryRefs(heap, q)
  BY DEF HeapInv, IsQuery, Refs
<1>2. heap[q].links \in Seq([attr : Nat, owned : BOOLEAN]) /\ heap[q].links # <<>>
  BY <1>1, ObjectKinds DEF QueryObject, QueryRefs
<1>3. Len(heap[q].links) \in DOMAIN heap[q].links
  BY <1>2
<1>4. IsAttr(heap, last) /\ (last \in Claims(heap, q) \/ heap[last].sort \in Definable)
  <2>1. heap[q].links[Len(heap[q].links)].owned => last \in Claims(heap, q)
    BY <1>1, <1>3 DEF Claims, Last
  <2> QED
    BY <1>1, <1>3, <2>1 DEF QueryRefs, Last
<1> HIDE DEF last
<1>5. /\ IsAttr(heap, top) /\ heap[top].sort # "forward"
      /\ top \in Claims(heap, q) \/ Settled(heap, top)
  BY <1>4 DEF HeapInv, Refs, AttrRefs, IsAttr, Settled
<1> HIDE DEF top
<1>6. heap[top] \in AttrObject
  BY <1>1, <1>5, ObjectKinds DEF IsAttr
<1>7. /\ heap[top].type # 0 => IsCompoundObject(heap, heap[top].type)
      /\ ~heap[top].atomic => heap[top].type # 0
  BY <1>5 DEF HeapInv, Refs, AttrRefs, IsAttr
<1> QED
  BY <1>4, <1>5, <1>6, <1>7 DEF TopAttr, last, top

(* Compounds are based on compounds.                                       *)
LEMMA LineageWithin ==
  ASSUME HeapInv(heap), NEW c, IsCompoundObject(heap, c)
  PROVE  c \in Lineage(c) /\ \A d \in Lineage(c) : IsCompoundObject(heap, d)
<1> DEFINE f == [o \in DOMAIN heap |->
                   IF heap[o].kind = "compound" THEN {heap[o].parent} \ {0} ELSE {}]
           C == {d \in DOMAIN heap : heap[d].kind = "compound"}
<1>1. heap \in Seq(Object)
  BY DEF HeapInv
<1>2. DOMAIN f = 1..Len(heap) /\ Len(heap) \in Nat
  BY <1>1
<1>3. IsFiniteSet(DOMAIN f)
  BY <1>2, FS_Interval
<1>4. {c} \subseteq C
  BY DEF IsCompoundObject
<1>5. \A o \in C : f[o] \subseteq C
  BY DEF HeapInv, Refs, CompoundRefs, IsCompoundObject
<1> HIDE DEF f
<1>6. {c} \subseteq Reach(f, {c}) /\ Reach(f, {c}) \subseteq C
  BY <1>3, <1>4, <1>5, ReachWithin
<1> QED
  BY <1>6 DEF Lineage, f, IsCompoundObject

(* The greatest of some numbers up to n.                                   *)
LEMMA MaxIn ==
  ASSUME NEW n \in Nat, NEW T, T \subseteq 0..n, T # {}
  PROVE  Max(T) \in T
<1> DEFINE U == {n - k : k \in T}
<1>1. U \subseteq Nat /\ U # {}
  <2>1. \A k \in T : k \in 0..n /\ n - k \in Nat
    OBVIOUS
  <2> QED
    BY <2>1
<1>2. PICK m \in U : \A k \in U : m <= k
  BY <1>1, LeastElement
<1>3. PICK k \in T : m = n - k
  BY <1>2
<1>4. \A j \in T : n - j \in U
  OBVIOUS
<1>5. \A j \in T : k >= j
  <2> TAKE j \in T
  <2>1. m <= n - j /\ j \in 0..n /\ k \in 0..n
    BY <1>2, <1>4
  <2> QED
    BY <1>3, <2>1
<1> QED
  BY <1>5 DEF Max

(* A name leads to an attribute that a definition or the root's author     *)
(* made.                                                                   *)
LEMMA LookupTyped ==
  ASSUME HeapInv(heap), NEW c, IsCompoundObject(heap, c), NEW n, Lookup(c, n) # 0
  PROVE  /\ IsAttr(heap, Lookup(c, n))
         /\ heap[Lookup(c, n)].sort \in Definable
<1> DEFINE has == {d \in Lineage(c) : n \in DOMAIN heap[d].attrs}
<1>1. has # {} /\ Lookup(c, n) = heap[Max(has)].attrs[n]
  BY DEF Lookup
<1>2. heap \in Seq(Object) /\ Len(heap) \in Nat /\ DOMAIN heap = 1..Len(heap)
  BY DEF HeapInv
<1>3. has \subseteq 0..Len(heap)
  BY <1>2, LineageWithin DEF IsCompoundObject
<1> HIDE DEF has
<1>4. Max(has) \in has
  BY <1>1, <1>2, <1>3, MaxIn
<1>5. IsCompoundObject(heap, Max(has)) /\ n \in DOMAIN heap[Max(has)].attrs
  BY <1>4, LineageWithin DEF has
<1> QED
  BY <1>1, <1>5 DEF HeapInv, Refs, CompoundRefs, IsCompoundObject

(* The fields of a semantic value, and what it holds and builds.           *)
LEMMA ItemFields ==
  ASSUME NEW it \in ItemSet
  PROVE  /\ it.is = "query" => /\ it.q \in Nat /\ it.path \in BOOLEAN
                               /\ Holds(it) = {it.q} \ {0}
         /\ it.is = "open" => it.q \in Nat /\ Holds(it) = {it.q} \ {0}
         /\ it.is = "call" => /\ it.args \in Seq(Nat)
                              /\ Holds(it) = {it.args[k] : k \in DOMAIN it.args}
         /\ it.is \in {"def", "colon"} => it.c \in Nat /\ Builds(it) = {it.c} \ {0}
         /\ it.is = "name" => it.n \in Names \cup {0} /\ it.bind \in BOOLEAN
<1>1. CASE it \in [is : {"query"}, q : Nat, path : BOOLEAN]
  BY <1>1 DEF Holds
<1>2. CASE it \in [is : {"op"}]
  BY <1>2
<1>3. CASE it \in [is : {"call"}, args : Seq(Nat)]
  BY <1>3 DEF Holds
<1>4. CASE it \in [is : {"open"}, q : Nat]
  BY <1>4 DEF Holds
<1>5. CASE it \in [is : {"name"}, n : Names \cup {0}, bind : BOOLEAN]
  BY <1>5
<1>6. CASE it \in [is : {"def"}, c : Nat, named : BOOLEAN]
  BY <1>6 DEF Builds
<1>7. CASE it \in [is : {"colon"}, c : Nat]
  BY <1>7 DEF Builds
<1> QED
  BY <1>1, <1>2, <1>3, <1>4, <1>5, <1>6, <1>7 DEF ItemSet

(* A semantic value is a query that is not claimed, ...                    *)
LEMMA QueryItem ==
  ASSUME NEW q \in Nat \ {0}, NEW path \in BOOLEAN, NEW hp, IsQuery(hp, q), Unclaimed(hp, q),
         NEW low
  PROVE  LET it == Query(q, path)
         IN /\ it \in ItemSet /\ ItemRefs(hp, it) /\ After(low, it)
            /\ Holds(it) = {q} /\ Builds(it) = {}
BY DEF Query, ItemSet, ItemRefs, After, Holds, Builds

(* The query on the top of the stack.                                      *)
LEMMA TopQuery ==
  ASSUME OwnInv, Complete
  PROVE  /\ rc = "parsing" /\ result = 0
         /\ Len(sem) \in Nat \ {0} /\ sem \in Seq(ItemSet) /\ Top = sem[Len(sem)]
         /\ Top \in ItemSet /\ Top.is = "query" /\ Top.q \in Nat \ {0} /\ Top.path \in BOOLEAN
         /\ Holds(Top) = {Top.q} /\ IsQuery(heap, Top.q) /\ Unclaimed(heap, Top.q)
<1>1. sem \in Seq(ItemSet) /\ Len(sem) > 0 /\ Item(0).is = "query"
  BY DEF OwnInv, SemInv, Complete, IsItem
<1>2. /\ Len(sem) \in Nat \ {0} /\ Item(0) = sem[Len(sem)] /\ Top = sem[Len(sem)]
      /\ Len(sem) \in DOMAIN sem /\ sem # <<>>
  BY <1>1 DEF Item, Top, Last
<1>3. Top \in ItemSet /\ ItemRefs(heap, Top)
  BY <1>1, <1>2 DEF OwnInv, SemInv
<1>4. /\ Top.is = "query" /\ Top.q \in Nat /\ Top.path \in BOOLEAN
      /\ Holds(Top) = {Top.q} \ {0}
  BY <1>1, <1>2, <1>3, ItemFields
<1>5. Top.q # 0
  BY <1>3, <1>4 DEF ItemRefs
<1>6. rc = "parsing" /\ result = 0
  BY <1>2 DEF OwnInv, ClientInv
<1> QED
  BY <1>1, <1>2, <1>3, <1>4, <1>5, <1>6 DEF ItemRefs

(* Any other item of the stack.                                            *)
LEMMA StackItem ==
  ASSUME OwnInv, NEW n \in Nat, NEW is, IsItem(n, is)
  PROVE  /\ sem \in Seq(ItemSet) /\ Len(sem) \in Nat /\ n < Len(sem)
         /\ rc = "parsing" /\ result = 0
         /\ Item(n) = sem[Len(sem) - n] /\ Len(sem) - n \in DOMAIN sem
         /\ Item(n) \in ItemSet /\ ItemRefs(heap, Item(n)) /\ Item(n).is = is
         /\ After(SubSeq(sem, 1, Len(sem) - n - 1), Item(n))
<1>1. sem \in Seq(ItemSet) /\ Len(sem) > n /\ Item(n).is = is
  BY DEF OwnInv, SemInv, IsItem
<1>2. /\ Len(sem) \in Nat /\ Item(n) = sem[Len(sem) - n] /\ Len(sem) - n \in DOMAIN sem
      /\ sem # <<>>
  BY <1>1 DEF Item
<1>3. /\ Item(n) \in ItemSet /\ ItemRefs(heap, Item(n))
      /\ After(SubSeq(sem, 1, Len(sem) - n - 1), Item(n))
  BY <1>1, <1>2 DEF OwnInv, SemInv
<1>4. rc = "parsing" /\ result = 0
  BY <1>2 DEF OwnInv, ClientInv
<1> QED
  BY <1>1, <1>2, <1>3, <1>4

(* What an item comes after is on the stack below it.                      *)
LEMMA ItemBelow ==
  ASSUME OwnInv, NEW n \in Nat, NEW is, IsItem(n, is)
  PROVE  /\ is = "op" => IsItem(n + 1, "query")
         /\ is \in {"def", "colon"} => IsItem(n + 1, "open")
         /\ is = "name" => IsItem(n + 1, "open") \/ IsItem(n + 1, "def")
<1> DEFINE low == SubSeq(sem, 1, Len(sem) - n - 1)
<1>1. /\ sem \in Seq(ItemSet) /\ Len(sem) \in Nat /\ n < Len(sem)
      /\ Item(n).is = is /\ After(low, Item(n))
  BY StackItem
<1>2. ASSUME low # <<>>
      PROVE  Len(sem) > n + 1 /\ low[Len(low)] = Item(n + 1)
  <2> DEFINE m == n + 1
  <2>1. m \in 0..Len(sem) /\ low = SubSeq(sem, 1, Len(sem) - m)
    BY <1>1
  <2> HIDE DEF m, low
  <2> DEFINE below == SubSeq(sem, 1, Len(sem) - m)
  <2>2. /\ below \in Seq(ItemSet) /\ Len(below) = Len(sem) - m
        /\ DOMAIN below = 1..(Len(sem) - m)
        /\ \A i \in DOMAIN below : below[i] = sem[i]
    BY <1>1, <2>1, Prefix
  <2> HIDE DEF below
  <2>3. low = below
    BY <2>1 DEF below
  <2>4. Len(low) \in DOMAIN low
    BY <1>1, <1>2, <2>1, <2>2, <2>3
  <2> QED
    BY <1>1, <2>2, <2>3, <2>4, SMTT(30) DEF Item, m
<1> HIDE DEF low
<1> QED
  BY <1>1, <1>2 DEF After, IsItem
-----------------------------------------------------------------------------
(***************************************************************************)
(* One lemma for each action: it preserves OwnInv.                         *)
(***************************************************************************)

(* The queries that semantic values hold.                                  *)
Held == UNION {Holds(sem[i]) : i \in DOMAIN sem}

(* Nothing but what a semantic value holds is claimed.                     *)
Untaken == \A o \in DOMAIN heap \ Held : Unclaimed(heap, o) => Unclaimed(heap', o)

(* A step that preserves the invariant and all there was, and in which     *)
(* queries only pass from semantic value to semantic value or to an owner. *)
OwnStep == /\ OwnInv' /\ Kept(heap, heap')
           /\ Untaken /\ Held' \cap DOMAIN heap \subseteq Held

(* What the topmost n values hold is held.                                 *)
LEMMA HeldAboveHeld ==
  ASSUME OwnInv, NEW n \in 0..Len(sem)
  PROVE  HeldAbove(sem, n) \subseteq Held
<1>1. sem \in Seq(ItemSet) /\ Len(sem) \in Nat
  BY DEF OwnInv, SemInv
<1>2. (Len(sem) - n + 1)..Len(sem) \subseteq DOMAIN sem
  BY <1>1
<1> QED
  BY <1>2 DEF HeldAbove, Held

(* What is taken from the top of the stack was held.                       *)
LEMMA TakenHeld ==
  ASSUME OwnInv, NEW n \in 0..Len(sem), NEW S, NEW B, Later(heap, heap', S, B),
         S \cap DOMAIN heap \subseteq HeldAbove(sem, n)
  PROVE  Untaken
BY HeldAboveHeld DEF Untaken, Later

(* A step that leaves the heap alone takes nothing over.                   *)
LEMMA NothingTaken ==
  ASSUME heap' = heap
  PROVE  Untaken
BY DEF Untaken

(* Nothing is held that was not, but for new queries.                      *)
LEMMA HeldReduced ==
  ASSUME OwnInv, NEW n \in 0..Len(sem), NEW it \in ItemSet,
         Holds(it) \cap DOMAIN heap \subseteq HeldAbove(sem, n),
         sem' = Append(Below(n), it)
  PROVE  Held' \cap DOMAIN heap \subseteq Held
<1> DEFINE low == Below(n)
           sm == Append(low, it)
<1>1. /\ low \in Seq(ItemSet)
      /\ \A i \in DOMAIN low : low[i] = sem[i] /\ i \in DOMAIN sem
  <2>1. sem \in Seq(ItemSet) /\ low = SubSeq(sem, 1, Len(sem) - n)
    BY DEF OwnInv, SemInv, Below
  <2> HIDE DEF low
  <2> QED
    BY <2>1, PrefixIs
<1> HIDE DEF low
<1>2. /\ DOMAIN sm = DOMAIN low \cup {Len(low) + 1}
      /\ \A k \in DOMAIN low : sm[k] = low[k]
      /\ sm[Len(low) + 1] = it
  BY <1>1, AppendFacts
<1>3. sem' = sm
  BY DEF low
<1> HIDE DEF sm
<1>4. ASSUME NEW i \in DOMAIN sm, NEW q \in Holds(sm[i]), q \in DOMAIN heap
      PROVE  q \in Held
  <2>1. CASE i \in DOMAIN low
    BY <1>1, <1>2, <1>4, <2>1 DEF Held
  <2>2. CASE i = Len(low) + 1
    BY <1>2, <1>4, <2>2, HeldAboveHeld
  <2> QED
    BY <1>2, <2>1, <2>2
<1> QED
  BY <1>3, <1>4 DEF Held

(* What objects of the parser and the context remain what they are.        *)
LEMMA Framed ==
  ASSUME OwnInv, rc = "parsing", HeapInv(heap'), Kept(heap, heap'), SemInv(sem', heap'),
         rc' = rc, ListInv', ScopeInv', UNCHANGED client,
         Untaken, Held' \cap DOMAIN heap \subseteq Held
  PROVE  OwnStep
<1>1. ClientInv'
  BY DEF OwnInv, ClientInv, client, IsProduct, IsAttr, Kept
<1> QED
  BY <1>1 DEF OwnInv, OwnStep

(* The scopes and the list of virtual compounds name what they named.      *)
LEMMA ScopesKept ==
  ASSUME OwnInv, Kept(heap, heap'), scopes' = scopes, rc' = rc
  PROVE  ScopeInv'
BY DEF OwnInv, ScopeInv, Kept, IsCompoundObject

LEMMA ListKept ==
  ASSUME OwnInv, Kept(heap, heap'), listed' = listed
  PROVE  ListInv'
BY DEF OwnInv, ListInv, Kept, IsCompoundObject

(* The parser gives up.                                                    *)
LEMMA Stopped ==
  ASSUME OwnInv, rc = "parsing", HeapInv(heap'), Kept(heap, heap'), ListInv', Untaken,
         NEW code, code # "parsing", Stop(code)
  PROVE  OwnStep
<1>1. /\ rc' = code /\ sem' = <<>> /\ scopes' = <<>> /\ UNCHANGED <<result, iterated, context>>
  BY DEF Stop, Leave, client
<1>2. SemInv(sem', heap')
  BY <1>1 DEF SemInv
<1>3. ScopeInv'
  BY <1>1 DEF ScopeInv
<1>4. ClientInv'
  BY <1>1 DEF OwnInv, ClientInv, IsProduct, IsAttr, Kept
<1>5. Held' = {}
  BY <1>1 DEF Held
<1> QED
  BY <1>2, <1>3, <1>4, <1>5 DEF OwnInv, OwnStep

(* A heap that does not change keeps what it has.                          *)
LEMMA KeptSelf == ASSUME NEW hp PROVE Kept(hp, hp)
BY DEF Kept

LEMMA LaterSelf == ASSUME NEW hp PROVE Later(hp, hp, {}, {})
BY DEF Later, Kept

(* A refused token or reduction leaves everything for the unwinding.       *)
LEMMA Failed ==
  ASSUME OwnInv, rc = "parsing", Fail
  PROVE  OwnStep
<1>1. heap' = heap /\ listed' = listed /\ Stop("error")
  BY DEF Fail
<1>2. HeapInv(heap') /\ Kept(heap, heap')
  BY <1>1, KeptSelf DEF OwnInv
<1>3. ListInv'
  BY <1>1, <1>2, ListKept
<1> QED
  BY <1>1, <1>2, <1>3, NothingTaken, Stopped

(* A reduction that pushes a query of its own, or an argument list, ...    *)
LEMMA Pushed ==
  ASSUME OwnInv, rc = "parsing", NEW n \in 0..Len(sem), NEW S, NEW B,
         HeapInv(heap'), Later(heap, heap', S, B),
         S \cap DOMAIN heap \subseteq HeldAbove(sem, n),
         B \cap DOMAIN heap \subseteq BuiltAbove(sem, n),
         NEW it \in ItemSet, ItemRefs(heap', it), After(Below(n), it),
         Holds(it) \cap DOMAIN heap \subseteq HeldAbove(sem, n),
         Builds(it) \cap DOMAIN heap \subseteq BuiltAbove(sem, n),
         sem' = Append(Below(n), it), rc' = rc, ListInv', ScopeInv', UNCHANGED client
  PROVE  OwnStep
<1>1. SemInv(sem', heap')
  BY Reduced DEF OwnInv, Below
<1>2. Kept(heap, heap')
  BY DEF Later
<1>3. Untaken
  BY TakenHeld
<1>4. Held' \cap DOMAIN heap \subseteq Held
  BY HeldReduced
<1> QED
  BY <1>1, <1>2, <1>3, <1>4, Framed

(* The stack as a prefix of itself.                                        *)
LEMMA BelowNone ==
  ASSUME OwnInv
  PROVE  /\ sem \in Seq(ItemSet) /\ Len(sem) \in Nat /\ 0 \in 0..Len(sem)
         /\ Below(0) = sem
         /\ HeldAbove(sem, 0) = {} /\ BuiltAbove(sem, 0) = {}
<1>1. sem \in Seq(ItemSet) /\ Len(sem) \in Nat
  BY DEF OwnInv, SemInv
<1>2. (Len(sem) - 0 + 1)..Len(sem) = {}
  BY <1>1
<1> QED
  BY <1>1, <1>2 DEF Below, HeldAbove, BuiltAbove

(* A new attribute and the chain that owns it.                             *)
LEMMA GrowWrapped ==
  ASSUME NEW hp, HeapInv(hp), NEW obj \in AttrObject,
         obj.top = Len(hp) + 1, obj.sort \notin Definable,
         \A k \in DOMAIN obj.data : IsQuery(hp, obj.data[k]) /\ Unclaimed(hp, obj.data[k]),
         obj.type # 0 => IsCompoundObject(hp, obj.type),
         obj.sort # "forward" /\ ~obj.atomic => obj.type # 0,
         obj.sort = "bound" => Len(obj.data) = 1,
         obj.sort = "product" => obj.type # 0 /\ Unbuilt(hp, obj.type)
  PROVE  LET hq == hp \o <<obj, Chain(Len(hp) + 1, TRUE)>>
             id == Len(hp) + 2
         IN /\ HeapInv(hq)
            /\ Later(hp, hq, {obj.data[k] : k \in DOMAIN obj.data}, Typed(obj))
            /\ id \in Nat \ {0} /\ id \notin DOMAIN hp
            /\ IsQuery(hq, id) /\ Unclaimed(hq, id)
<1> DEFINE new == Len(hp) + 1
           h1 == hp \o <<obj>>
           chain == Chain(new, TRUE)
           h2 == h1 \o <<chain>>
           S == {obj.data[k] : k \in DOMAIN obj.data}
<1>1. hp \in Seq(Object) /\ obj \in Object /\ Len(hp) \in Nat /\ DOMAIN hp = 1..Len(hp)
  BY DEF HeapInv, Object
<1>2. /\ HeapInv(h1) /\ Later(hp, h1, S, Typed(obj)) /\ Len(h1) = new /\ IsAttr(h1, new)
      /\ Unclaimed(h1, new) /\ new \notin DOMAIN hp /\ DOMAIN h1 = DOMAIN hp \cup {new}
      /\ h1[new].sort \notin Definable
  <2>1. obj.sort # "forward" /\ obj.top = Len(hp) + 1
    BY DEF Definable
  <2> QED
    BY <2>1, GrowByAttr
<1>3. new \in Nat
  BY <1>1
<1> HIDE DEF S, new
<1>4. chain \in Object
  BY <1>3, ChainObject
<1> HIDE DEF chain
<1>5. hp \o <<obj, chain>> = h2
  BY <1>1, <1>4
<1> HIDE DEF h1
<1>6. /\ HeapInv(h1 \o <<Chain(new, TRUE)>>)
      /\ Later(h1, h1 \o <<Chain(new, TRUE)>>, {new}, {})
      /\ Len(h1) + 1 \notin DOMAIN h1
      /\ IsQuery(h1 \o <<Chain(new, TRUE)>>, Len(h1) + 1)
      /\ Unclaimed(h1 \o <<Chain(new, TRUE)>>, Len(h1) + 1)
  BY <1>2, GrowByChain
<1>7. HeapInv(h2) /\ Later(h1, h2, {new}, {})
  BY <1>6 DEF chain
<1> HIDE DEF h2
<1>8. Later(hp, h2, S \cup {new}, Typed(obj) \cup {})
  BY <1>2, <1>7, LaterTwice
<1>9. Later(hp, h2, S, Typed(obj))
  BY <1>2, <1>8 DEF Later
<1>10. Len(h1) + 1 = Len(hp) + 2 /\ Len(hp) + 2 \in Nat \ {0}
  BY <1>1, <1>2 DEF new
<1>11. /\ IsQuery(h2, Len(hp) + 2) /\ Unclaimed(h2, Len(hp) + 2)
       /\ Len(hp) + 2 \notin DOMAIN hp
  BY <1>1, <1>2, <1>6, <1>10 DEF h2, chain
<1> QED
  BY <1>5, <1>7, <1>9, <1>10, <1>11 DEF chain, S, new

(* ... that takes the place of what it was made of.                        *)
LEMMA WrappedPushed ==
  ASSUME OwnInv, rc = "parsing", NEW n \in 0..Len(sem),
         NEW sort \in {"static", "op", "function"}, NEW collection \in BOOLEAN,
         NEW data \in Seq(Nat),
         \A k \in DOMAIN data : /\ IsQuery(heap, data[k]) /\ Unclaimed(heap, data[k])
                                /\ data[k] \in HeldAbove(sem, n),
         heap' = heap \o Wrapped(Attr(sort, TRUE, collection, 0, data, Self)),
         sem' = Append(Below(n), Query(WrappedId, FALSE)),
         UNCHANGED <<listed, scopes, rc, client>>
  PROVE  OwnStep
<1> DEFINE obj == Attr(sort, TRUE, collection, 0, data, Self)
           S == {data[k] : k \in DOMAIN data}
           it == Query(WrappedId, FALSE)
<1>1. HeapInv(heap) /\ Self \in Nat
  BY DEF OwnInv, HeapInv, Self
<1>2. /\ obj \in AttrObject /\ obj.top = Len(heap) + 1 /\ obj.data = data /\ obj.type = 0
      /\ obj.sort = sort /\ obj.atomic /\ obj.kind = "attr"
  <2>1. sort \in Sorts /\ TRUE \in BOOLEAN /\ 0 \in Nat /\ Self = Len(heap) + 1
    BY DEF Sorts, Self
  <2> QED
    BY <1>1, <2>1 DEF Attr, AttrObject
<1>3. heap' = heap \o <<obj, Chain(Len(heap) + 1, TRUE)>>
  BY DEF Wrapped
<1> HIDE DEF obj
<1>4. /\ HeapInv(heap') /\ Later(heap, heap', {obj.data[k] : k \in DOMAIN obj.data}, Typed(obj))
      /\ WrappedId \in Nat \ {0} /\ WrappedId \notin DOMAIN heap
      /\ IsQuery(heap', WrappedId) /\ Unclaimed(heap', WrappedId)
  <2>1. \A k \in DOMAIN obj.data : IsQuery(heap, obj.data[k]) /\ Unclaimed(heap, obj.data[k])
    BY <1>2
  <2>2. /\ obj.top = Len(heap) + 1 /\ obj.sort \notin Definable
        /\ obj.type # 0 => IsCompoundObject(heap, obj.type)
        /\ obj.sort # "forward" /\ ~obj.atomic => obj.type # 0
        /\ obj.sort = "bound" => Len(obj.data) = 1
        /\ obj.sort = "product" => obj.type # 0 /\ Unbuilt(heap, obj.type)
    BY <1>2 DEF Definable
  <2>3. LET hq == heap \o <<obj, Chain(Len(heap) + 1, TRUE)>>
            id == Len(heap) + 2
        IN /\ HeapInv(hq)
           /\ Later(heap, hq, {obj.data[k] : k \in DOMAIN obj.data}, Typed(obj))
           /\ id \in Nat \ {0} /\ id \notin DOMAIN heap
           /\ IsQuery(hq, id) /\ Unclaimed(hq, id)
    BY <1>1, <1>2, <2>1, <2>2, GrowWrapped
  <2> QED
    BY <1>3, <2>3 DEF WrappedId
<1>5. Typed(obj) = {} /\ S = {obj.data[k] : k \in DOMAIN obj.data}
  BY <1>2 DEF Typed
<1> HIDE DEF S, it
<1>6. Later(heap, heap', S, {})
  BY <1>4, <1>5
<1>7. /\ it \in ItemSet /\ ItemRefs(heap', it) /\ After(Below(n), it)
      /\ Holds(it) = {WrappedId} /\ Builds(it) = {}
  BY <1>4, QueryItem DEF it
<1>8. S \subseteq HeldAbove(sem, n)
  BY DEF S
<1>9. ListInv' /\ ScopeInv'
  BY <1>6, ListKept, ScopesKept DEF Later
<1> QED
  BY <1>4, <1>6, <1>7, <1>8, <1>9, Pushed DEF it

(* A constant.                                                             *)
LEMMA LiteralStep == ASSUME OwnInv, Literal PROVE OwnStep
<1>1. rc = "parsing"
  BY DEF Literal, Starts
<1>2. /\ heap' = heap \o Wrapped(Attr("static", TRUE, FALSE, 0, <<>>, Self))
      /\ sem' = Append(Below(0), Query(WrappedId, FALSE))
      /\ UNCHANGED <<listed, scopes, rc, client>>
  BY BelowNone DEF Literal, Reduce
<1>3. <<>> \in Seq(Nat) /\ DOMAIN <<>> = {}
  OBVIOUS
<1> QED
  BY <1>1, <1>2, <1>3, BelowNone, WrappedPushed

(* A chain of its own for an attribute that a compound has.                *)
LEMMA MemberStep == ASSUME OwnInv, Member PROVE OwnStep
<1>1. rc = "parsing"
  BY DEF Member, Starts
<1>2. PICK n \in Attributes, selection \in Selections :
        LET a == Lookup(Scope.compound, n)
        IN \/ /\ Selectable(a, selection)
              /\ Reduce(sem, Query(Self, TRUE), <<Chain(a, FALSE)>>)
           \/ Fail
  BY DEF Member
<1> DEFINE a == Lookup(Scope.compound, n)
<1>3. CASE Fail
  BY <1>1, <1>3, Failed
<1>4. CASE a # 0 /\ Reduce(sem, Query(Self, TRUE), <<Chain(a, FALSE)>>)
  <2>1. HeapInv(heap) /\ IsCompoundObject(heap, Scope.compound)
    <3>1. scopes # <<>> /\ scopes \in Seq([compound : Nat, pos : Nat, bound : BOOLEAN])
      BY <1>1 DEF OwnInv, ScopeInv
    <3>2. Len(scopes) \in DOMAIN scopes
      BY <3>1
    <3> QED
      BY <3>2 DEF OwnInv, ScopeInv, Scope, Last
  <2>2. IsAttr(heap, a) /\ heap[a].sort \in Definable
    BY <1>4, <2>1, LookupTyped
  <2> HIDE DEF a
  <2>3. heap' = heap \o <<Chain(a, FALSE)>>
    BY <1>4 DEF Reduce
  <2>4. /\ HeapInv(heap') /\ Later(heap, heap', {}, {})
        /\ Self \in Nat \ {0} /\ Self \notin DOMAIN heap
        /\ IsQuery(heap', Self) /\ Unclaimed(heap', Self)
    BY <2>1, <2>2, <2>3, GrowByChain DEF Self
  <2>5. LET it == Query(Self, TRUE)
        IN /\ it \in ItemSet /\ ItemRefs(heap', it) /\ After(Below(0), it)
           /\ Holds(it) = {Self} /\ Builds(it) = {}
    BY <2>4, QueryItem
  <2>6. sem' = Append(Below(0), Query(Self, TRUE)) /\ UNCHANGED <<listed, scopes, rc, client>>
    BY <1>4, BelowNone DEF Reduce
  <2>7. ListInv' /\ ScopeInv'
    BY <2>4, <2>6, ListKept, ScopesKept DEF Later
  <2> QED
    BY <1>1, <2>4, <2>5, <2>6, <2>7, BelowNone, Pushed
<1> QED
  BY <1>2, <1>3, <1>4 DEF Selectable

(* `query.name': the chain on the stack gets a node more.                  *)
LEMMA ExtendStep == ASSUME OwnInv, Extend PROVE OwnStep
<1>1. /\ Complete /\ rc = "parsing" /\ HeapInv(heap)
      /\ Top.q \in Nat \ {0} /\ IsQuery(heap, Top.q) /\ SemInv(sem, heap)
  BY TopQuery DEF Extend, Path, OwnInv
<1>2. PICK n \in Attributes, selection \in Selections :
        LET a == Resolve(Top.q, n)
        IN \/ /\ Selectable(a, selection)
              /\ heap' = [heap EXCEPT ![Top.q].links =
                            Append(@, [attr |-> a, owned |-> FALSE])]
              /\ UNCHANGED <<freed, listed, scopes, overflow, sem, rc, client>>
           \/ Fail
  BY DEF Extend, parser
<1> DEFINE a == Resolve(Top.q, n)
<1>3. CASE Fail
  BY <1>1, <1>3, Failed
<1>4. CASE /\ a # 0
           /\ heap' = [heap EXCEPT ![Top.q].links = Append(@, [attr |-> a, owned |-> FALSE])]
           /\ UNCHANGED <<freed, listed, scopes, overflow, sem, rc, client>>
  <2>1. ~TopAttr(Top.q).atomic /\ a = Lookup(TopAttr(Top.q).type, n)
    BY <1>4 DEF Resolve
  <2>2. IsCompoundObject(heap, TopAttr(Top.q).type)
    BY <1>1, <2>1, TopTyped
  <2>3. IsAttr(heap, a) /\ heap[a].sort \in Definable
    BY <1>1, <1>4, <2>1, <2>2, LookupTyped
  <2> HIDE DEF a
  <2>4. HeapInv(heap') /\ Later(heap, heap', {}, {})
    BY <1>1, <1>4, <2>3, Lengthen
  <2>5. SemInv(sem', heap')
    BY <1>1, <1>4, <2>4, SemLater
  <2>6. ListInv' /\ ScopeInv'
    BY <1>4, <2>4, ListKept, ScopesKept DEF Later
  <2> QED
    <3>1. Untaken
      BY <2>4 DEF Untaken, Later
    <3>2. Held' = Held
      BY <1>4 DEF Held
    <3>3. Kept(heap, heap')
      BY <2>4 DEF Later
    <3> QED
      BY <1>1, <1>4, <2>4, <2>5, <2>6, <3>1, <3>2, <3>3, Framed
<1> QED
  BY <1>2, <1>3, <1>4 DEF Selectable

(* An operation on the topmost values, of which args are the operands.     *)
LEMMA OperationStep ==
  ASSUME OwnInv, rc = "parsing", NEW n \in 0..Len(sem), NEW args \in Seq(ItemSet),
         \A k \in DOMAIN args :
           /\ args[k].q \in Nat /\ args[k].q \in HeldAbove(sem, n)
           /\ IsQuery(heap, args[k].q) /\ Unclaimed(heap, args[k].q),
         Operation(Below(n), args)
  PROVE  OwnStep
<1> DEFINE qs == Operands(args)
           scalar == {q \in Range(qs) : FullyScalar(q)}
<1>1. qs \in Seq(Nat) /\ DOMAIN qs = DOMAIN args /\ \A k \in DOMAIN args : qs[k] = args[k].q
  BY DEF Operands
<1>2. CASE Fail
  BY <1>2, Failed
<1>3. CASE Reduce(Below(n), Query(WrappedId, FALSE),
                  Wrapped(Attr("op", TRUE, Range(qs) # scalar, 0, qs, Self)))
  <2>1. (Range(qs) # scalar) \in BOOLEAN
    OBVIOUS
  <2> HIDE DEF qs, scalar
  <2>2. /\ heap' = heap \o Wrapped(Attr("op", TRUE, Range(qs) # scalar, 0, qs, Self))
        /\ sem' = Append(Below(n), Query(WrappedId, FALSE))
        /\ UNCHANGED <<listed, scopes, rc, client>>
    BY <1>3 DEF Reduce
  <2>3. \A k \in DOMAIN qs : /\ IsQuery(heap, qs[k]) /\ Unclaimed(heap, qs[k])
                             /\ qs[k] \in HeldAbove(sem, n)
    BY <1>1
  <2> DEFINE collection == Range(qs) # scalar
  <2>4. /\ collection \in BOOLEAN
        /\ heap' = heap \o Wrapped(Attr("op", TRUE, collection, 0, qs, Self))
    BY <2>1, <2>2
  <2> HIDE DEF collection
  <2> QED
    BY <1>1, <2>2, <2>3, <2>4, WrappedPushed
<1>4. CASE /\ heap' = heap \o Wrapped(Attr("static", TRUE, FALSE, 0, <<>>, Self))
           /\ sem' = Append(Below(n), Query(WrappedId, FALSE))
           /\ UNCHANGED <<listed, scopes, overflow, rc, client>>
  <2>1. <<>> \in Seq(Nat) /\ DOMAIN <<>> = {}
    OBVIOUS
  <2> QED
    BY <1>4, <2>1, WrappedPushed
<1> QED
  BY <1>2, <1>3, <1>4 DEF Operation

(* The operations with one operand, and those with two or three.           *)
LEMMA UnaryStep == ASSUME OwnInv, Unary PROVE OwnStep
<1>1. /\ sem \in Seq(ItemSet) /\ Len(sem) \in Nat \ {0} /\ rc = "parsing"
      /\ Top \in ItemSet /\ Top.q \in Nat \ {0} /\ Top = sem[Len(sem)]
      /\ Holds(Top) = {Top.q} /\ IsQuery(heap, Top.q) /\ Unclaimed(heap, Top.q)
      /\ Operation(Below(1), <<Top>>)
  BY TopQuery DEF Unary
<1>2. 1 \in 0..Len(sem) /\ Top.q \in HeldAbove(sem, 1)
  <2>1. 1 \in 0..Len(sem) /\ 0 \in 0..(1 - 1) /\ Len(sem) - 0 = Len(sem)
    BY <1>1
  <2> QED
    BY <1>1, <2>1, AboveFacts
<1> DEFINE args == <<Top>>
<1>3. args \in Seq(ItemSet) /\ DOMAIN args = {1} /\ args[1] = Top
  BY <1>1
<1>4. Operation(Below(1), args)
  BY <1>1
<1> HIDE DEF args
<1> QED
  BY <1>1, <1>2, <1>3, <1>4, OperationStep

LEMMA EndOperationStep == ASSUME OwnInv, EndOperation PROVE OwnStep
<1>1. /\ sem \in Seq(ItemSet) /\ Len(sem) \in Nat \ {0} /\ rc = "parsing"
      /\ Top \in ItemSet /\ Top.q \in Nat \ {0} /\ Top = sem[Len(sem)]
      /\ Holds(Top) = {Top.q} /\ IsQuery(heap, Top.q) /\ Unclaimed(heap, Top.q)
      /\ IsItem(1, "op") /\ Operation(Below(3), <<Item(2), Top>>)
  BY TopQuery DEF EndOperation
<1>2. IsItem(2, "query")
  BY <1>1, ItemBelow
<1>3. /\ 2 < Len(sem) /\ Item(2) = sem[Len(sem) - 2]
      /\ Item(2) \in ItemSet /\ ItemRefs(heap, Item(2)) /\ Item(2).is = "query"
  BY <1>2, StackItem
<1>4. /\ Item(2).q \in Nat \ {0} /\ Holds(Item(2)) = {Item(2).q}
      /\ IsQuery(heap, Item(2).q) /\ Unclaimed(heap, Item(2).q)
  BY <1>3, ItemFields DEF ItemRefs
<1>5. 3 \in 0..Len(sem) /\ Top.q \in HeldAbove(sem, 3) /\ Item(2).q \in HeldAbove(sem, 3)
  <2>1. 3 \in 0..Len(sem) /\ 0 \in 0..(3 - 1) /\ 2 \in 0..(3 - 1) /\ Len(sem) - 0 = Len(sem)
    BY <1>1, <1>3
  <2> QED
    BY <1>1, <1>3, <1>4, <2>1, AboveFacts
<1> DEFINE args == <<Item(2), Top>>
<1>6. args \in Seq(ItemSet) /\ DOMAIN args = {1, 2} /\ args[1] = Item(2) /\ args[2] = Top
  BY <1>1, <1>3
<1>7. Operation(Below(3), args)
  BY <1>1
<1> HIDE DEF args
<1> QED
  BY <1>1, <1>4, <1>5, <1>6, <1>7, OperationStep

(* Tokens that hold nothing.                                               *)
LEMMA ShiftStep ==
  ASSUME OwnInv, rc = "parsing", NEW it \in ItemSet, ItemRefs(heap, it), After(sem, it),
         Holds(it) = {}, Builds(it) = {}, Shift(it)
  PROVE  OwnStep
<1>1. /\ sem' = Append(Below(0), it) /\ heap' = heap
      /\ UNCHANGED <<listed, scopes, rc, client>> /\ After(Below(0), it)
  BY BelowNone DEF Shift
<1>2. HeapInv(heap') /\ Later(heap, heap', {}, {}) /\ ItemRefs(heap', it)
  BY <1>1, LaterSelf DEF OwnInv
<1>3. ListInv' /\ ScopeInv'
  BY <1>1, <1>2, ListKept, ScopesKept DEF Later
<1> QED
  BY <1>1, <1>2, <1>3, BelowNone, Pushed

(* Their steps.                                                            *)
LEMMA TokenSteps ==
  ASSUME OwnInv, \/ Operator \/ Call \/ Open
                 \/ \E n \in Names \cup {0}, bind \in BOOLEAN : Name(n, bind)
                 \/ IsItem(0, "open") /\ Shift([is |-> "colon", c |-> 0])
  PROVE  OwnStep
<1>1. CASE Operator
  <2>1. LET it == [is |-> "op"]
        IN it \in ItemSet /\ ItemRefs(heap, it) /\ Holds(it) = {} /\ Builds(it) = {}
    BY DEF ItemSet, ItemRefs, Holds, Builds
  <2>2. rc = "parsing" /\ After(sem, [is |-> "op"])
    BY <1>1, TopQuery DEF Operator, After
  <2> QED
    BY <1>1, <2>1, <2>2, ShiftStep DEF Operator
<1>2. CASE Call
  <2> DEFINE it == [is |-> "call", args |-> <<>>]
  <2>1. it \in ItemSet /\ Holds(it) = {} /\ Builds(it) = {}
    <3>1. <<>> \in Seq(Nat) /\ DOMAIN <<>> = {}
      OBVIOUS
    <3>2. it \in [is : {"call"}, args : Seq(Nat)] /\ it.is = "call" /\ it.args = <<>>
      BY <3>1
    <3> QED
      BY <3>1, <3>2 DEF ItemSet, Holds, Builds
  <2>2. ItemRefs(heap, it) /\ After(sem, it)
    BY <2>1 DEF ItemRefs, After
  <2> QED
    BY <1>2, <2>1, <2>2, ShiftStep DEF Call, Starts
<1>3. CASE Open
  <2> DEFINE it == [is |-> "open", q |-> 0]
  <2>1. /\ it \in ItemSet /\ ItemRefs(heap, it) /\ Holds(it) = {} /\ Builds(it) = {}
        /\ After(sem, it)
    BY DEF ItemSet, ItemRefs, Holds, Builds, After
  <2> QED
    BY <1>3, <2>1, ShiftStep DEF Open, Starts
<1>4. ASSUME NEW n \in Names \cup {0}, NEW bind \in BOOLEAN, Name(n, bind)
      PROVE  OwnStep
  <2> DEFINE it == [is |-> "name", n |-> n, bind |-> bind]
  <2>1. it \in ItemSet /\ ItemRefs(heap, it) /\ Holds(it) = {} /\ Builds(it) = {}
    BY DEF ItemSet, ItemRefs, Holds, Builds
  <2>2. IsItem(0, "open") \/ IsItem(0, "def")
    BY <1>4 DEF Name
  <2>3. rc = "parsing" /\ After(sem, it)
    <3>1. rc = "parsing" /\ Len(sem) \in Nat /\ 0 < Len(sem) /\ Item(0) = sem[Len(sem) - 0]
      BY <2>2, StackItem
    <3> QED
      BY <2>2, <3>1 DEF After, IsItem
  <2> HIDE DEF it
  <2> QED
    BY <1>4, <2>1, <2>3, ShiftStep DEF Name, it
<1>5. CASE IsItem(0, "open") /\ Shift([is |-> "colon", c |-> 0])
  <2> DEFINE it == [is |-> "colon", c |-> 0]
  <2>1. it \in ItemSet /\ ItemRefs(heap, it) /\ Holds(it) = {} /\ Builds(it) = {}
    BY DEF ItemSet, ItemRefs, Holds, Builds
  <2>2. rc = "parsing" /\ After(sem, it)
    <3>1. rc = "parsing" /\ Len(sem) \in Nat /\ 0 < Len(sem) /\ Item(0) = sem[Len(sem) - 0]
      BY <1>5, StackItem
    <3> QED
      BY <1>5, <3>1 DEF After, IsItem
  <2> QED
    BY <1>5, <2>1, <2>2, ShiftStep
<1> QED
  BY <1>1, <1>2, <1>3, <1>4, <1>5

(* An argument joins the list, ...                                         *)
LEMMA EndArgumentStep == ASSUME OwnInv, EndArgument PROVE OwnStep
<1>1. /\ sem \in Seq(ItemSet) /\ Len(sem) \in Nat \ {0} /\ rc = "parsing"
      /\ Top \in ItemSet /\ Top.q \in Nat \ {0} /\ Top = sem[Len(sem)]
      /\ Holds(Top) = {Top.q} /\ IsQuery(heap, Top.q) /\ Unclaimed(heap, Top.q)
      /\ IsItem(1, "call")
  BY TopQuery DEF EndArgument
<1>2. /\ 1 < Len(sem) /\ Item(1) = sem[Len(sem) - 1]
      /\ Item(1) \in ItemSet /\ ItemRefs(heap, Item(1)) /\ Item(1).is = "call"
  BY <1>1, StackItem
<1>3. /\ Item(1).args \in Seq(Nat)
      /\ Holds(Item(1)) = {Item(1).args[k] : k \in DOMAIN Item(1).args}
  BY <1>2, ItemFields
<1>4. /\ 2 \in 0..Len(sem) /\ Holds(Top) \subseteq HeldAbove(sem, 2)
      /\ Holds(Item(1)) \subseteq HeldAbove(sem, 2)
  <2>1. 2 \in 0..Len(sem) /\ 0 \in 0..(2 - 1) /\ 1 \in 0..(2 - 1) /\ Len(sem) - 0 = Len(sem)
    BY <1>1, <1>2
  <2> QED
    BY <1>1, <1>2, <2>1, AboveFacts
<1> DEFINE args == <<Top.q>> \o Item(1).args
           it == [is |-> "call", args |-> args]
<1>5. /\ args \in Seq(Nat)
      /\ \A k \in DOMAIN args : args[k] = Top.q \/ \E j \in DOMAIN Item(1).args :
                                                       args[k] = Item(1).args[j]
  <2>1. <<Top.q>> \in Seq(Nat) /\ Len(<<Top.q>>) = 1 /\ <<Top.q>>[1] = Top.q
    BY <1>1
  <2>2. /\ args \in Seq(Nat) /\ DOMAIN args = 1..(1 + Len(Item(1).args))
        /\ Len(Item(1).args) \in Nat /\ DOMAIN Item(1).args = 1..Len(Item(1).args)
        /\ \A k \in DOMAIN args : args[k] = IF k <= 1 THEN Top.q ELSE Item(1).args[k - 1]
    BY <1>3, <2>1
  <2> HIDE DEF args
  <2>3. \A k \in DOMAIN args : k <= 1 \/ k - 1 \in DOMAIN Item(1).args
    BY <2>2
  <2> QED
    BY <2>2, <2>3
<1> HIDE DEF args
<1>6. it \in ItemSet /\ it.is = "call" /\ it.args = args
  BY <1>5 DEF ItemSet
<1>7. Holds(it) \subseteq Holds(Top) \cup Holds(Item(1)) /\ Builds(it) = {}
  BY <1>1, <1>3, <1>5, <1>6 DEF Holds, Builds
<1> HIDE DEF it
<1>8. ItemRefs(heap, it)
  BY <1>1, <1>2, <1>6, <1>7 DEF ItemRefs
<1>9. After(Below(2), it)
  BY <1>6 DEF After
<1>10. /\ heap' = heap \o <<>> /\ sem' = Append(Below(2), it)
       /\ UNCHANGED <<listed, scopes, rc, client>>
  BY DEF EndArgument, Reduce, it, args
<1>11. heap' = heap
  BY <1>10 DEF OwnInv, HeapInv
<1>12. HeapInv(heap') /\ Later(heap, heap', {}, {}) /\ ItemRefs(heap', it)
  BY <1>8, <1>11, LaterSelf DEF OwnInv
<1>13. ListInv' /\ ScopeInv'
  BY <1>10, <1>12, ListKept, ScopesKept DEF Later
<1> QED
  BY <1>1, <1>4, <1>6, <1>7, <1>9, <1>10, <1>12, <1>13, Pushed

(* ... and the list becomes the definition data of the call.               *)
LEMMA EndCallStep == ASSUME OwnInv, EndCall PROVE OwnStep
<1>1. /\ sem \in Seq(ItemSet) /\ Len(sem) \in Nat /\ 0 < Len(sem) /\ rc = "parsing"
      /\ Item(0) = sem[Len(sem) - 0] /\ Item(0) \in ItemSet
      /\ ItemRefs(heap, Item(0)) /\ Item(0).is = "call"
  BY StackItem DEF EndCall
<1>2. Top = Item(0) /\ Len(sem) - 0 = Len(sem)
  BY <1>1 DEF Top, Last
<1>3. /\ Top.args \in Seq(Nat)
      /\ Holds(Top) = {Top.args[k] : k \in DOMAIN Top.args}
  BY <1>1, <1>2, ItemFields
<1>4. 1 \in 0..Len(sem) /\ Holds(Top) \subseteq HeldAbove(sem, 1)
  <2>1. 1 \in 0..Len(sem) /\ 0 \in 0..(1 - 1)
    BY <1>1
  <2> QED
    BY <1>1, <1>2, <2>1, AboveFacts
<1> DEFINE data == Top.args
<1>5. \A k \in DOMAIN data : /\ IsQuery(heap, data[k]) /\ Unclaimed(heap, data[k])
                             /\ data[k] \in HeldAbove(sem, 1)
  BY <1>1, <1>2, <1>3, <1>4 DEF ItemRefs
<1>6. CASE Reduce(Below(1), Query(WrappedId, FALSE),
                  Wrapped(Attr("function", TRUE, FALSE, 0, data, Self)))
  <2>1. /\ heap' = heap \o Wrapped(Attr("function", TRUE, FALSE, 0, data, Self))
        /\ sem' = Append(Below(1), Query(WrappedId, FALSE))
        /\ UNCHANGED <<listed, scopes, rc, client>> /\ data \in Seq(Nat)
    BY <1>3, <1>6 DEF Reduce
  <2> HIDE DEF data
  <2> QED
    BY <1>1, <1>4, <1>5, <2>1, WrappedPushed
<1>7. CASE Stop("error") /\ UNCHANGED <<heap, listed>>
  <2>1. HeapInv(heap') /\ Kept(heap, heap')
    BY <1>7, KeptSelf DEF OwnInv
  <2> QED
    BY <1>1, <1>7, <2>1, ListKept, NothingTaken, Stopped
<1> QED
  BY <1>6, <1>7 DEF EndCall

(* The stack of scopes has a top while the parser is at work.              *)
LEMMA ScopeTyped ==
  ASSUME OwnInv, rc = "parsing"
  PROVE  /\ scopes \in Seq([compound : Nat, pos : Nat, bound : BOOLEAN])
         /\ Len(scopes) \in Nat \ {0} /\ Scope = scopes[Len(scopes)]
         /\ Scope \in [compound : Nat, pos : Nat, bound : BOOLEAN]
         /\ IsCompoundObject(heap, Scope.compound)
<1> DEFINE E == [compound : Nat, pos : Nat, bound : BOOLEAN]
<1>1. scopes # <<>> /\ scopes \in Seq(E)
  BY DEF OwnInv, ScopeInv
<1>2. Scope = scopes[Len(scopes)]
  BY DEF Scope, Last
<1> HIDE DEF E
<1>3. Len(scopes) \in DOMAIN scopes /\ Len(scopes) \in Nat \ {0} /\ scopes[Len(scopes)] \in E
  BY <1>1
<1> QED
  BY <1>1, <1>2, <1>3 DEF OwnInv, ScopeInv, E

(* A scope on top of some of those there are.                              *)
LEMMA ScopesPushed ==
  ASSUME OwnInv, rc = "parsing", NEW c \in Nat, IsCompoundObject(heap', c), Kept(heap, heap'),
         NEW low \in Seq([compound : Nat, pos : Nat, bound : BOOLEAN]),
         \A i \in DOMAIN low : i \in DOMAIN scopes /\ low[i] = scopes[i],
         NEW pos \in Nat, NEW bound \in BOOLEAN,
         scopes' = Append(low, [compound |-> c, pos |-> pos, bound |-> bound])
  PROVE  ScopeInv'
<1> DEFINE E == [compound : Nat, pos : Nat, bound : BOOLEAN]
           e == [compound |-> c, pos |-> pos, bound |-> bound]
<1>1. e \in E /\ e.compound = c
  OBVIOUS
<1> HIDE DEF E, e
<1>2. low \in Seq(E) /\ scopes' = Append(low, e)
  BY DEF E, e
<1>3. LET sn == Append(low, e)
      IN /\ sn \in Seq(E) /\ sn # <<>>
         /\ DOMAIN sn = DOMAIN low \cup {Len(low) + 1}
         /\ \A k \in DOMAIN low : sn[k] = low[k]
         /\ sn[Len(low) + 1] = e
  BY <1>1, <1>2, AppendFacts
<1>4. \A k \in DOMAIN low : IsCompoundObject(heap', low[k].compound)
  BY ZenonT(40) DEF OwnInv, ScopeInv, Kept, IsCompoundObject
<1>5. \A k \in DOMAIN scopes' : IsCompoundObject(heap', scopes'[k].compound)
  BY <1>1, <1>2, <1>3, <1>4
<1> QED
  BY <1>2, <1>3, <1>5 DEF ScopeInv, E

(* All scopes but the last, or all of them.                                *)
LEMMA FrontOf ==
  ASSUME NEW E, NEW s \in Seq(E), s # <<>>
  PROVE  /\ Front(s) \in Seq(E) /\ Len(Front(s)) = Len(s) - 1 /\ Len(s) \in Nat \ {0}
         /\ DOMAIN Front(s) = 1..(Len(s) - 1) /\ DOMAIN s = 1..Len(s)
         /\ \A i \in DOMAIN Front(s) : i \in DOMAIN s /\ Front(s)[i] = s[i]
<1> DEFINE one == 1
           low == Front(s)
<1>1. one \in 0..Len(s) /\ Len(s) \in Nat \ {0} /\ low = SubSeq(s, 1, Len(s) - one)
  BY DEF Front
<1> HIDE DEF one, low
<1>2. /\ low \in Seq(E) /\ Len(low) = Len(s) - one
      /\ DOMAIN low = 1..(Len(s) - one) /\ DOMAIN s = 1..Len(s)
      /\ \A i \in DOMAIN low : low[i] = s[i] /\ i \in DOMAIN s
  BY <1>1, PrefixIs
<1> QED
  BY <1>1, <1>2 DEF one, low

(* The brace after a query pushes a scope.                                 *)
LEMMA OpenOnStep == ASSUME OwnInv, OpenOn PROVE OwnStep
<1>1. /\ sem \in Seq(ItemSet) /\ Len(sem) \in Nat \ {0} /\ rc = "parsing"
      /\ Top \in ItemSet /\ Top.q \in Nat \ {0} /\ Top = sem[Len(sem)]
      /\ Holds(Top) = {Top.q} /\ IsQuery(heap, Top.q) /\ Unclaimed(heap, Top.q)
      /\ HeapInv(heap)
  BY TopQuery DEF OpenOn, Path, OwnInv
<1>2. CASE Fail
  BY <1>1, <1>2, Failed
<1>3. CASE /\ ~TopAttr(Top.q).atomic
           /\ scopes' = Push(TopAttr(Top.q).type)
           /\ sem' = Append(Below(1), [is |-> "open", q |-> Top.q])
           /\ UNCHANGED <<heap, freed, listed, overflow, rc, client>>
  <2> DEFINE it == [is |-> "open", q |-> Top.q]
             c == TopAttr(Top.q).type
  <2>1. IsCompoundObject(heap, c) /\ c \in Nat
    BY <1>1, <1>3, TopTyped DEF AttrObject
  <2>2. 1 \in 0..Len(sem) /\ Holds(Top) \subseteq HeldAbove(sem, 1)
    <3>1. 1 \in 0..Len(sem) /\ 0 \in 0..(1 - 1) /\ Len(sem) - 0 = Len(sem)
      BY <1>1
    <3> QED
      BY <1>1, <3>1, AboveFacts
  <2>3. /\ it \in ItemSet /\ Holds(it) = {Top.q} /\ Builds(it) = {} /\ ItemRefs(heap, it)
        /\ After(Below(1), it)
    BY <1>1 DEF ItemSet, ItemRefs, Holds, Builds, After
  <2>4. HeapInv(heap') /\ Later(heap, heap', {}, {}) /\ heap' = heap
    BY <1>1, <1>3, LaterSelf
  <2>5. ScopeInv'
    <3>1. Kept(heap, heap') /\ IsCompoundObject(heap', c)
      BY <2>1, <2>4 DEF Later
    <3>2. scopes' = Append(scopes, [compound |-> c, pos |-> 0, bound |-> FALSE])
      BY <1>3 DEF Push
    <3>3. 0 \in Nat /\ FALSE \in BOOLEAN
      OBVIOUS
    <3> HIDE DEF c
    <3> QED
      BY <1>1, <2>1, <3>1, <3>2, <3>3, ScopeTyped, ScopesPushed
  <2>6. ListInv'
    BY <1>3, <2>4, ListKept DEF Later
  <2> HIDE DEF it, c
  <2> QED
    BY <1>1, <1>3, <2>2, <2>3, <2>4, <2>5, <2>6, Pushed DEF it
<1> QED
  BY <1>2, <1>3 DEF OpenOn

(* The compound of the definitions is pushed once more for the filter.     *)
LEMMA ColonStep == ASSUME OwnInv, Colon PROVE OwnStep
<1>1. CASE IsItem(0, "open") /\ Shift([is |-> "colon", c |-> 0])
  BY <1>1, TokenSteps
<1>2. CASE /\ IsItem(0, "def")
           /\ scopes' = IF Full THEN scopes ELSE Push(Top.c)
           /\ sem' = Append(Below(1), [is |-> "colon", c |-> Top.c])
           /\ UNCHANGED <<heap, freed, listed, rc, client>>
  <2>1. /\ sem \in Seq(ItemSet) /\ Len(sem) \in Nat /\ 0 < Len(sem) /\ rc = "parsing"
        /\ Item(0) = sem[Len(sem) - 0] /\ Item(0) \in ItemSet
        /\ ItemRefs(heap, Item(0)) /\ Item(0).is = "def"
    BY <1>2, StackItem
  <2>2. Top = Item(0) /\ Len(sem) - 0 = Len(sem)
    BY <2>1 DEF Top, Last
  <2>3. Top.c \in Nat \ {0} /\ Builds(Top) = {Top.c} /\ IsCompoundObject(heap, Top.c)
    <3>1. Top.c \in Nat /\ Builds(Top) = {Top.c} \ {0}
      BY <2>1, <2>2, ItemFields
    <3>2. Top.c # 0
      BY <2>1, <2>2 DEF ItemRefs
    <3> QED
      BY <2>1, <2>2, <3>1, <3>2 DEF ItemRefs
  <2>4. 1 \in 0..Len(sem) /\ Builds(Top) \subseteq BuiltAbove(sem, 1)
    <3>1. 1 \in 0..Len(sem) /\ 0 \in 0..(1 - 1)
      BY <2>1
    <3> QED
      BY <2>1, <2>2, <3>1, AboveFacts
  <2> DEFINE it == [is |-> "colon", c |-> Top.c]
  <2>5. it \in ItemSet /\ Holds(it) = {} /\ Builds(it) = {Top.c} /\ ItemRefs(heap, it)
    <3>1. it \in ItemSet /\ it.is = "colon" /\ it.c = Top.c
      BY <2>3 DEF ItemSet
    <3>2. Holds(it) = {} /\ Builds(it) = {Top.c}
      BY <2>3, <3>1 DEF Holds, Builds
    <3> QED
      BY <2>1, <2>2, <2>3, <3>1, <3>2 DEF ItemRefs
  <2>6. After(Below(1), it)
    <3>1. IsItem(1, "open")
      BY <1>2, ItemBelow
    <3>2. 1 < Len(sem) /\ Item(1).is = "open" /\ Item(1) = sem[Len(sem) - 1]
      BY <3>1, StackItem
    <3>3. /\ Len(Below(1)) = Len(sem) - 1 /\ DOMAIN Below(1) = 1..(Len(sem) - 1)
          /\ \A i \in DOMAIN Below(1) : Below(1)[i] = sem[i]
      <4>1. Below(1) = SubSeq(sem, 1, Len(sem) - 1)
        BY DEF Below
      <4> QED
        BY <2>1, <2>4, <4>1, PrefixIs
    <3>4. Len(Below(1)) \in DOMAIN Below(1) /\ Below(1) # <<>>
      BY <2>1, <3>2, <3>3
    <3> QED
      BY <3>2, <3>3, <3>4 DEF After
  <2>7. HeapInv(heap') /\ Later(heap, heap', {}, {}) /\ heap' = heap
    BY <1>2, LaterSelf DEF OwnInv
  <2>8. ScopeInv'
    <3>1. CASE Full
      BY <1>2, <2>7, <3>1, ScopesKept DEF Later
    <3>2. CASE ~Full
      <4>1. scopes' = Append(scopes, [compound |-> Top.c, pos |-> 0, bound |-> FALSE])
        BY <1>2, <3>2 DEF Push
      <4>2. Kept(heap, heap') /\ IsCompoundObject(heap', Top.c)
        BY <2>3, <2>7 DEF Later
      <4>3. 0 \in Nat /\ FALSE \in BOOLEAN
        OBVIOUS
      <4> QED
        BY <2>1, <2>3, <4>1, <4>2, <4>3, ScopeTyped, ScopesPushed
    <3> QED
      BY <3>1, <3>2
  <2>9. ListInv'
    BY <1>2, <2>7, ListKept DEF Later
  <2> HIDE DEF it
  <2> QED
    BY <1>2, <2>1, <2>3, <2>4, <2>5, <2>6, <2>7, <2>8, <2>9, Pushed DEF it
<1> QED
  BY <1>1, <1>2 DEF Colon

(* Changing one element of a sequence and adding others at its end         *)
(* commute.                                                                *)
LEMMA ChangeThenAdd ==
  ASSUME NEW E, NEW s \in Seq(E), NEW i \in DOMAIN s, NEW e \in E, NEW b \in E
  PROVE  [s EXCEPT ![i] = e] \o <<b>> = [(s \o <<b>>) EXCEPT ![i] = e]
<1> DEFINE s1 == [s EXCEPT ![i] = e]
           s2 == s \o <<b>>
<1>1. Len(s) \in Nat /\ DOMAIN s = 1..Len(s)
  OBVIOUS
<1>2. /\ s1 \in Seq(E) /\ Len(s1) = Len(s) /\ s1[i] = e
      /\ \A k \in 1..Len(s) : k # i => s1[k] = s[k]
  BY <1>1
<1>3. /\ s2 \in Seq(E) /\ DOMAIN s2 = 1..(Len(s) + 1) /\ s2[Len(s) + 1] = b
      /\ \A k \in 1..Len(s) : s2[k] = s[k]
  BY <1>1
<1> HIDE DEF s1, s2
<1>4. s1 \o <<b>> = [k \in 1..(Len(s) + 1) |-> IF k <= Len(s) THEN s1[k] ELSE b]
  BY <1>1, <1>2, SMTT(30)
<1>5. [s2 EXCEPT ![i] = e] = [k \in 1..(Len(s) + 1) |-> IF k = i THEN e ELSE s2[k]]
  BY <1>1, <1>3
<1>6. \A k \in 1..(Len(s) + 1) : (IF k <= Len(s) THEN s1[k] ELSE b)
                                 = (IF k = i THEN e ELSE s2[k])
  BY <1>1, <1>2, <1>3
<1>7. s1 \o <<b>> = [s2 EXCEPT ![i] = e]
  BY <1>4, <1>5, <1>6
<1> QED
  BY <1>7 DEF s1, s2

LEMMA AddThenChange ==
  ASSUME NEW E, NEW s \in Seq(E), NEW a \in E, NEW b \in E, NEW e \in E
  PROVE  [(Append(s, a) \o <<b>>) EXCEPT ![Len(s) + 1] = e] = s \o <<e, b>>
<1> DEFINE sa == Append(s, a)
           new == Len(s) + 1
<1>1. sa \in Seq(E) /\ new \in DOMAIN sa /\ [sa EXCEPT ![new] = e] = Append(s, e)
  <2>1. /\ Len(s) \in Nat /\ sa \in Seq(E) /\ DOMAIN sa = 1..new /\ sa[new] = a
        /\ \A k \in 1..Len(s) : sa[k] = s[k]
    OBVIOUS
  <2>2. Append(s, e) = [k \in 1..new |-> IF k = new THEN e ELSE s[k]]
    <3> DEFINE se == Append(s, e)
    <3>1. /\ se \in Seq(E) /\ DOMAIN se = 1..new /\ se[new] = e
          /\ \A k \in 1..Len(s) : se[k] = s[k]
      OBVIOUS
    <3>2. \A k \in 1..new : k = new \/ k \in 1..Len(s)
      OBVIOUS
    <3> HIDE DEF se, new
    <3>3. se = [k \in 1..new |-> se[k]]
      BY <3>1
    <3>4. \A k \in 1..new : se[k] = IF k = new THEN e ELSE s[k]
      BY <3>1, <3>2
    <3> QED
      BY <3>3, <3>4 DEF se
  <2> HIDE DEF sa
  <2>3. [sa EXCEPT ![new] = e] = [k \in 1..new |-> IF k = new THEN e ELSE sa[k]]
    BY <2>1
  <2>4. \A k \in 1..new : (IF k = new THEN e ELSE sa[k]) = (IF k = new THEN e ELSE s[k])
    BY <2>1
  <2>5. new \in 1..new
    BY <2>1
  <2> QED
    BY <2>1, <2>2, <2>3, <2>4, <2>5
<1>2. Append(s, e) \o <<b>> = s \o <<e, b>>
  OBVIOUS
<1> HIDE DEF sa, new
<1>3. [sa EXCEPT ![new] = e] \o <<b>> = [(sa \o <<b>>) EXCEPT ![new] = e]
  BY <1>1, ChangeThenAdd, SMTT(30)
<1> QED
  BY <1>1, <1>2, <1>3 DEF sa, new

(* The attribute number self, that stands for a query in a virtual compound. *)
Stands(obj, q, self) ==
  /\ obj \in AttrObject /\ obj.data = <<q>> /\ obj.sort \in {"forward", "bound"}
  /\ obj.type # 0 => IsCompoundObject(heap, obj.type)
  /\ obj.sort = "bound" => (~obj.atomic => obj.type # 0) /\ obj.top = self
  /\ obj.sort = "forward" => /\ IsAttr(heap, obj.top) /\ heap[obj.top].sort # "forward"
                             /\ obj.top \in Claims(heap, q) \/ Settled(heap, obj.top)

(* It is an attribute for that query.                                      *)
LEMMA DefinitionTyped ==
  ASSUME HeapInv(heap), NEW q, IsQuery(heap, q), NEW self \in Nat, NEW bind \in BOOLEAN
  PROVE  Stands(Definition(self, q, bind), q, self)
<1> DEFINE last == Last(heap[q].links).attr
           top == TopAttr(q)
<1>1. /\ IsAttr(heap, last) /\ IsAttr(heap, heap[last].top)
      /\ heap[heap[last].top].sort # "forward"
      /\ heap[last].top \in Claims(heap, q) \/ Settled(heap, heap[last].top)
      /\ top \in AttrObject
      /\ top.type # 0 => IsCompoundObject(heap, top.type)
      /\ ~top.atomic => top.type # 0
  BY TopTyped
<1>2. q \in Nat /\ heap[last].top \in Nat
  BY <1>1 DEF IsQuery, IsAttr, HeapInv
<1>3. /\ top.atomic \in BOOLEAN /\ top.static \in BOOLEAN /\ top.type \in Nat
      /\ <<q>> \in Seq(Nat)
  BY <1>1, <1>2 DEF AttrObject
<1> HIDE DEF last, top
<1>4. CASE bind
  <2> DEFINE obj == [[kind |-> "attr", sort |-> "bound", atomic |-> top.atomic,
                      collection |-> FALSE, static |-> "bound" = "static",
                      type |-> top.type, data |-> <<q>>, top |-> self]
                       EXCEPT !.static = top.static]
  <2>1. Definition(self, q, bind) = obj
    BY <1>4 DEF Definition, Bound, Attr, top
  <2>2. /\ obj.kind = "attr" /\ obj.sort = "bound" /\ obj.data = <<q>> /\ obj.top = self
        /\ obj.type = top.type /\ obj.atomic = top.atomic
    OBVIOUS
  <2>3. obj \in AttrObject
    BY <1>3 DEF AttrObject, Sorts
  <2> HIDE DEF obj
  <2> QED
    BY <1>1, <1>4, <2>1, <2>2, <2>3 DEF Stands
<1>5. CASE ~bind
  <2> DEFINE scalar == FullyScalar(q)
             obj == [kind |-> "attr", sort |-> "forward", atomic |-> top.atomic,
                     collection |-> ~scalar, static |-> "forward" = "static",
                     type |-> 0, data |-> <<q>>, top |-> heap[last].top]
  <2>1. Definition(self, q, bind) = obj
    BY <1>5 DEF Definition, Forwarding, Attr, top, last
  <2> HIDE DEF scalar
  <2>2. /\ obj.kind = "attr" /\ obj.sort = "forward" /\ obj.data = <<q>>
        /\ obj.top = heap[last].top /\ obj.type = 0
    OBVIOUS
  <2>3. obj \in AttrObject
    BY <1>2, <1>3 DEF AttrObject, Sorts
  <2> HIDE DEF obj
  <2> QED
    BY <1>1, <1>5, <2>1, <2>2, <2>3 DEF Stands
<1> QED
  BY <1>4, <1>5

(* hq is hp with such an attribute, which claims the query.                *)
GrownBy(hp, hq, q, self, obj) ==
  /\ HeapInv(hq) /\ Later(hp, hq, {q}, {}) /\ obj \in Object
  /\ self \in Nat \ {0} /\ self \notin DOMAIN hp
  /\ DOMAIN hq = DOMAIN hp \cup {self} /\ Len(hq) = self
  /\ hq[self] = obj /\ \A o \in DOMAIN hp : hq[o] = hp[o]
  /\ IsAttr(hq, self) /\ Unclaimed(hq, self) /\ hq[self].sort \in Definable

LEMMA GrowByDefinition ==
  ASSUME NEW q, IsQuery(heap, q), Unclaimed(heap, q),
         NEW hp, HeapInv(hp), Later(heap, hp, {}, {}),
         NEW self, self = Len(hp) + 1, NEW obj, Stands(obj, q, self),
         NEW hq, hq = hp \o <<obj>>
  PROVE  GrownBy(hp, hq, q, self, obj)
<1>1. self \in Nat /\ self \notin DOMAIN hp
  BY DEF HeapInv
<1>2. /\ obj \in AttrObject /\ obj.kind = "attr" /\ obj.data = <<q>>
      /\ obj.sort \in {"forward", "bound"}
      /\ obj.type # 0 => IsCompoundObject(heap, obj.type)
      /\ obj.sort = "bound" => (~obj.atomic => obj.type # 0) /\ obj.top = self
      /\ obj.sort = "forward" => /\ IsAttr(heap, obj.top) /\ heap[obj.top].sort # "forward"
                                 /\ obj.top \in Claims(heap, q) \/ Settled(heap, obj.top)
  BY DEF Stands, AttrObject
<1>3. /\ obj.sort = "forward" =>
           /\ IsAttr(hp, obj.top) /\ hp[obj.top].sort # "forward" /\ obj.top # self
           /\ obj.top \in Claims(hp, q) \/ Settled(hp, obj.top)
      /\ obj.type # 0 => IsCompoundObject(hp, obj.type)
      /\ IsQuery(hp, q) /\ Unclaimed(hp, q)
  BY <1>1, <1>2 DEF Later, Kept, Settled, IsAttr, IsCompoundObject, IsQuery
<1> DEFINE data == obj.data
<1>4. data = <<q>> /\ DOMAIN data = {1} /\ data[1] = q /\ Len(data) = 1
  BY <1>2
<1> HIDE DEF data
<1>5. /\ \A k \in DOMAIN data : IsQuery(hp, data[k]) /\ Unclaimed(hp, data[k])
      /\ {data[k] : k \in DOMAIN data} = {q}
  BY <1>3, <1>4
<1>6. /\ obj.top = Len(hp) + 1 \/ (IsAttr(hp, obj.top) /\ hp[obj.top].sort # "forward")
      /\ obj.sort # "forward" => obj.top = Len(hp) + 1
      /\ obj.sort = "forward" => obj.top # Len(hp) + 1
      /\ obj.sort = "forward" => \/ Settled(hp, obj.top)
                                 \/ \E k \in DOMAIN obj.data : obj.top \in Claims(hp, obj.data[k])
      /\ obj.sort # "forward" /\ ~obj.atomic => obj.type # 0
      /\ obj.sort = "bound" => Len(obj.data) = 1
      /\ obj.sort = "product" => obj.type # 0 /\ Unbuilt(hp, obj.type)
  BY <1>2, <1>3, <1>4 DEF data
<1>7. Typed(obj) = {} /\ obj \in Object /\ obj.sort \in Definable
  BY <1>2 DEF Typed, Object, Definable
<1>8. /\ HeapInv(hq)
      /\ Later(hp, hq, {obj.data[k] : k \in DOMAIN obj.data}, Typed(obj))
      /\ self \in Nat \ {0} /\ self \notin DOMAIN hp
      /\ DOMAIN hq = DOMAIN hp \cup {self} /\ Len(hq) = self
      /\ hq[self] = obj /\ \A o \in DOMAIN hp : hq[o] = hp[o]
      /\ IsAttr(hq, self) /\ Unclaimed(hq, self)
  <2>1. \A k \in DOMAIN obj.data : IsQuery(hp, obj.data[k]) /\ Unclaimed(hp, obj.data[k])
    BY <1>5 DEF data
  <2> QED
    BY ZenonT(40), <1>2, <1>3, <1>6, <2>1, GrowByAttr
<1> QED
  BY <1>2, <1>5, <1>7, <1>8 DEF data, GrownBy

(* A new virtual compound joins the context's list.                        *)
LEMMA ListGrown ==
  ASSUME OwnInv, Kept(heap, heap'), IsCompoundObject(heap', Self), listed' = Append(listed, Self)
  PROVE  ListInv'
<1>1. Self \in Nat /\ Self \notin DOMAIN heap
  BY DEF OwnInv, HeapInv, Self
<1>2. listed \in Seq(Nat)
  BY DEF OwnInv, ListInv
<1>3. LET l == Append(listed, Self)
      IN /\ l \in Seq(Nat)
         /\ DOMAIN l = DOMAIN listed \cup {Len(listed) + 1} /\ Len(listed) + 1 \notin DOMAIN listed
         /\ \A k \in DOMAIN listed : l[k] = listed[k]
         /\ l[Len(listed) + 1] = Self
  BY <1>1, <1>2, AppendFacts
<1>4. \A i \in DOMAIN listed : listed[i] \in DOMAIN heap /\ IsCompoundObject(heap', listed[i])
  BY DEF OwnInv, ListInv, Kept, IsCompoundObject
<1>5. \A i, j \in DOMAIN listed' : listed'[i] = listed'[j] => i = j
  BY <1>1, <1>3, <1>4 DEF OwnInv, ListInv
<1> QED
  BY <1>3, <1>4, <1>5 DEF ListInv

(* A definition: the query on the top, its name below it, and below that   *)
(* what it belongs to.                                                     *)
LEMMA DefinitionItems ==
  ASSUME OwnInv, Complete, IsItem(1, "name")
  PROVE  /\ sem \in Seq(ItemSet) /\ Len(sem) \in Nat \ {0} /\ rc = "parsing"
         /\ Top.q \in Nat \ {0} /\ IsQuery(heap, Top.q) /\ Unclaimed(heap, Top.q)
         /\ 2 \in 0..Len(sem) /\ {Top.q} \subseteq HeldAbove(sem, 2)
         /\ Item(1).n \in Names \cup {0} /\ Item(1).bind \in BOOLEAN
         /\ Below(2) # <<>> /\ Last(Below(2)) = Item(2) /\ Item(2) = Below(2)[Len(Below(2))]
         /\ IsItem(2, "open") \/ IsItem(2, "def")
<1>1. /\ sem \in Seq(ItemSet) /\ Len(sem) \in Nat \ {0} /\ rc = "parsing"
      /\ Top \in ItemSet /\ Top.q \in Nat \ {0} /\ Top = sem[Len(sem)]
      /\ Holds(Top) = {Top.q} /\ IsQuery(heap, Top.q) /\ Unclaimed(heap, Top.q)
  BY TopQuery
<1>2. Item(1) \in ItemSet /\ Item(1).is = "name"
  BY StackItem
<1>3. Item(1).n \in Names \cup {0} /\ Item(1).bind \in BOOLEAN
  BY <1>2, ItemFields
<1>4. IsItem(2, "open") \/ IsItem(2, "def")
  BY ItemBelow
<1>5. 2 < Len(sem) /\ Item(2) = sem[Len(sem) - 2]
  BY <1>4, StackItem
<1>6. 2 \in 0..Len(sem) /\ {Top.q} \subseteq HeldAbove(sem, 2)
  <2>1. 2 \in 0..Len(sem) /\ 0 \in 0..(2 - 1) /\ Len(sem) - 0 = Len(sem)
    BY <1>1, <1>5
  <2> QED
    BY <1>1, <2>1, AboveFacts
<1>7. /\ Below(2) \in Seq(ItemSet) /\ Len(Below(2)) = Len(sem) - 2
      /\ DOMAIN Below(2) = 1..(Len(sem) - 2)
      /\ \A i \in DOMAIN Below(2) : Below(2)[i] = sem[i]
  <2>1. Below(2) = SubSeq(sem, 1, Len(sem) - 2)
    BY DEF Below
  <2> QED
    BY <1>1, <1>6, <2>1, PrefixIs
<1>8. Len(Below(2)) \in DOMAIN Below(2) /\ Below(2) # <<>>
  BY <1>1, <1>5, <1>7
<1> QED
  BY <1>1, <1>3, <1>4, <1>5, <1>6, <1>7, <1>8 DEF Last

(* The first attribute makes the compound, ...                             *)
LEMMA StartCompoundStep ==
  ASSUME OwnInv, Complete, IsItem(1, "name"), IsItem(2, "open"),
         NEW n \in Names \cup {0}, NEW bind \in BOOLEAN,
         StartCompound(Below(2), n, Top.q, bind)
  PROVE  OwnStep
<1> DEFINE name == IF n = 0 THEN 1 ELSE n
           q == Top.q
           empty == Compound(Scope.compound, <<>>)
           h1 == Append(heap, empty)
           def == Definition(Self + 1, q, bind)
           h2 == h1 \o <<def>>
           E == [compound : Nat, pos : Nat, bound : BOOLEAN]
<1>1. /\ sem \in Seq(ItemSet) /\ rc = "parsing" /\ 2 \in 0..Len(sem)
      /\ q \in Nat \ {0} /\ IsQuery(heap, q) /\ Unclaimed(heap, q)
      /\ {q} \subseteq HeldAbove(sem, 2)
      /\ Below(2) # <<>> /\ Item(2) = Below(2)[Len(Below(2))] /\ Item(2).is = "open"
      /\ HeapInv(heap) /\ SemInv(sem, heap) /\ heap \in Seq(Object)
  BY DefinitionItems DEF IsItem, OwnInv, HeapInv
<1>2. /\ scopes \in Seq(E) /\ Len(scopes) \in Nat \ {0} /\ Scope \in E
      /\ IsCompoundObject(heap, Scope.compound)
  BY <1>1, ScopeTyped
<1>3. /\ HeapInv(h1) /\ Later(heap, h1, {}, {})
      /\ Self \in Nat \ {0} /\ Self \notin DOMAIN heap
      /\ DOMAIN h1 = DOMAIN heap \cup {Self} /\ Len(h1) = Self /\ h1[Self] = empty
      /\ IsCompoundObject(h1, Self) /\ Unbuilt(h1, Self)
  BY <1>1, <1>2, GrowByCompound DEF Self
<1>4. CASE bind /\ FullyScalar(q)
  <2>1. heap' = h1 /\ Stop("error") /\ listed' = Append(listed, Self)
    BY <1>4 DEF StartCompound
  <2> HIDE DEF h1
  <2>2. HeapInv(heap') /\ Kept(heap, heap') /\ IsCompoundObject(heap', Self)
    BY <1>3, <2>1 DEF Later
  <2>3. ListInv'
    BY <2>1, <2>2, ListGrown
  <2> QED
    <3>1. Untaken
      BY <1>3, <2>1 DEF Untaken, Later
    <3> QED
      BY <1>1, <2>1, <2>2, <2>3, <3>1, Stopped
<1>5. CASE ~(bind /\ FullyScalar(q))
  <2>1. /\ heap' = heap \o <<Compound(Scope.compound, [m \in {name} |-> Self + 1]), def>>
        /\ scopes' = Append(Front(scopes),
                            [compound |-> Self, pos |-> IF n = 0 THEN 2 ELSE 0, bound |-> bind])
        /\ sem' = Append(Below(2), [is |-> "def", c |-> Self, named |-> n # 0])
        /\ UNCHANGED <<freed, overflow, rc, client>> /\ listed' = Append(listed, Self)
    BY <1>5 DEF StartCompound
  <2>2. /\ HeapInv(h2) /\ Later(h1, h2, {q}, {}) /\ def \in Object
        /\ DOMAIN h2 = DOMAIN h1 \cup {Self + 1} /\ Self + 1 \notin DOMAIN h1
        /\ \A o \in DOMAIN h1 : h2[o] = h1[o]
        /\ IsAttr(h2, Self + 1) /\ Unclaimed(h2, Self + 1)
        /\ h2[Self + 1].sort \in Definable
    <3>1. Stands(def, q, Self + 1)
      <4>1. Self + 1 \in Nat
        BY <1>3
      <4> QED
        BY <1>1, <4>1, DefinitionTyped
    <3>2. Self + 1 = Len(h1) + 1 /\ h2 = h1 \o <<def>>
      BY <1>3
    <3>3. IsQuery(heap, q) /\ Unclaimed(heap, q)
      BY <1>1
    <3>4. HeapInv(h1) /\ Later(heap, h1, {}, {})
      BY <1>3
    <3> DEFINE next == Self + 1
    <3>5. Stands(def, q, next) /\ next = Len(h1) + 1
      BY <3>1, <3>2
    <3> HIDE DEF h1, h2, def, q, next
    <3>6. GrownBy(h1, h2, q, next, def)
      BY <3>2, <3>3, <3>4, <3>5, GrowByDefinition
    <3> QED
      BY <3>6 DEF next, GrownBy
  <2> DEFINE attrs == Extended(<<>>, name, Self + 1)
             h3 == [h2 EXCEPT ![Self].attrs = Extended(@, name, Self + 1)]
  <2>3. heap' = h3
    <3>1. attrs = [m \in {name} |-> Self + 1]
      BY DEF Extended
    <3>2. /\ Compound(Scope.compound, [m \in {name} |-> Self + 1])
               = [empty EXCEPT !.attrs = attrs]
          /\ empty.attrs = <<>>
      BY <3>1 DEF Compound
    <3>3. h2[Self] = empty /\ Self \in DOMAIN h2
      BY <1>3, <2>2
    <3> DEFINE full == [empty EXCEPT !.attrs = attrs]
    <3>4. h3 = [h2 EXCEPT ![Self] = full]
      BY <3>2, <3>3
    <3>5. empty \in Object /\ full \in Object
      <4>1. empty \in Object
        BY <1>3 DEF HeapInv
      <4>2. name \in Attributes \cup Nat
        BY DEF Attributes
      <4>3. attrs \in [{name} -> Nat] /\ {name} \in SUBSET (Attributes \cup Nat)
        <5>1. Self + 1 \in Nat
          BY <1>3
        <5> HIDE DEF name, attrs
        <5> QED
          BY <3>1, <4>2, <5>1
      <4>4. full \in CompoundObject
        <5>1. attrs \in UNION {[A -> Nat] : A \in SUBSET (Attributes \cup Nat)}
          BY <4>3
        <5>2. Scope.compound \in Nat
          BY <1>2
        <5> HIDE DEF attrs
        <5> QED
          BY <5>1, <5>2 DEF CompoundObject, Compound
      <4> QED
        BY <4>1, <4>4 DEF Object
    <3> HIDE DEF empty, full, def
    <3>6. [(Append(heap, empty) \o <<def>>) EXCEPT ![Len(heap) + 1] = full]
            = heap \o <<full, def>>
      BY <1>1, <2>2, <3>5, AddThenChange
    <3>7. h3 = heap \o <<full, def>>
      BY <3>4, <3>6 DEF Self
    <3> HIDE DEF h3
    <3> QED
      BY <2>1, <3>2, <3>7 DEF full
  <2>4. HeapInv(h3) /\ Later(h2, h3, {Self + 1}, {})
    <3>1. IsCompoundObject(h2, Self)
      BY <1>3, <2>2 DEF IsCompoundObject
    <3>2. name \in Attributes \cup Nat
      BY DEF Attributes
    <3> HIDE DEF h2, name
    <3> QED
      BY <2>2, <3>1, <3>2, Enlarge
  <2> HIDE DEF h1, h2, h3, name, def, empty
  <2>5. HeapInv(heap') /\ Later(heap, heap', {q, Self + 1}, {})
    <3>1. Later(heap, h2, {} \cup {q}, {} \cup {})
      BY <1>3, <2>2, LaterTwice
    <3>2. Later(heap, h3, ({} \cup {q}) \cup {Self + 1}, ({} \cup {}) \cup {})
      BY <2>4, <3>1, LaterTwice
    <3>3. Later(heap, h3, {q, Self + 1}, {})
      BY <3>2, LaterOf
    <3> QED
      BY <2>3, <2>4, <3>3
  <2>6. IsCompoundObject(heap', Self) /\ Unbuilt(heap', Self)
    BY <1>3, <2>2, <2>3, <2>4 DEF Later, Kept, IsCompoundObject
  <2> DEFINE it == [is |-> "def", c |-> Self, named |-> n # 0]
  <2>7. /\ it \in ItemSet /\ ItemRefs(heap', it) /\ After(Below(2), it)
        /\ Holds(it) = {} /\ Builds(it) = {Self}
    <3>1. it \in ItemSet /\ it.is = "def" /\ it.c = Self
      BY <1>3 DEF ItemSet
    <3>2. Holds(it) = {} /\ Builds(it) = {Self}
      BY <1>3, <3>1 DEF Holds, Builds
    <3> HIDE DEF it
    <3> QED
      BY <1>1, <1>3, <2>6, <3>1, <3>2 DEF ItemRefs, After
  <2>8. Self + 1 \notin DOMAIN heap
    BY <1>1, <1>3 DEF Self
  <2>9. ScopeInv'
    <3>1. scopes # <<>>
      BY <1>2
    <3>2. /\ Front(scopes) \in Seq(E)
          /\ \A i \in DOMAIN Front(scopes) : i \in DOMAIN scopes /\ Front(scopes)[i] = scopes[i]
      BY <1>2, <3>1, FrontOf
    <3>3. (IF n = 0 THEN 2 ELSE 0) \in Nat /\ Kept(heap, heap')
      BY <2>5 DEF Later
    <3> QED
      BY <1>1, <1>3, <2>1, <2>6, <3>2, <3>3, ScopesPushed
  <2>10. ListInv'
    BY <2>1, <2>5, <2>6, ListGrown DEF Later
  <2> HIDE DEF it
  <2>11. sem' = Append(Below(2), it)
    BY <2>1 DEF it
  <2> QED
    BY <1>1, <1>3, <2>1, <2>5, <2>7, <2>8, <2>9, <2>10, <2>11, Pushed
<1> QED
  BY <1>4, <1>5

(* The top scope with the number and kind of its definitions.              *)
LEMMA ScopeChanged ==
  ASSUME NEW s \in [compound : Nat, pos : Nat, bound : BOOLEAN],
         NEW pos \in Nat, NEW bound \in BOOLEAN
  PROVE  [[s EXCEPT !.pos = pos] EXCEPT !.bound = bound]
           = [compound |-> s.compound, pos |-> pos, bound |-> bound]
<1> DEFINE r == [[s EXCEPT !.pos = pos] EXCEPT !.bound = bound]
           t == [compound |-> s.compound, pos |-> pos, bound |-> bound]
           F == {"compound", "pos", "bound"}
<1>1. DOMAIN s = F
  OBVIOUS
<1>2. r = [f \in F |-> IF f = "bound" THEN bound ELSE IF f = "pos" THEN pos ELSE s[f]]
  BY <1>1
<1>3. t = [f \in F |-> t[f]]
  OBVIOUS
<1>4. t["compound"] = s["compound"] /\ t["pos"] = pos /\ t["bound"] = bound
  OBVIOUS
<1> HIDE DEF r, t
<1> QED
  BY <1>2, <1>3, <1>4

(* ... the others join it.                                                 *)
LEMMA AppendAttributeStep ==
  ASSUME OwnInv, Complete, IsItem(1, "name"), IsItem(2, "def"),
         NEW n \in Names \cup {0}, NEW bind \in BOOLEAN,
         AppendAttribute(Below(2), n, Top.q, bind)
  PROVE  OwnStep
<1> DEFINE name == IF n = 0 THEN Scope.pos ELSE n
           q == Top.q
           c == Item(2).c
           def == Definition(Self, q, bind)
           h1 == heap \o <<def>>
           E == [compound : Nat, pos : Nat, bound : BOOLEAN]
<1>1. /\ sem \in Seq(ItemSet) /\ rc = "parsing" /\ 2 \in 0..Len(sem)
      /\ q \in Nat \ {0} /\ IsQuery(heap, q) /\ Unclaimed(heap, q)
      /\ {q} \subseteq HeldAbove(sem, 2) /\ Last(Below(2)) = Item(2)
      /\ HeapInv(heap) /\ SemInv(sem, heap) /\ heap \in Seq(Object)
  BY DefinitionItems DEF OwnInv, HeapInv
<1>2. /\ scopes \in Seq(E) /\ Len(scopes) \in Nat \ {0} /\ Scope \in E
      /\ IsCompoundObject(heap, Scope.compound)
  BY <1>1, ScopeTyped
<1>3. IsCompoundObject(heap, c)
  <2>1. Item(2) \in ItemSet /\ ItemRefs(heap, Item(2)) /\ Item(2).is = "def"
    BY StackItem
  <2>2. Builds(Item(2)) = {c} \ {0} /\ c # 0
    BY <2>1, ItemFields DEF ItemRefs
  <2> QED
    BY <2>1, <2>2 DEF ItemRefs
<1>4. CASE bind /\ FullyScalar(q)
  <2>1. heap' = heap /\ Stop("error") /\ listed' = listed
    BY <1>4 DEF AppendAttribute
  <2>2. HeapInv(heap') /\ Kept(heap, heap')
    BY <1>1, <2>1, KeptSelf
  <2> QED
    BY <1>1, <2>1, <2>2, ListKept, NothingTaken, Stopped
<1>5. CASE ~(bind /\ FullyScalar(q))
  <2>1. /\ HeapInv(h1) /\ Later(heap, h1, {q}, {}) /\ def \in Object
        /\ DOMAIN h1 = DOMAIN heap \cup {Self} /\ Self \notin DOMAIN heap
        /\ \A o \in DOMAIN heap : h1[o] = heap[o]
        /\ IsAttr(h1, Self) /\ Unclaimed(h1, Self)
        /\ h1[Self].sort \in Definable
    <3>1. Self \in Nat /\ Self = Len(heap) + 1
      BY <1>1 DEF Self
    <3>2. Stands(def, q, Self)
      BY <1>1, <3>1, DefinitionTyped
    <3>3. Later(heap, heap, {}, {}) /\ h1 = heap \o <<def>>
      BY LaterSelf
    <3>4. IsQuery(heap, q) /\ Unclaimed(heap, q)
      BY <1>1
    <3>5. HeapInv(heap)
      BY <1>1
    <3> HIDE DEF h1, def, q
    <3>6. GrownBy(heap, h1, q, Self, def)
      BY <3>1, <3>2, <3>3, <3>4, <3>5, GrowByDefinition
    <3> QED
      BY <3>6 DEF GrownBy
  <2> DEFINE h2 == [h1 EXCEPT ![c].attrs = Extended(@, name, Self)]
  <2>2. name \in Attributes \cup Nat
    BY <1>2 DEF Attributes
  <2>3. HeapInv(h2) /\ Later(h1, h2, {Self}, {})
    <3>1. IsCompoundObject(h1, c)
      BY <1>3, <2>1 DEF IsCompoundObject
    <3> HIDE DEF h1, name, c
    <3> QED
      BY <2>1, <2>2, <3>1, Enlarge
  <2>4. heap' = h2
    <3>1. heap' = [heap EXCEPT ![c].attrs = Extended(@, name, Self)] \o <<def>>
      BY <1>1, <1>5 DEF AppendAttribute
    <3> DEFINE full == [heap[c] EXCEPT !.attrs = Extended(@, name, Self)]
    <3>2. c \in DOMAIN heap /\ h1[c] = heap[c] /\ c \in DOMAIN h1
      BY <1>3, <2>1 DEF IsCompoundObject
    <3>3. h2 = [h1 EXCEPT ![c] = full] /\ heap' = [heap EXCEPT ![c] = full] \o <<def>>
      <4> HIDE DEF h1, def, name, c
      <4> QED
        BY <3>1, <3>2
    <3>4. full \in Object
      <4>1. h2 \in Seq(Object) /\ h2[c] = full /\ c \in DOMAIN h2
        <5> HIDE DEF h1, c, name, full
        <5> QED
          BY <2>3, <3>2, <3>3 DEF HeapInv
      <4> HIDE DEF h2, full
      <4> QED
        BY <4>1
    <3> HIDE DEF full, c, def
    <3>5. [heap EXCEPT ![c] = full] \o <<def>> = [(heap \o <<def>>) EXCEPT ![c] = full]
      BY <1>1, <2>1, <3>2, <3>4, ChangeThenAdd
    <3> QED
      BY <3>3, <3>5
  <2> HIDE DEF h1, h2
  <2>5. HeapInv(heap') /\ Later(heap, heap', {q, Self}, {})
    <3>1. Later(heap, h2, {q} \cup {Self}, {} \cup {})
      BY <2>1, <2>3, LaterTwice
    <3>2. Later(heap, h2, {q, Self}, {})
      BY <3>1, LaterOf
    <3> QED
      BY <2>3, <2>4, <3>2
  <2>6. Kept(heap, heap') /\ listed' = listed
    BY <2>5 DEF Later, AppendAttribute
  <2>7. Untaken
    <3>1. {q, Self} \cap DOMAIN heap \subseteq HeldAbove(sem, 2)
      BY <1>1, <2>1
    <3> QED
      BY <1>1, <2>5, <3>1, TakenHeld
  <2>8. CASE Stop("error")
    BY <1>1, <2>5, <2>6, <2>8, <2>7, ListKept, Stopped
  <2>9. CASE /\ scopes' = Append(Front(scopes),
                             [Scope EXCEPT !.pos = IF n = 0 THEN @ + 1 ELSE @,
                                           !.bound = @ \/ bind])
             /\ sem' = Below(2)
             /\ UNCHANGED <<overflow, rc, client>>
    <3>1. SemInv(sem', heap')
      <4>1. {q, Self} \cap DOMAIN heap \subseteq HeldAbove(sem, 2)
        BY <1>1, <2>1
      <4>2. {} \cap DOMAIN heap \subseteq BuiltAbove(sem, 2)
        OBVIOUS
      <4> QED
        BY <1>1, <2>5, <2>9, <4>1, <4>2, Reduced DEF Below
    <3> DEFINE pos == IF n = 0 THEN Scope.pos + 1 ELSE Scope.pos
               bound == Scope.bound \/ bind
    <3>2. [Scope EXCEPT !.pos = IF n = 0 THEN @ + 1 ELSE @, !.bound = @ \/ bind]
            = [compound |-> Scope.compound, pos |-> pos, bound |-> bound]
      <4>1. [Scope EXCEPT !.pos = IF n = 0 THEN @ + 1 ELSE @, !.bound = @ \/ bind]
              = [[Scope EXCEPT !.pos = pos] EXCEPT !.bound = bound]
        BY <1>2
      <4>2. Scope \in E /\ pos \in Nat /\ bound \in BOOLEAN
        BY <1>2
      <4> HIDE DEF pos, bound
      <4> QED
        BY <4>1, <4>2, ScopeChanged
    <3>3. pos \in Nat /\ bound \in BOOLEAN /\ Scope.compound \in Nat
      BY <1>2
    <3>4. scopes # <<>>
      BY <1>2
    <3>5. /\ Front(scopes) \in Seq(E)
          /\ \A i \in DOMAIN Front(scopes) : i \in DOMAIN scopes /\ Front(scopes)[i] = scopes[i]
      BY <1>2, <3>4, FrontOf
    <3>6. IsCompoundObject(heap', Scope.compound)
      BY <1>2, <2>6 DEF Kept, IsCompoundObject
    <3> HIDE DEF pos, bound
    <3>7. scopes' = Append(Front(scopes),
                           [compound |-> Scope.compound, pos |-> pos, bound |-> bound])
      BY <2>9, <3>2
    <3>8. ScopeInv'
      BY <1>1, <2>6, <3>3, <3>5, <3>6, <3>7, ScopesPushed
    <3>9. Held' \cap DOMAIN heap \subseteq Held
      <4>1. Below(2) = SubSeq(sem, 1, Len(sem) - 2)
        BY DEF Below
      <4>2. \A i \in DOMAIN Below(2) : Below(2)[i] = sem[i] /\ i \in DOMAIN sem
        BY <1>1, <4>1, PrefixIs
      <4> QED
        BY <2>9, <4>2 DEF Held
    <3> QED
      BY <1>1, <2>5, <2>6, <2>9, <2>7, <3>1, <3>8, <3>9, ListKept, Framed
  <2> QED
    BY <1>5, <2>8, <2>9 DEF AppendAttribute
<1> QED
  BY <1>4, <1>5

(* Both.                                                                   *)
LEMMA EndDefinitionStep == ASSUME OwnInv, EndDefinition PROVE OwnStep
<1>1. Complete /\ IsItem(1, "name")
  BY DEF EndDefinition
<1>2. /\ Item(1).n \in Names \cup {0} /\ Item(1).bind \in BOOLEAN
      /\ IsItem(2, "open") \/ IsItem(2, "def")
  BY <1>1, DefinitionItems
<1>3. CASE IsItem(2, "open")
  BY <1>1, <1>2, <1>3, StartCompoundStep DEF EndDefinition
<1>4. CASE IsItem(2, "def")
  <2>1. ~IsItem(2, "open")
    BY <1>4 DEF IsItem
  <2> QED
    BY <1>1, <1>2, <1>4, <2>1, AppendAttributeStep DEF EndDefinition
<1> QED
  BY <1>2, <1>3, <1>4

(* The end of a scope, with what its three forms have in common.           *)
LEMMA CloseStep ==
  ASSUME OwnInv, rc = "parsing", NEW n \in 0..Len(sem),
         NEW hp, HeapInv(hp), Later(heap, hp, {}, {}),
         NEW open \in ItemSet, open.is = "open", ItemRefs(heap, open),
         Holds(open) \subseteq HeldAbove(sem, n),
         NEW c, IsCompoundObject(hp, c), Unbuilt(hp, c), c # 0,
         {c} \cap DOMAIN heap \subseteq BuiltAbove(sem, n),
         NEW f \in Nat, f # 0 => /\ IsQuery(heap, f) /\ Unclaimed(heap, f) /\ f # open.q
                                 /\ f \in HeldAbove(sem, n),
         NEW sc \in Seq([compound : Nat, pos : Nat, bound : BOOLEAN]), sc # <<>>,
         \A i \in DOMAIN sc : i \in DOMAIN scopes /\ sc[i] = scopes[i],
         Kept(hp, heap') => ListInv',
         Close(Below(n), open, c, f, hp, sc)
  PROVE  OwnStep
<1> DEFINE id == Len(hp) + 1
           bound == IsBound(hp, c)
           filter == IF f = 0 THEN <<>> ELSE <<f>>
           sort == IF bound THEN "product" ELSE "scope"
           attr == Attr(sort, FALSE, bound, c, filter, id)
           on == open.q # 0
           S == {attr.data[k] : k \in DOMAIN attr.data}
           h1 == hp \o <<attr>>
           E == [compound : Nat, pos : Nat, bound : BOOLEAN]
<1>1. hp \in Seq(Object) /\ id \in Nat \ {0} /\ c \in Nat /\ bound \in BOOLEAN
  BY DEF HeapInv, IsCompoundObject, IsBound
<1>2. Kept(heap, hp)
  BY DEF Later
<1>3. /\ filter \in Seq(Nat) /\ \A k \in DOMAIN filter : filter[k] = f /\ f # 0
  OBVIOUS
<1>4. /\ attr \in AttrObject /\ attr.kind = "attr" /\ attr.top = id /\ attr.data = filter
      /\ attr.type = c /\ attr.sort \in {"product", "scope"}
  <2>1. sort \in Sorts
    BY DEF Sorts
  <2> HIDE DEF id, bound, filter, sort
  <2>2. attr \in AttrObject /\ attr.sort = sort
    BY <1>1, <1>3, <2>1 DEF Attr, AttrObject
  <2>3. attr.kind = "attr" /\ attr.top = id /\ attr.data = filter /\ attr.type = c
    BY DEF Attr
  <2> QED
    BY <2>2, <2>3 DEF sort
<1>5. f # 0 => IsQuery(hp, f) /\ Unclaimed(hp, f)
  BY DEF Later, Kept, IsQuery
<1> HIDE DEF attr, filter, sort
<1>6. /\ \A k \in DOMAIN attr.data : IsQuery(hp, attr.data[k]) /\ Unclaimed(hp, attr.data[k])
      /\ S \subseteq HeldAbove(sem, n) /\ S \subseteq {f}
  BY <1>3, <1>4, <1>5
<1>7. Typed(attr) \subseteq {c}
  BY <1>4 DEF Typed
<1>8. /\ attr.top = Len(hp) + 1 \/ (IsAttr(hp, attr.top) /\ hp[attr.top].sort # "forward")
      /\ attr.sort # "forward" => attr.top = Len(hp) + 1
      /\ attr.sort = "forward" => attr.top # Len(hp) + 1
      /\ attr.sort \notin Definable /\ attr.top = Len(hp) + 1
      /\ attr.type # 0 => IsCompoundObject(hp, attr.type)
      /\ attr.sort # "forward" /\ ~attr.atomic => attr.type # 0
      /\ attr.sort = "bound" => Len(attr.data) = 1
      /\ attr.sort = "product" => attr.type # 0 /\ Unbuilt(hp, attr.type)
  BY <1>4 DEF Definable
<1>9. /\ HeapInv(h1) /\ Later(hp, h1, S, Typed(attr)) /\ DOMAIN h1 = DOMAIN hp \cup {id}
      /\ id \notin DOMAIN hp /\ h1[id] = attr /\ \A o \in DOMAIN hp : h1[o] = hp[o]
      /\ IsAttr(h1, id) /\ Unclaimed(h1, id) /\ h1[id].sort \notin Definable
  BY <1>4, <1>6, <1>8, GrowByAttr
<1> DEFINE hw == hp \o <<attr, Chain(id, TRUE)>>
<1>10. /\ HeapInv(hw) /\ Later(hp, hw, S, Typed(attr))
       /\ id + 1 \in Nat \ {0} /\ id + 1 \notin DOMAIN hp
       /\ IsQuery(hw, id + 1) /\ Unclaimed(hw, id + 1)
  <2>1. LET hq == hp \o <<attr, Chain(Len(hp) + 1, TRUE)>>
            new == Len(hp) + 2
        IN /\ HeapInv(hq)
           /\ Later(hp, hq, {attr.data[k] : k \in DOMAIN attr.data}, Typed(attr))
           /\ new \in Nat \ {0} /\ new \notin DOMAIN hp
           /\ IsQuery(hq, new) /\ Unclaimed(hq, new)
    BY <1>4, <1>6, <1>8, GrowWrapped
  <2>2. id + 1 = Len(hp) + 2
    BY <1>1
  <2> QED
    BY <2>1, <2>2
<1> DEFINE ho == [h1 EXCEPT ![open.q].links = Append(@, [attr |-> id, owned |-> TRUE])]
<1>11. on => /\ HeapInv(ho) /\ Later(h1, ho, {id}, {})
             /\ open.q \in Nat \ {0} /\ open.q \in DOMAIN hp
             /\ IsQuery(hp, open.q) /\ Unclaimed(hp, open.q) /\ open.q \in HeldAbove(sem, n)
  <2> SUFFICES ASSUME on
               PROVE  /\ HeapInv(ho) /\ Later(h1, ho, {id}, {})
                      /\ open.q \in Nat \ {0} /\ open.q \in DOMAIN hp
                      /\ IsQuery(hp, open.q) /\ Unclaimed(hp, open.q)
                      /\ open.q \in HeldAbove(sem, n)
    OBVIOUS
  <2>1. Holds(open) = {open.q} /\ open.q \in Nat \ {0}
    BY ItemFields
  <2>2. IsQuery(heap, open.q) /\ Unclaimed(heap, open.q)
    BY <2>1 DEF ItemRefs
  <2>3. IsQuery(hp, open.q) /\ Unclaimed(hp, open.q) /\ open.q \in DOMAIN hp
    BY <2>2 DEF Later, Kept, IsQuery
  <2>4. IsQuery(h1, open.q)
    BY <1>9, <2>3 DEF IsQuery
  <2>5. HeapInv(ho) /\ Later(h1, ho, IF TRUE THEN {id} ELSE {}, {})
    <3> HIDE DEF h1, id
    <3>1. TRUE \in BOOLEAN
      OBVIOUS
    <3> QED
      BY <1>9, <2>4, <3>1, Lengthen
  <2> QED
    BY <2>1, <2>3, <2>5
<1>12. on => ho = [hp EXCEPT ![open.q].links = Append(@, [attr |-> id, owned |-> TRUE])] \o <<attr>>
  <2> SUFFICES ASSUME on
               PROVE  ho = [hp EXCEPT ![open.q].links = Append(@, [attr |-> id, owned |-> TRUE])]
                             \o <<attr>>
    OBVIOUS
  <2> DEFINE full == [hp[open.q] EXCEPT !.links = Append(@, [attr |-> id, owned |-> TRUE])]
  <2>1. open.q \in DOMAIN hp /\ open.q \in DOMAIN h1 /\ h1[open.q] = hp[open.q]
    BY <1>9, <1>11
  <2>2. /\ [hp EXCEPT ![open.q].links = Append(@, [attr |-> id, owned |-> TRUE])]
             = [hp EXCEPT ![open.q] = full]
        /\ ho = [h1 EXCEPT ![open.q] = full]
    <3> HIDE DEF h1, id
    <3> QED
      BY <2>1
  <2>3. full \in Object /\ attr \in Object
    <3>1. ho \in Seq(Object) /\ ho[open.q] = full /\ open.q \in DOMAIN ho
      <4> HIDE DEF h1, full, id
      <4> QED
        BY <1>11, <2>1, <2>2 DEF HeapInv
    <3> HIDE DEF ho, full
    <3> QED
      BY <1>4, <3>1 DEF Object
  <2> HIDE DEF full, id
  <2>4. [hp EXCEPT ![open.q] = full] \o <<attr>> = [(hp \o <<attr>>) EXCEPT ![open.q] = full]
    BY <1>1, <2>1, <2>3, ChangeThenAdd, SMTT(30)
  <2> QED
    BY <2>2, <2>4
<1> HIDE DEF ho, hw, h1
<1>13. /\ Later(heap, hw, S, {c})
       /\ on => Later(heap, ho, S \cup {id}, {c})
  <2>1. Kept(heap, hp) /\ id \notin DOMAIN heap
    BY <1>2, <1>9 DEF Kept
  <2> HIDE DEF S, id
  <2>2. Later(heap, hw, {} \cup S, {} \cup Typed(attr))
    BY <1>10, LaterTwice
  <2>3. Later(heap, hw, S, {c})
    BY <1>7, <2>2, LaterOf
  <2>4. ASSUME on PROVE Later(heap, ho, S \cup {id}, {c})
    <3>1. Later(heap, h1, {} \cup S, {} \cup Typed(attr))
      BY <1>9, LaterTwice
    <3>2. Later(heap, ho, ({} \cup S) \cup {id}, ({} \cup Typed(attr)) \cup {})
      BY <1>11, <2>4, <3>1, LaterTwice
    <3> QED
      BY <1>7, <3>2, LaterOf
  <2> QED
    BY <2>3, <2>4
<1>14. id \notin DOMAIN heap /\ id + 1 \notin DOMAIN heap
  BY <1>2, <1>9, <1>10 DEF Kept
<1> DEFINE pushed == Query(IF on THEN open.q ELSE id + 1, TRUE)
<1>15. CASE heap' \in {hp, hw} /\ \E code \in {"aborted", "error"} : Stop(code)
  <2>1. HeapInv(heap') /\ Kept(heap, heap') /\ Kept(hp, heap')
    BY <1>2, <1>10, <1>13, <1>15, KeptSelf DEF Later
  <2>2. PICK code \in {"aborted", "error"} : Stop(code)
    BY <1>15
  <2>3. ListInv' /\ code # "parsing"
    BY <2>1
  <2> QED
    <3>1. Untaken
      <4>1. heap' = hp \/ heap' = hw
        BY <1>15
      <4>2. CASE heap' = hp
        BY <4>2 DEF Untaken, Later
      <4>3. CASE heap' = hw
        BY <1>6, <1>13, <4>3, TakenHeld
      <4> QED
        BY <4>1, <4>2, <4>3
    <3> QED
      BY <2>1, <2>2, <2>3, <3>1, Stopped
<1>16. CASE /\ heap' = IF on THEN ho ELSE hw
            /\ scopes' = IF on THEN Front(sc) ELSE sc
            /\ on => Len(sc) # 1
            /\ sem' = Append(Below(n), pushed)
            /\ UNCHANGED <<overflow, rc, client>>
  <2>1. HeapInv(heap') /\ Later(heap, heap', S \cup {id}, {c})
    BY <1>10, <1>11, <1>13, <1>16 DEF Later
  <2>2. ScopeInv'
    <3>1. /\ scopes' \in Seq(E) /\ scopes' # <<>>
          /\ \A i \in DOMAIN scopes' : i \in DOMAIN scopes /\ scopes'[i] = scopes[i]
      <4>1. CASE on
        <5>1. /\ Front(sc) \in Seq(E) /\ Len(Front(sc)) = Len(sc) - 1 /\ Len(sc) \in Nat \ {0}
              /\ \A i \in DOMAIN Front(sc) : i \in DOMAIN sc /\ Front(sc)[i] = sc[i]
          BY FrontOf
        <5>2. Len(Front(sc)) # 0
          BY <1>16, <4>1, <5>1
        <5>3. Front(sc) # <<>>
          BY <5>2
        <5> QED
          BY <1>16, <4>1, <5>1, <5>3
      <4>2. CASE ~on
        BY <1>16, <4>2
      <4> QED
        BY <4>1, <4>2
    <3>2. \A i \in DOMAIN scopes : IsCompoundObject(heap', scopes[i].compound)
      BY <2>1 DEF OwnInv, ScopeInv, Later, Kept, IsCompoundObject
    <3> QED
      BY <3>1, <3>2 DEF ScopeInv
  <2>3. ListInv'
    BY <1>9, <1>10, <1>11, <1>16 DEF Later, Kept
  <2>4. /\ pushed \in ItemSet /\ ItemRefs(heap', pushed) /\ After(Below(n), pushed)
        /\ Holds(pushed) \cap DOMAIN heap \subseteq HeldAbove(sem, n) /\ Builds(pushed) = {}
    <3> DEFINE q == IF on THEN open.q ELSE id + 1
    <3>1. q \in Nat \ {0} /\ IsQuery(heap', q) /\ Unclaimed(heap', q)
      <4>1. CASE ~on
        BY <1>10, <1>16, <4>1
      <4>2. CASE on
        <5>1. /\ open.q \in Nat \ {0} /\ open.q \in DOMAIN hp /\ Later(h1, ho, {id}, {})
              /\ IsQuery(hp, open.q) /\ Unclaimed(hp, open.q) /\ heap' = ho
          BY <1>11, <1>16, <4>2
        <5>2. open.q \notin S /\ open.q # id
          <6>1. f # 0 => f # open.q
            OBVIOUS
          <6>2. S \subseteq {f} \ {0}
            BY <1>3, <1>4
          <6> QED
            BY <1>9, <5>1, <6>1, <6>2
        <5>3. IsQuery(h1, open.q) /\ Unclaimed(h1, open.q) /\ open.q \in DOMAIN h1
          <6>1. Later(hp, h1, S, Typed(attr))
            BY <1>9
          <6> HIDE DEF S, id
          <6> QED
            BY <5>1, <5>2, <6>1 DEF Later, Kept, IsQuery
        <5>4. IsQuery(ho, open.q) /\ Unclaimed(ho, open.q)
          <6> HIDE DEF S, id
          <6> QED
            BY <5>1, <5>2, <5>3 DEF Later, Kept, IsQuery
        <5> QED
          BY <4>2, <5>1, <5>4
      <4> QED
        BY <4>1, <4>2
    <3>2. TRUE \in BOOLEAN
      OBVIOUS
    <3>3. {q} \cap DOMAIN heap \subseteq HeldAbove(sem, n)
      BY <1>11, <1>14
    <3> HIDE DEF q
    <3>4. LET it == Query(q, TRUE)
          IN /\ it \in ItemSet /\ ItemRefs(heap', it) /\ After(Below(n), it)
             /\ Holds(it) = {q} /\ Builds(it) = {}
      BY <3>1, <3>2, QueryItem
    <3>5. pushed = Query(q, TRUE)
      BY DEF q
    <3> QED
      BY <3>3, <3>4, <3>5
  <2>5. (S \cup {id}) \cap DOMAIN heap \subseteq HeldAbove(sem, n)
    BY <1>6, <1>14
  <2> HIDE DEF S, id, pushed
  <2>6. Builds(pushed) \cap DOMAIN heap \subseteq BuiltAbove(sem, n)
    BY <2>4
  <2>7. rc' = rc /\ UNCHANGED client /\ sem' = Append(Below(n), pushed)
    BY <1>16, Zenon
  <2> QED
    BY <2>1, <2>2, <2>3, <2>4, <2>5, <2>6, <2>7, Pushed
<1> QED
  <2>1. \/ heap' = hp /\ Stop("aborted")
        \/ heap' = hp /\ Stop("error")
        \/ heap' = hw /\ Stop("error")
        \/ /\ ~(on /\ Len(sc) = 1)
           /\ heap' = IF on
                      THEN [hp EXCEPT ![open.q].links = Append(@, [attr |-> id, owned |-> TRUE])]
                             \o <<attr>>
                      ELSE hw
           /\ scopes' = IF on THEN Front(sc) ELSE sc
           /\ sem' = Append(Below(n), pushed)
           /\ UNCHANGED <<overflow, rc, client>>
    <3> USE DEF attr, filter, sort, hw
    <3> QED
      BY DEF Close
  <2>2. CASE \/ heap' = hp /\ Stop("aborted")
             \/ heap' = hp /\ Stop("error")
             \/ heap' = hw /\ Stop("error")
    BY <1>15, <2>2
  <2>3. CASE /\ ~(on /\ Len(sc) = 1)
             /\ heap' = IF on
                        THEN [hp EXCEPT ![open.q].links = Append(@, [attr |-> id, owned |-> TRUE])]
                               \o <<attr>>
                        ELSE hw
             /\ scopes' = IF on THEN Front(sc) ELSE sc
             /\ sem' = Append(Below(n), pushed)
             /\ UNCHANGED <<overflow, rc, client>>
    <3>1. heap' = IF on THEN ho ELSE hw
      BY <1>12, <2>3
    <3> HIDE DEF pushed, id
    <3> QED
      BY <1>16, <2>3, <3>1
  <2> QED
    BY <2>1, <2>2, <2>3
-----------------------------------------------------------------------------
(***************************************************************************)
(* What destroys what.                                                     *)
(***************************************************************************)

(* An object destroys what it has a claim on.  The queries of bound        *)
(* attributes it only remembers; the node that iterates over their         *)
(* compound destroys them.                                                 *)
LEMMA OwnedClaimed ==
  ASSUME HeapInv(heap), NEW p \in DOMAIN heap, NEW o \in OwnedBy(p)
  PROVE  \/ /\ o \in Claims(heap, p)
            /\ heap[p].kind = "attr" => heap[p].sort # "bound"
         \/ /\ heap[p].kind = "query"
            /\ \E k \in DOMAIN heap[p].links :
                 LET a == heap[p].links[k].attr
                     c == heap[a].type
                 IN /\ a \in iterated
                    /\ \E n \in DOMAIN heap[c].attrs :
                         LET b == heap[c].attrs[n]
                         IN heap[b].sort = "bound" /\ o = heap[b].data[1]
<1>1. heap[p] \in Object /\ heap[p].kind \in {"query", "attr", "compound"}
  BY ObjectKinds, SMTT(30) DEF HeapInv
<1>2. CASE heap[p].kind = "query"
  <2>1. CASE o \in OwnedAttrs(p)
    BY <1>2, <2>1, Zenon DEF OwnedAttrs, Range, Claims
  <2>2. CASE o \in UNION {BoundQueries(heap[l.attr].type) :
                           l \in {k \in Range(heap[p].links) : k.attr \in iterated}}
    <3>1. PICK l \in Range(heap[p].links) :
            l.attr \in iterated /\ o \in BoundQueries(heap[l.attr].type)
      BY <2>2
    <3>2. PICK k \in DOMAIN heap[p].links : l = heap[p].links[k]
      BY <3>1 DEF Range
    <3>3. PICK b \in Range(heap[heap[l.attr].type].attrs) :
            heap[b].sort = "bound" /\ o = heap[b].data[1]
      BY <3>1 DEF BoundQueries
    <3>4. PICK n \in DOMAIN heap[heap[l.attr].type].attrs : b = heap[heap[l.attr].type].attrs[n]
      BY <3>3 DEF Range
    <3> QED
      BY <1>2, <3>1, <3>2, <3>3, <3>4
  <2> QED
    BY <1>2, <2>1, <2>2, Zenon DEF OwnedBy
<1>3. CASE heap[p].kind = "attr"
  BY <1>3 DEF OwnedBy, Claims, Range
<1>4. CASE heap[p].kind = "compound"
  BY <1>4 DEF OwnedBy, Claims, Range
<1> QED
  BY <1>1, <1>2, <1>3, <1>4

(* The attribute of an iterated node: bound compounds, whose attributes    *)
(* are objects and so are the queries they remember.                       *)
LEMMA IteratedBound ==
  ASSUME OwnInv, NEW a \in iterated, NEW n \in DOMAIN heap[heap[a].type].attrs,
         heap[heap[heap[a].type].attrs[n]].sort = "bound"
  PROVE  LET c == heap[a].type
             b == heap[c].attrs[n]
         IN /\ IsProduct(heap, a) /\ IsCompoundObject(heap, c) /\ b \in Claims(heap, c)
            /\ IsAttr(heap, b) /\ heap[b].data[1] \in Claims(heap, b)
<1> DEFINE c == heap[a].type
           b == heap[c].attrs[n]
<1>1. IsProduct(heap, a) /\ HeapInv(heap)
  BY DEF OwnInv, ClientInv
<1>2. heap[a] \in AttrObject /\ AttrRefs(heap, a)
  BY <1>1, ObjectKinds DEF HeapInv, IsProduct, IsAttr, Refs
<1>3. IsCompoundObject(heap, c)
  BY <1>1, <1>2 DEF AttrRefs, IsProduct
<1>4. b \in Claims(heap, c) /\ IsAttr(heap, b)
  <2>1. CompoundRefs(heap, c)
    BY <1>1, <1>3, Zenon DEF HeapInv, Refs, IsCompoundObject
  <2> QED
    BY <1>3, <2>1 DEF Claims, IsCompoundObject, CompoundRefs
<1>5. heap[b].data \in Seq(Nat) /\ Len(heap[b].data) = 1
  <2>1. heap[b] \in AttrObject /\ AttrRefs(heap, b)
    BY <1>1, <1>4, ObjectKinds DEF HeapInv, IsAttr, Refs
  <2> QED
    BY <2>1 DEF AttrRefs, AttrObject
<1>6. 1 \in DOMAIN heap[b].data
  BY <1>5, SMTT(30)
<1>7. heap[b].data[1] \in Claims(heap, b)
  BY <1>4, <1>6, Zenon DEF Claims, IsAttr
<1> QED
  BY <1>1, <1>3, <1>4, <1>7

(* ... and what it has is there.                                           *)
LEMMA OwnedThere ==
  ASSUME OwnInv, NEW p \in DOMAIN heap
  PROVE  OwnedBy(p) \subseteq DOMAIN heap
<1> SUFFICES ASSUME NEW o \in OwnedBy(p) PROVE o \in DOMAIN heap
  OBVIOUS
<1>1. HeapInv(heap)
  BY DEF OwnInv
<1>2. CASE o \in Claims(heap, p)
  BY <1>1, <1>2, ClaimsThere
<1>3. CASE \E k \in DOMAIN heap[p].links :
             LET a == heap[p].links[k].attr
                 c == heap[a].type
             IN /\ a \in iterated
                /\ \E n \in DOMAIN heap[c].attrs :
                     LET b == heap[c].attrs[n]
                     IN heap[b].sort = "bound" /\ o = heap[b].data[1]
  <2>1. PICK k \in DOMAIN heap[p].links :
          LET a == heap[p].links[k].attr
              c == heap[a].type
          IN /\ a \in iterated
             /\ \E n \in DOMAIN heap[c].attrs :
                  LET b == heap[c].attrs[n]
                  IN heap[b].sort = "bound" /\ o = heap[b].data[1]
    BY <1>3, Zenon
  <2> DEFINE a == heap[p].links[k].attr
             c == heap[a].type
  <2>2. PICK n \in DOMAIN heap[c].attrs :
          heap[heap[c].attrs[n]].sort = "bound" /\ o = heap[heap[c].attrs[n]].data[1]
    BY <2>1
  <2> DEFINE b == heap[c].attrs[n]
  <2>3. IsAttr(heap, b) /\ heap[b].data[1] \in Claims(heap, b)
    <3>1. a \in iterated /\ n \in DOMAIN heap[heap[a].type].attrs
          /\ heap[heap[heap[a].type].attrs[n]].sort = "bound"
      BY <2>1, <2>2
    <3> HIDE DEF a
    <3> QED
      BY <3>1, IteratedBound, Zenon
  <2> QED
    BY <1>1, <2>2, <2>3, ClaimsThere, Zenon DEF IsAttr
<1> QED
  BY <1>1, <1>2, <1>3, OwnedClaimed, Zenon

(* What an object would destroy is an object.                              *)
LEMMA UsesThere ==
  ASSUME OwnInv, NEW p \in DOMAIN heap
  PROVE  Uses(p) \subseteq DOMAIN heap
<1>1. OwnedBy(p) \subseteq DOMAIN heap
  BY OwnedThere
<1>2. heap[p].kind = "query" => {l.attr : l \in Range(heap[p].links)} \subseteq DOMAIN heap
  <2>1. heap[p].kind = "query" => QueryRefs(heap, p)
    BY DEF OwnInv, HeapInv, Refs
  <2> QED
    BY <2>1 DEF QueryRefs, IsAttr, Range
<1> QED
  BY <1>1, <1>2 DEF Uses

(* The item below an item, at the places the reductions look for it.       *)
LEMMA OpenBelow ==
  ASSUME OwnInv, NEW n \in {0, 1}, NEW is \in {"def", "colon"}, IsItem(n, is)
  PROVE  /\ n + 2 \in 0..Len(sem) /\ sem \in Seq(ItemSet) /\ rc = "parsing"
         /\ Item(n) \in ItemSet /\ Item(n).is = is /\ ItemRefs(heap, Item(n))
         /\ Item(n + 1) \in ItemSet /\ Item(n + 1).is = "open" /\ ItemRefs(heap, Item(n + 1))
         /\ Holds(Item(n + 1)) \subseteq HeldAbove(sem, n + 2)
         /\ Builds(Item(n)) \subseteq BuiltAbove(sem, n + 2)
         /\ n = 1 => Apart(Item(2), Item(0)) /\ Holds(Item(0)) \subseteq HeldAbove(sem, 3)
<1>1. /\ sem \in Seq(ItemSet) /\ Len(sem) \in Nat /\ rc = "parsing"
      /\ Item(n) \in ItemSet /\ Item(n).is = is /\ ItemRefs(heap, Item(n))
      /\ Item(n) = sem[Len(sem) - n]
  BY StackItem
<1>2. IsItem(n + 1, "open")
  BY ItemBelow
<1>3. /\ n + 1 < Len(sem) /\ Item(n + 1) = sem[Len(sem) - (n + 1)]
      /\ Item(n + 1) \in ItemSet /\ Item(n + 1).is = "open" /\ ItemRefs(heap, Item(n + 1))
  <2>1. n + 1 \in Nat
    OBVIOUS
  <2> QED
    BY <1>2, <2>1, StackItem
<1>4. n + 2 \in 0..Len(sem) /\ n \in 0..(n + 2 - 1) /\ n + 1 \in 0..(n + 2 - 1)
  BY <1>1, <1>3
<1>5. /\ Holds(Item(n + 1)) \subseteq HeldAbove(sem, n + 2)
      /\ Builds(Item(n)) \subseteq BuiltAbove(sem, n + 2)
  <2> DEFINE m == n + 2
             i == n + 1
  <2>1. m \in 0..Len(sem) /\ n \in 0..(m - 1) /\ i \in 0..(m - 1)
    BY <1>4
  <2> HIDE DEF m, i
  <2>2. Holds(sem[Len(sem) - i]) \subseteq HeldAbove(sem, m)
    BY <1>1, <2>1, AboveFacts
  <2>3. Builds(sem[Len(sem) - n]) \subseteq BuiltAbove(sem, m)
    BY <1>1, <2>1, AboveFacts
  <2> QED
    BY <1>1, <1>3, <2>2, <2>3 DEF m, i
<1>6. ASSUME n = 1
      PROVE  Apart(Item(2), Item(0)) /\ Holds(Item(0)) \subseteq HeldAbove(sem, 3)
  <2>1. /\ Len(sem) - 2 \in DOMAIN sem /\ Len(sem) - 0 \in DOMAIN sem
        /\ 3 \in 0..Len(sem) /\ 0 \in 0..(3 - 1) /\ Len(sem) - 2 # Len(sem) - 0
    BY <1>1, <1>3, <1>6
  <2>2. Item(2) = sem[Len(sem) - 2] /\ Item(0) = sem[Len(sem) - 0]
    BY DEF Item
  <2>3. Holds(sem[Len(sem) - 0]) \subseteq HeldAbove(sem, 3)
    BY <1>1, <2>1, AboveFacts
  <2> QED
    BY <2>1, <2>2, <2>3 DEF OwnInv, SemInv
<1> QED
  BY <1>1, <1>3, <1>4, <1>5, <1>6

(* The three forms of the end of a scope.                                  *)
LEMMA CloseScopeStep == ASSUME OwnInv, CloseScope PROVE OwnStep
<1> DEFINE E == [compound : Nat, pos : Nat, bound : BOOLEAN]
<1>1. HeapInv(heap) /\ Later(heap, heap, {}, {})
  BY LaterSelf DEF OwnInv
<1>2. CASE /\ IsItem(0, "def") /\ listed' = listed
           /\ Close(Below(2), Item(1), Top.c, 0, heap, scopes)
  <2>1. /\ 2 \in 0..Len(sem) /\ sem \in Seq(ItemSet) /\ rc = "parsing"
        /\ Item(0) \in ItemSet /\ Item(0).is = "def" /\ ItemRefs(heap, Item(0))
        /\ Item(1) \in ItemSet /\ Item(1).is = "open" /\ ItemRefs(heap, Item(1))
        /\ Holds(Item(1)) \subseteq HeldAbove(sem, 2)
        /\ Builds(Item(0)) \subseteq BuiltAbove(sem, 2)
    BY <1>2, OpenBelow
  <2>2. Top = Item(0)
    BY <2>1 DEF Top, Item, Last
  <2>3. Builds(Item(0)) = {Top.c} /\ Top.c # 0
    <3>1. Builds(Item(0)) = {Item(0).c} \ {0}
      BY <2>1, ItemFields
    <3> QED
      BY <2>1, <2>2, <3>1 DEF ItemRefs
  <2>4. IsCompoundObject(heap, Top.c) /\ Unbuilt(heap, Top.c)
    BY <2>1, <2>3 DEF ItemRefs
  <2>5. scopes \in Seq(E) /\ scopes # <<>>
    BY <2>1 DEF OwnInv, ScopeInv
  <2>6. Kept(heap, heap') => ListInv'
    BY <1>2, ListKept
  <2>7. {Top.c} \cap DOMAIN heap \subseteq BuiltAbove(sem, 2)
    BY <2>1, <2>3
  <2>8. 0 \in Nat
    OBVIOUS
  <2> QED
    BY <1>1, <1>2, <2>1, <2>3, <2>4, <2>5, <2>6, <2>7, <2>8, CloseStep
<1>3. ASSUME Complete, IsItem(1, "colon")
      PROVE  /\ 3 \in 0..Len(sem) /\ sem \in Seq(ItemSet) /\ rc = "parsing"
             /\ Item(1) \in ItemSet /\ Item(1).is = "colon" /\ ItemRefs(heap, Item(1))
             /\ Item(2) \in ItemSet /\ Item(2).is = "open" /\ ItemRefs(heap, Item(2))
             /\ Holds(Item(2)) \subseteq HeldAbove(sem, 3)
             /\ Builds(Item(1)) \subseteq BuiltAbove(sem, 3)
             /\ Top.q \in Nat \ {0} /\ IsQuery(heap, Top.q) /\ Unclaimed(heap, Top.q)
             /\ Top.q # Item(2).q /\ Top.q \in HeldAbove(sem, 3)
  <2>1. /\ 3 \in 0..Len(sem) /\ sem \in Seq(ItemSet) /\ rc = "parsing"
        /\ Item(1) \in ItemSet /\ Item(1).is = "colon" /\ ItemRefs(heap, Item(1))
        /\ Item(2) \in ItemSet /\ Item(2).is = "open" /\ ItemRefs(heap, Item(2))
        /\ Holds(Item(2)) \subseteq HeldAbove(sem, 3)
        /\ Builds(Item(1)) \subseteq BuiltAbove(sem, 3)
        /\ Apart(Item(2), Item(0)) /\ Holds(Item(0)) \subseteq HeldAbove(sem, 3)
    <3>1. 1 \in {0, 1} /\ "colon" \in {"def", "colon"} /\ 1 + 1 = 2 /\ 1 + 2 = 3
      OBVIOUS
    <3> QED
      BY <1>3, <3>1, OpenBelow
  <2>2. /\ Top.q \in Nat \ {0} /\ IsQuery(heap, Top.q) /\ Unclaimed(heap, Top.q)
        /\ Holds(Top) = {Top.q} /\ Top = sem[Len(sem)] /\ Len(sem) \in Nat
    BY <1>3, TopQuery
  <2>3. Top = Item(0)
    BY <2>2 DEF Item
  <2>4. Holds(Item(2)) = {Item(2).q} \ {0}
    BY <2>1, ItemFields
  <2> QED
    BY <2>1, <2>2, <2>3, <2>4 DEF Apart
<1>4. CASE /\ Complete /\ IsItem(1, "colon") /\ Item(1).c # 0 /\ listed' = listed
           /\ Close(Below(3), Item(2), Item(1).c, Top.q, heap, Popped)
  <2> DEFINE c == Item(1).c
  <2>1. c # 0 /\ Builds(Item(1)) = {c}
    <3>1. Builds(Item(1)) = {c} \ {0}
      BY <1>3, <1>4, ItemFields
    <3> QED
      BY <1>4, <3>1
  <2>2. IsCompoundObject(heap, c) /\ Unbuilt(heap, c)
    BY <1>3, <1>4, <2>1 DEF ItemRefs
  <2>3. scopes \in Seq(E) /\ scopes # <<>>
    BY <1>3, <1>4 DEF OwnInv, ScopeInv
  <2>4. /\ Popped \in Seq(E) /\ Popped # <<>>
        /\ \A i \in DOMAIN Popped : i \in DOMAIN scopes /\ Popped[i] = scopes[i]
    <3>1. CASE Len(scopes) > 1
      <4>1. /\ Front(scopes) \in Seq(E) /\ Len(Front(scopes)) = Len(scopes) - 1
            /\ Len(scopes) \in Nat \ {0}
            /\ \A i \in DOMAIN Front(scopes) : i \in DOMAIN scopes /\ Front(scopes)[i] = scopes[i]
        BY <2>3, FrontOf
      <4>2. Len(Front(scopes)) # 0
        BY <3>1, <4>1
      <4>3. Front(scopes) # <<>>
        BY <4>2
      <4> QED
        BY <3>1, <4>1, <4>3 DEF Popped
    <3>2. CASE ~(Len(scopes) > 1)
      BY <2>3, <3>2 DEF Popped
    <3> QED
      BY <3>1, <3>2
  <2>5. Kept(heap, heap') => ListInv'
    BY <1>4, ListKept
  <2>6. {c} \cap DOMAIN heap \subseteq BuiltAbove(sem, 3)
    BY <1>3, <1>4, <2>1
  <2>7. Top.q \in Nat
    BY <1>3, <1>4
  <2>8. Close(Below(3), Item(2), c, Top.q, heap, Popped)
    BY <1>4
  <2> HIDE DEF c
  <2> QED
    BY <1>1, <1>3, <1>4, <2>1, <2>2, <2>4, <2>5, <2>6, <2>7, <2>8, CloseStep
<1>5. CASE /\ Complete /\ IsItem(1, "colon") /\ Item(1).c = 0
           /\ listed' = Append(listed, Self)
           /\ Close(Below(3), Item(2), Self, Top.q,
                    Append(heap, Compound(Scope.compound, <<>>)), scopes)
  <2> DEFINE hp == Append(heap, Compound(Scope.compound, <<>>))
  <2>1. /\ HeapInv(hp) /\ Later(heap, hp, {}, {})
        /\ Self \in Nat \ {0} /\ Self \notin DOMAIN heap
        /\ IsCompoundObject(hp, Self) /\ Unbuilt(hp, Self)
    <3>1. IsCompoundObject(heap, Scope.compound)
      BY <1>3, <1>5, ScopeTyped
    <3> QED
      BY <1>1, <3>1, GrowByCompound DEF Self
  <2>2. Close(Below(3), Item(2), Self, Top.q, hp, scopes)
    BY <1>5
  <2> HIDE DEF hp
  <2>3. scopes \in Seq(E) /\ scopes # <<>>
    BY <1>3, <1>5 DEF OwnInv, ScopeInv
  <2>4. Kept(hp, heap') => ListInv'
    <3> SUFFICES ASSUME Kept(hp, heap') PROVE ListInv'
      OBVIOUS
    <3>1. Kept(heap, heap') /\ IsCompoundObject(heap', Self)
      BY <2>1 DEF Later, Kept, IsCompoundObject
    <3> QED
      BY <1>5, <3>1, ListGrown
  <2>5. {Self} \cap DOMAIN heap \subseteq BuiltAbove(sem, 3)
    BY <2>1
  <2>6. Top.q \in Nat
    BY <1>3, <1>5
  <2> QED
    BY <1>3, <1>5, <2>1, <2>2, <2>3, <2>4, <2>5, <2>6, CloseStep
<1> QED
  BY <1>2, <1>4, <1>5 DEF CloseScope

(* The end of the expression: the client gets the query.                   *)
LEMMA AcceptStep == ASSUME OwnInv, Accept PROVE OwnStep
<1>1. /\ rc = "parsing" /\ Top.q \in Nat \ {0} /\ IsQuery(heap, Top.q) /\ Unclaimed(heap, Top.q)
  BY TopQuery DEF Accept
<1>2. /\ rc' = "ok" /\ sem' = <<>> /\ scopes' = <<>> /\ result' = Top.q
      /\ UNCHANGED <<heap, listed, iterated>>
  BY DEF Accept, Leave
<1>3. SemInv(sem', heap')
  BY <1>2 DEF SemInv
<1>4. ScopeInv' /\ ListInv'
  BY <1>2 DEF OwnInv, ScopeInv, ListInv
<1>5. ClientInv'
  BY <1>1, <1>2 DEF OwnInv, ClientInv
<1>6. Untaken /\ Held' \cap DOMAIN heap \subseteq Held
  BY <1>2, NothingTaken DEF Held
<1> QED
  BY <1>2, <1>3, <1>4, <1>5, <1>6, KeptSelf DEF OwnInv, OwnStep

(* The steps of the client and of the context create nothing.              *)
LEMMA ClientSteps ==
  ASSUME OwnInv, \/ Iterate \/ DestroyQuery \/ DestroyContext
                 \/ UnwindAttribute \/ UnwindCompound \/ ContextGone
  PROVE  OwnStep
<1>1. /\ UNCHANGED <<heap, parser, rc>>
      /\ result' \in {0, result}
      /\ listed' = listed \/ (listed' = Front(listed) /\ listed # <<>>)
      /\ \A a \in iterated' : a \in iterated \/ IsProduct(heap, a)
  <2>1. CASE Iterate
    <3>1. PICK p \in Reached : /\ heap[p].kind = "attr" /\ heap[p].sort = "product"
                               /\ iterated' = iterated \cup {p}
      BY <2>1 DEF Iterate
    <3>2. result # 0 /\ UNCHANGED <<heap, parser, rc, listed, result>>
      BY <2>1 DEF Iterate
    <3>3. p \in DOMAIN heap
      <4>1. heap \in Seq(Object) /\ IsQuery(heap, result)
        BY <3>2 DEF OwnInv, HeapInv, ClientInv
      <4> DEFINE f == [o \in DOMAIN heap |-> Uses(o)]
      <4>2. IsFiniteSet(DOMAIN f)
        <5>1. DOMAIN f = 1..Len(heap) /\ Len(heap) \in Nat
          BY <4>1
        <5> QED
          BY <5>1, FS_Interval
      <4>3. \A o \in DOMAIN heap : f[o] \subseteq DOMAIN heap
        BY <4>1, UsesThere
      <4>4. {result} \subseteq DOMAIN heap
        BY <4>1 DEF IsQuery
      <4> HIDE DEF f
      <4>5. Reach(f, {result}) \subseteq DOMAIN heap
        BY <4>2, <4>3, <4>4, ReachWithin
      <4> QED
        BY <4>5 DEF Reached, f
    <3> QED
      BY <3>1, <3>2, <3>3 DEF IsProduct, IsAttr
  <2>2. CASE DestroyQuery
    BY <2>2 DEF DestroyQuery
  <2>3. CASE DestroyContext
    BY <2>3 DEF DestroyContext
  <2>4. CASE UnwindAttribute
    BY <2>4 DEF UnwindAttribute, Corrupt, client
  <2>5. CASE UnwindCompound
    BY <2>5 DEF UnwindCompound, Corrupt, client
  <2>6. CASE ContextGone
    BY <2>6 DEF ContextGone
  <2> QED
    BY <2>1, <2>2, <2>3, <2>4, <2>5, <2>6
<1>2. heap' = heap /\ sem' = sem /\ scopes' = scopes /\ rc' = rc
  BY <1>1 DEF parser
<1>3. ScopeInv'
  BY <1>2 DEF OwnInv, ScopeInv
<1>4. ListInv'
  <2>1. CASE listed' = listed
    BY <1>2, <2>1 DEF OwnInv, ListInv
  <2>2. CASE listed' = Front(listed) /\ listed # <<>>
    <3>1. listed \in Seq(Nat)
      BY DEF OwnInv, ListInv
    <3>2. /\ Front(listed) \in Seq(Nat)
          /\ \A i \in DOMAIN Front(listed) : i \in DOMAIN listed /\ Front(listed)[i] = listed[i]
      BY <2>2, <3>1, FrontOf
    <3> QED
      BY <1>2, <2>2, <3>2 DEF OwnInv, ListInv
  <2> QED
    BY <1>1, <2>1, <2>2
<1>5. ClientInv'
  BY <1>1, <1>2 DEF OwnInv, ClientInv
<1>6. Untaken /\ Held' \cap DOMAIN heap \subseteq Held
  BY <1>2, NothingTaken DEF Held
<1> QED
  BY <1>2, <1>3, <1>4, <1>5, <1>6, KeptSelf DEF OwnInv, OwnStep
-----------------------------------------------------------------------------
(***************************************************************************)
(* The inductive invariant.                                                *)
(***************************************************************************)

(* The root compound and its attributes.                                   *)
LEMMA GivenHeap == HeapInv(Given) /\ IsCompoundObject(Given, 1)
<1> DEFINE attrs == [n \in {x, h} |-> IF n = x THEN 2 ELSE 3]
           c == Compound(0, attrs)
           a == Attr("member", TRUE, FALSE, 0, <<>>, 2)
           b == Attr("member", FALSE, TRUE, 1, <<>>, 3)
<1>1. Given = <<c, a, b>>
  BY DEF Given
<1>2. /\ attrs \in [{x, h} -> Nat] /\ DOMAIN attrs = {x, h}
      /\ \A n \in {x, h} : attrs[n] \in {2, 3}
  OBVIOUS
<1>3. {x, h} \in SUBSET (Attributes \cup Nat)
  BY DEF Attributes
<1>4. /\ c \in Object /\ c.kind = "compound" /\ c.parent = 0 /\ c.attrs = attrs
  <2> HIDE DEF attrs
  <2> QED
    BY <1>2, <1>3 DEF Compound, Object, CompoundObject
<1>5. /\ a \in Object /\ a.kind = "attr" /\ a.sort = "member" /\ a.type = 0 /\ a.top = 2
      /\ DOMAIN a.data = {} /\ a.atomic
  BY DEF Attr, Object, AttrObject, Sorts
<1>6. /\ b \in Object /\ b.kind = "attr" /\ b.sort = "member" /\ b.type = 1 /\ b.top = 3
      /\ DOMAIN b.data = {} /\ ~b.atomic
  BY DEF Attr, Object, AttrObject, Sorts
<1> HIDE DEF a, b, c
<1>7. /\ Given \in Seq(Object) /\ DOMAIN Given = {1, 2, 3}
      /\ Given[1] = c /\ Given[2] = a /\ Given[3] = b
  BY <1>1, <1>4, <1>5, <1>6
<1>8. IsCompoundObject(Given, 1) /\ IsAttr(Given, 2) /\ IsAttr(Given, 3)
  BY <1>4, <1>5, <1>6, <1>7 DEF IsCompoundObject, IsAttr
<1>9. Refs(Given, 1) /\ Refs(Given, 2) /\ Refs(Given, 3)
  <2>1. Refs(Given, 1)
    BY <1>2, <1>4, <1>5, <1>6, <1>7, <1>8 DEF Refs, CompoundRefs, Definable
  <2>2. Refs(Given, 2)
    BY <1>5, <1>7, <1>8 DEF Refs, AttrRefs
  <2>3. Refs(Given, 3)
    BY <1>6, <1>7, <1>8 DEF Refs, AttrRefs
  <2> QED
    BY <2>1, <2>2, <2>3
<1>10. Claims(Given, 2) = {} /\ Claims(Given, 3) = {}
  BY <1>5, <1>6, <1>7 DEF Claims
<1>11. \A o \in DOMAIN Given : ~IsProduct(Given, o)
  BY <1>4, <1>5, <1>6, <1>7 DEF IsProduct, IsAttr
<1> QED
  BY <1>7, <1>8, <1>9, <1>10, <1>11 DEF HeapInv

(* The program starts with the root compound and nothing claimed.          *)
LEMMA OwnInit == Init => OwnInv
<1> SUFFICES ASSUME Init PROVE OwnInv
  OBVIOUS
<1>1. /\ heap = Given /\ sem = <<>> /\ listed = <<>> /\ rc = "parsing" /\ result = 0
      /\ iterated = {} /\ scopes = <<[compound |-> 1, pos |-> 0, bound |-> FALSE]>>
  BY DEF Init
<1>2. HeapInv(heap) /\ IsCompoundObject(heap, 1)
  BY <1>1, GivenHeap
<1>3. SemInv(sem, heap)
  BY <1>1 DEF SemInv
<1>4. ScopeInv
  <2> DEFINE E == [compound : Nat, pos : Nat, bound : BOOLEAN]
             s == [compound |-> 1, pos |-> 0, bound |-> FALSE]
  <2>1. s \in E /\ s.compound = 1
    OBVIOUS
  <2> HIDE DEF s, E
  <2>2. <<s>> \in Seq(E) /\ <<s>> # <<>> /\ DOMAIN <<s>> = {1} /\ <<s>>[1] = s
    BY <2>1
  <2>3. scopes = <<s>>
    BY <1>1 DEF s
  <2> QED
    BY <1>2, <2>1, <2>2, <2>3 DEF ScopeInv, E
<1>5. ListInv /\ ClientInv
  BY <1>1 DEF ListInv, ClientInv
<1> QED
  BY <1>2, <1>3, <1>4, <1>5 DEF OwnInv

(* Every step preserves the invariant.                                     *)
LEMMA OwnNext == OwnInv /\ [Next]_vars => OwnStep
<1> SUFFICES ASSUME OwnInv, [Next]_vars PROVE OwnStep
  OBVIOUS
<1>1. CASE Accept
  BY <1>1, AcceptStep
<1>2. CASE SyntaxError
  BY <1>2, Failed DEF SyntaxError
<1>3. CASE Literal \/ Member
  BY <1>3, LiteralStep, MemberStep
<1>4. CASE Extend
  BY <1>4, ExtendStep
<1>5. CASE Unary \/ EndOperation
  BY <1>5, UnaryStep, EndOperationStep
<1>6. CASE Operator \/ Call \/ Open \/ \E n \in Names \cup {0}, bind \in BOOLEAN : Name(n, bind)
  BY <1>6, TokenSteps
<1>7. CASE EndArgument \/ EndCall
  BY <1>7, EndArgumentStep, EndCallStep
<1>8. CASE OpenOn \/ Colon \/ CloseScope
  BY <1>8, OpenOnStep, ColonStep, CloseScopeStep
<1>9. CASE EndDefinition
  BY <1>9, EndDefinitionStep
<1>10. CASE \/ Iterate \/ DestroyQuery \/ DestroyContext
            \/ UnwindAttribute \/ UnwindCompound \/ ContextGone
  BY <1>10, ClientSteps
<1>11. CASE UNCHANGED vars
  <2>1. OwnInv' /\ heap' = heap /\ sem' = sem
    BY <1>11 DEF vars, OwnInv, ScopeInv, ListInv, ClientInv
  <2> QED
    BY <2>1, KeptSelf, NothingTaken DEF OwnStep, Held
<1> QED
  BY <1>1, <1>2, <1>3, <1>4, <1>5, <1>6, <1>7, <1>8, <1>9, <1>10, <1>11 DEF Next, Parse

(* Whatever the expression, an object has one claim on it at most, and     *)
(* what the semantic values, the context and the client hold is theirs     *)
(* alone: what the reductions of hdql.y rely on to hand it on.             *)
THEOREM OwnInvHolds == Spec => []OwnInv
<1>1. OwnInv /\ [Next]_vars => OwnInv'
  BY OwnNext DEF OwnStep
<1> QED
  BY <1>1, OwnInit, PTL DEF Spec

(* A set whose elements are all the same.                                  *)
LEMMA AtMostOne ==
  ASSUME NEW S, \A u, v \in S : u = v
  PROVE  /\ Cardinality(S) \in {0, 1}
         /\ S = {} => Cardinality(S) = 0
<1>1. CASE S = {}
  BY <1>1, FS_EmptySet
<1>2. CASE S # {}
  <2>1. PICK u \in S : TRUE
    BY <1>2
  <2>2. S = {u}
    BY <2>1
  <2>3. Cardinality({u}) = 1
    BY FS_Singleton
  <2> QED
    BY <1>2, <2>2, <2>3
<1> QED
  BY <1>1, <1>2

(* What an object would destroy is claimed, by it or by a bound attribute. *)
LEMMA OwnedIsClaimed ==
  ASSUME OwnInv, NEW p \in DOMAIN heap, NEW o \in OwnedBy(p)
  PROVE  \/ /\ o \in Claims(heap, p)
            /\ ~(heap[p].kind = "attr" /\ heap[p].sort = "bound")
         \/ \E a \in Claims(heap, p) : \E b \in Claims(heap, heap[a].type) :
              /\ IsProduct(heap, a) /\ heap[a].type \in DOMAIN heap
              /\ IsAttr(heap, b) /\ heap[b].sort = "bound" /\ o \in Claims(heap, b)
<1>1. HeapInv(heap)
  BY DEF OwnInv
<1>2. ASSUME heap[p].kind = "query",
             \E k \in DOMAIN heap[p].links :
               LET a == heap[p].links[k].attr
                   c == heap[a].type
               IN /\ a \in iterated
                  /\ \E n \in DOMAIN heap[c].attrs :
                       LET b == heap[c].attrs[n]
                       IN heap[b].sort = "bound" /\ o = heap[b].data[1]
      PROVE  \E a \in Claims(heap, p) : \E b \in Claims(heap, heap[a].type) :
               /\ IsProduct(heap, a) /\ heap[a].type \in DOMAIN heap
               /\ IsAttr(heap, b) /\ heap[b].sort = "bound" /\ o \in Claims(heap, b)
  <2>1. PICK k \in DOMAIN heap[p].links :
          LET a == heap[p].links[k].attr
              c == heap[a].type
          IN /\ a \in iterated
             /\ \E n \in DOMAIN heap[c].attrs :
                  LET b == heap[c].attrs[n]
                  IN heap[b].sort = "bound" /\ o = heap[b].data[1]
    BY <1>2
  <2> DEFINE a == heap[p].links[k].attr
             c == heap[a].type
  <2>2. PICK n \in DOMAIN heap[c].attrs :
          heap[heap[c].attrs[n]].sort = "bound" /\ o = heap[heap[c].attrs[n]].data[1]
    BY <2>1
  <2> DEFINE b == heap[c].attrs[n]
  <2>3. /\ IsProduct(heap, a) /\ c \in DOMAIN heap /\ b \in Claims(heap, c)
        /\ IsAttr(heap, b) /\ heap[b].data[1] \in Claims(heap, b)
    <3>1. /\ a \in iterated /\ n \in DOMAIN heap[heap[a].type].attrs
          /\ heap[heap[heap[a].type].attrs[n]].sort = "bound"
      BY <2>1, <2>2, Zenon
    <3> HIDE DEF a
    <3> QED
      BY <3>1, IteratedBound, Zenon DEF IsCompoundObject
  <2>4. a \in Claims(heap, p)
    <3>1. QueryRefs(heap, p)
      BY <1>1, <1>2, Zenon DEF HeapInv, Refs
    <3>2. heap[p].links[k].owned
      BY <2>3, <3>1 DEF QueryRefs, Definable, IsProduct
    <3> QED
      BY <1>2, <3>2, Zenon DEF Claims
  <2> QED
    BY <2>2, <2>3, <2>4, Zenon
<1> QED
  BY <1>1, <1>2, OwnedClaimed, Zenon

(* No two objects would destroy the same one, ...                          *)
LEMMA OwnedOnce ==
  ASSUME OwnInv, NEW p \in DOMAIN heap, NEW r \in DOMAIN heap,
         NEW o \in OwnedBy(p) \cap OwnedBy(r)
  PROVE  p = r
<1>1. HeapInv(heap)
  BY DEF OwnInv
<1>2. \A s, t \in DOMAIN heap : \A c : c \in Claims(heap, s) /\ c \in Claims(heap, t) => s = t
  BY <1>1 DEF HeapInv
<1>3. \A a, b \in DOMAIN heap :
        IsProduct(heap, a) /\ IsProduct(heap, b) /\ heap[a].type = heap[b].type => a = b
  BY <1>1 DEF HeapInv
<1>4. \A s \in DOMAIN heap : Claims(heap, s) \subseteq DOMAIN heap
  BY <1>1, ClaimsThere
<1> DEFINE Direct(s) == /\ o \in Claims(heap, s)
                        /\ ~(heap[s].kind = "attr" /\ heap[s].sort = "bound")
           Through(s) == \E a \in Claims(heap, s) : \E b \in Claims(heap, heap[a].type) :
                           /\ IsProduct(heap, a) /\ heap[a].type \in DOMAIN heap
                           /\ IsAttr(heap, b) /\ heap[b].sort = "bound"
                           /\ o \in Claims(heap, b)
<1>5. (Direct(p) \/ Through(p)) /\ (Direct(r) \/ Through(r))
  <2>1. o \in OwnedBy(p) /\ o \in OwnedBy(r)
    OBVIOUS
  <2> QED
    BY <2>1, OwnedIsClaimed
<1>6. \A s, t \in DOMAIN heap : ~(Direct(s) /\ Through(t))
  BY <1>2 DEF IsAttr
<1>7. CASE Direct(p) /\ Direct(r)
  BY <1>2, <1>7
<1>8. CASE Through(p) /\ Through(r)
  <2>1. PICK a \in Claims(heap, p) : \E b \in Claims(heap, heap[a].type) :
          /\ IsProduct(heap, a) /\ heap[a].type \in DOMAIN heap
          /\ IsAttr(heap, b) /\ o \in Claims(heap, b)
    BY <1>8
  <2>2. PICK b \in Claims(heap, heap[a].type) : IsAttr(heap, b) /\ o \in Claims(heap, b)
    BY <2>1
  <2>3. PICK d \in Claims(heap, r) : \E e \in Claims(heap, heap[d].type) :
          /\ IsProduct(heap, d) /\ heap[d].type \in DOMAIN heap
          /\ IsAttr(heap, e) /\ o \in Claims(heap, e)
    BY <1>8
  <2>4. PICK e \in Claims(heap, heap[d].type) : IsAttr(heap, e) /\ o \in Claims(heap, e)
    BY <2>3
  <2>5. b = e
    BY <1>2, <2>2, <2>4 DEF IsAttr
  <2>6. heap[a].type = heap[d].type
    BY <1>2, <2>1, <2>3, <2>5, <2>2, <2>4
  <2>7. a = d
    BY <1>3, <2>1, <2>3, <2>6 DEF IsProduct, IsAttr
  <2> QED
    BY <1>2, <2>1, <2>3, <2>7
<1> QED
  BY <1>5, <1>6, <1>7, <1>8

(* A semantic value that holds an object, and one that is held.            *)
LEMMA HeldBySem ==
  ASSUME OwnInv, NEW o \in DOMAIN heap, NEW i \in DOMAIN sem,
         \/ sem[i].is \in {"query", "open"} /\ sem[i].q = o
         \/ sem[i].is = "call" /\ o \in Range(sem[i].args)
  PROVE  o \in Holds(sem[i]) /\ IsQuery(heap, o) /\ Unclaimed(heap, o)
<1>1. o # 0
  BY DEF OwnInv, HeapInv
<1>2. o \in Holds(sem[i])
  <2>1. CASE sem[i].is \in {"query", "open"} /\ sem[i].q = o
    BY <1>1, <2>1 DEF Holds
  <2>2. CASE sem[i].is = "call" /\ o \in Range(sem[i].args)
    BY <2>2 DEF Holds, Range
  <2> QED
    BY <2>1, <2>2
<1> QED
  BY <1>2 DEF OwnInv, SemInv, ItemRefs

(* ... no two values, and none a value holds; ...                          *)
LEMMA HeldOnce ==
  ASSUME OwnInv, NEW o \in DOMAIN heap
  PROVE  /\ \A u, v \in Holders(o) : u = v
         /\ \A p \in DOMAIN heap : o \in OwnedBy(p) => Holders(o) = {}
<1> DEFINE InSem(i) == /\ i \in DOMAIN sem
                       /\ \/ sem[i].is \in {"query", "open"} /\ sem[i].q = o
                          \/ sem[i].is = "call" /\ o \in Range(sem[i].args)
           InList(i) == i \in DOMAIN listed /\ listed[i] = o
<1>1. \A u : u \in Holders(o) <=> \/ \E i : InSem(i) /\ u = <<"sem", i>>
                                  \/ \E i : InList(i) /\ u = <<"listed", i>>
                                  \/ result = o /\ u = <<"client">>
  BY DEF Holders
<1>2. \A i : InSem(i) => o \in Holds(sem[i]) /\ IsQuery(heap, o) /\ Unclaimed(heap, o)
  BY HeldBySem
<1>3. \A i : InList(i) => heap[o].kind = "compound"
  BY DEF OwnInv, ListInv, IsCompoundObject
<1>4. result = o => /\ heap[o].kind = "query" /\ Unclaimed(heap, o)
                    /\ sem = <<>>
  <2>1. o # 0
    BY DEF OwnInv, HeapInv
  <2> QED
    BY <2>1 DEF OwnInv, ClientInv, IsQuery
<1>5. \A i, j : InSem(i) /\ InSem(j) => i = j
  BY <1>2 DEF OwnInv, SemInv, Apart
<1>6. \A i, j : InList(i) /\ InList(j) => i = j
  BY DEF OwnInv, ListInv
<1>7. \A i : InSem(i) => sem # <<>> /\ heap[o].kind = "query"
  <2>1. \A i : i \in DOMAIN sem => sem # <<>>
    BY DEF OwnInv, SemInv
  <2> QED
    BY <1>2, <2>1 DEF IsQuery
<1>8. \A p \in DOMAIN heap : o \in OwnedBy(p) => ~Unclaimed(heap, o) /\ heap[o].kind # "compound"
  <2> SUFFICES ASSUME NEW p \in DOMAIN heap, o \in OwnedBy(p)
               PROVE  ~Unclaimed(heap, o) /\ heap[o].kind # "compound"
    OBVIOUS
  <2>1. PICK r \in DOMAIN heap : o \in Claims(heap, r)
    BY OwnedIsClaimed DEF IsAttr
  <2>2. Refs(heap, r) /\ heap[r].kind \in {"query", "attr", "compound"}
    BY ObjectKinds DEF OwnInv, HeapInv
  <2>3. heap[o].kind # "compound"
    <3>1. CASE heap[r].kind = "query"
      BY <2>1, <2>2, <3>1 DEF Claims, Refs, QueryRefs, IsAttr
    <3>2. CASE heap[r].kind = "attr"
      BY <2>1, <2>2, <3>2 DEF Claims, Refs, AttrRefs, IsQuery
    <3>3. CASE heap[r].kind = "compound"
      BY <2>1, <2>2, <3>3 DEF Claims, Refs, CompoundRefs, IsAttr
    <3> QED
      BY <2>2, <3>1, <3>2, <3>3
  <2> QED
    BY <2>1, <2>3 DEF Unclaimed
<1> HIDE DEF InSem, InList
<1>9. \A u, v \in Holders(o) : u = v
  BY <1>1, <1>3, <1>4, <1>5, <1>6, <1>7
<1>10. ASSUME NEW p \in DOMAIN heap, o \in OwnedBy(p) PROVE Holders(o) = {}
  BY <1>1, <1>2, <1>3, <1>4, <1>8, <1>10
<1> QED
  BY <1>9, <1>10

(* ... which is what the property counts.                                  *)
LEMMA OwnInvOneOwner == OwnInv => OneOwner
<1> SUFFICES ASSUME OwnInv, NEW o \in Live \ DOMAIN Given
             PROVE  LET owned == [p \in Live |-> OwnedBy(p)]
                    IN Cardinality({p \in Live : o \in owned[p]})
                       + Cardinality(Holders(o)) <= 1
  BY DEF OneOwner
<1> DEFINE owned == [p \in Live |-> OwnedBy(p)]
           Own == {p \in Live : o \in owned[p]}
<1>1. o \in DOMAIN heap /\ Live \subseteq DOMAIN heap
  BY DEF Live
<1>2. \A p \in Own : p \in DOMAIN heap /\ o \in OwnedBy(p)
  BY <1>1
<1> HIDE DEF Own
<1>3. \A p, r \in Own : p = r
  BY <1>2, OwnedOnce
<1>4. /\ \A u, v \in Holders(o) : u = v
      /\ Own # {} => Holders(o) = {}
  BY <1>1, <1>2, HeldOnce
<1>5. /\ Cardinality(Own) \in {0, 1} /\ (Own = {} => Cardinality(Own) = 0)
  BY <1>3, AtMostOne
<1>6. /\ Cardinality(Holders(o)) \in {0, 1}
      /\ (Holders(o) = {} => Cardinality(Holders(o)) = 0)
  BY <1>4, AtMostOne
<1>7. Cardinality(Own) + Cardinality(Holders(o)) <= 1
  BY <1>4, <1>5, <1>6
<1> QED
  BY <1>7 DEF Own

(* Nothing is destroyed twice: of the objects, the semantic values, the    *)
(* list of virtual compounds and the client, one at most would destroy a   *)
(* given object (HDQL_QUERY_OWNS_SUBJECT, bound-value.c:328).              *)
THEOREM OneOwnerHolds == Spec => []OneOwner
<1> QED
  BY OwnInvHolds, OwnInvOneOwner, PTL
-----------------------------------------------------------------------------
(***************************************************************************)
(* What is destroyed.                                                      *)
(***************************************************************************)

(* What an object names; the queries of bound attributes are lost sight of *)
(* once the compiled query is gone, for an iterator destroys them.         *)
Mentions(obj, strong) ==
  CASE obj.kind = "query" -> {obj.links[k].attr : k \in DOMAIN obj.links}
    [] obj.kind = "attr" ->
         ({obj.type} \ {0}) \cup {obj.top}
         \cup {obj.data[k] : k \in {j \in DOMAIN obj.data : strong \/ obj.sort # "bound"}}
    [] obj.kind = "compound" ->
         {obj.attrs[n] : n \in DOMAIN obj.attrs} \cup ({obj.parent} \ {0})

(* Nothing that is there names anything of F.                              *)
Safe(hp, F, strong) ==
  \A o \in DOMAIN hp \ F : Mentions(hp[o], strong) \cap F = {}

(* F is destroyed with queries that were nobody's: no attribute of a       *)
(* compound is in it, its attributes belong to queries of it and its       *)
(* queries to attributes of it or to nobody, or are bound.                 *)
Gone(hp, F, strong) ==
  /\ F \subseteq DOMAIN hp
  /\ \A e \in F : \/ hp[e].kind = "query"
                  \/ /\ hp[e].kind = "attr" /\ hp[e].sort \notin Definable
                     /\ \E d \in F : hp[d].kind = "query" /\ e \in Claims(hp, d)
  /\ \A e \in F, p \in DOMAIN hp :
       hp[e].kind = "query" /\ e \in Claims(hp, p) =>
         \/ p \in F
         \/ IsAttr(hp, p) /\ hp[p].sort = "bound" /\ ~strong

(* While the parser is at work only operands of constant expressions were  *)
(* destroyed, which no semantic value holds.                               *)
LiveInv ==
  /\ rc = "parsing" => /\ iterated = {} /\ context = "live"
                       /\ Gone(heap, freed, TRUE)
                       /\ Held \cap freed = {}
  /\ rc # "parsing" /\ context = "live" =>
       /\ Safe(heap, freed, result # 0)
       /\ rc = "ok" => \A i \in DOMAIN listed : listed[i] \notin freed

(* What is named is there.                                                 *)
LEMMA MentionsThere ==
  ASSUME NEW hp, HeapInv(hp), NEW o \in DOMAIN hp, NEW strong
  PROVE  Mentions(hp[o], strong) \subseteq DOMAIN hp
<1>1. hp[o] \in Object /\ hp[o].kind \in {"query", "attr", "compound"} /\ Refs(hp, o)
  BY ObjectKinds DEF HeapInv
<1>2. CASE hp[o].kind = "query"
  BY <1>1, <1>2 DEF Refs, QueryRefs, IsAttr, Mentions
<1>3. CASE hp[o].kind = "attr"
  <2>1. hp[o].top \in DOMAIN hp /\ (hp[o].type # 0 => hp[o].type \in DOMAIN hp)
    BY <1>1, <1>3 DEF Refs, AttrRefs, IsAttr, IsCompoundObject
  <2>2. \A k \in DOMAIN hp[o].data : hp[o].data[k] \in DOMAIN hp
    BY <1>1, <1>3 DEF Refs, AttrRefs, IsQuery
  <2> QED
    BY <1>3, <2>1, <2>2 DEF Mentions
<1>4. CASE hp[o].kind = "compound"
  BY <1>1, <1>4 DEF Refs, CompoundRefs, IsAttr, IsCompoundObject, Mentions
<1> QED
  BY <1>1, <1>2, <1>3, <1>4

(* While the parser is at work and while the compiled query is there more  *)
(* is mentioned than otherwise.                                            *)
LEMMA SafeWeak ==
  ASSUME NEW hp, HeapInv(hp), NEW F, Safe(hp, F, TRUE), NEW strong
  PROVE  Safe(hp, F, strong)
<1> SUFFICES ASSUME NEW o \in DOMAIN hp \ F
             PROVE  Mentions(hp[o], strong) \subseteq Mentions(hp[o], TRUE)
  BY DEF Safe
<1>1. hp[o].kind \in {"query", "attr", "compound"}
  BY ObjectKinds DEF HeapInv
<1> QED
  BY <1>1 DEF Mentions

(* What is destroyed with queries that are nobody's: attributes that no    *)
(* compound has, their queries and so on.                                  *)
LEMMA ClosureIs ==
  ASSUME OwnInv, NEW S, \A q \in S : IsQuery(heap, q)
  PROVE  LET D == Closure(S) IN
         /\ S \subseteq D /\ D \subseteq DOMAIN heap
         /\ \A o \in D : o \in S \/ \E d \in D : o \in OwnedBy(d)
         /\ \A o \in D : \/ heap[o].kind = "query"
                         \/ heap[o].kind = "attr" /\ heap[o].sort \notin Definable
<1> DEFINE f == [o \in DOMAIN heap |-> OwnedBy(o)]
           D == Reach(f, S)
           C == {o \in DOMAIN heap : \/ heap[o].kind = "query"
                                     \/ heap[o].kind = "attr" /\ heap[o].sort \notin Definable}
           C2 == {o \in D : o \in S \/ \E d \in D : o \in OwnedBy(d)}
<1>1. HeapInv(heap) /\ DOMAIN f = 1..Len(heap) /\ Len(heap) \in Nat
  BY DEF OwnInv, HeapInv
<1>2. IsFiniteSet(DOMAIN f) /\ DOMAIN f = DOMAIN heap /\ \A o \in DOMAIN heap : f[o] = OwnedBy(o)
  BY <1>1, FS_Interval
<1>3. \A o \in DOMAIN f : f[o] \subseteq DOMAIN f
  BY <1>2, OwnedThere
<1>4. S \subseteq DOMAIN f /\ S \subseteq C
  BY <1>2 DEF IsQuery
<1>5. ASSUME NEW o \in C, NEW e \in f[o] PROVE e \in C
  <2>1. e \in OwnedBy(o) /\ e \in DOMAIN heap
    BY <1>2, <1>3, <1>5
  <2>2. CASE e \in Claims(heap, o)
    <3>1. CASE heap[o].kind = "query"
      <4>1. QueryRefs(heap, o)
        BY <1>1, <3>1, <1>5 DEF HeapInv, Refs
      <4> QED
        BY <2>1, <2>2, <3>1, <4>1 DEF Claims, QueryRefs, IsAttr
    <3>2. CASE heap[o].kind = "attr"
      <4>1. AttrRefs(heap, o)
        BY <1>1, <3>2, <1>5 DEF HeapInv, Refs
      <4> QED
        BY <2>1, <2>2, <3>2, <4>1 DEF Claims, AttrRefs, IsQuery
    <3> QED
      BY <1>5, <3>1, <3>2
  <2>3. CASE \E a \in Claims(heap, o) : \E b \in Claims(heap, heap[a].type) :
              /\ IsProduct(heap, a) /\ heap[a].type \in DOMAIN heap
              /\ IsAttr(heap, b) /\ heap[b].sort = "bound" /\ e \in Claims(heap, b)
    <3>1. PICK b : IsAttr(heap, b) /\ e \in Claims(heap, b)
      BY <2>3
    <3>2. AttrRefs(heap, b)
      BY <1>1, <3>1 DEF HeapInv, Refs, IsAttr
    <3> QED
      BY <3>1, <3>2 DEF Claims, AttrRefs, IsQuery, IsAttr
  <2> QED
    BY <1>5, <2>1, <2>2, <2>3, OwnedIsClaimed
<1> HIDE DEF f, C
<1>6. S \subseteq D /\ D \subseteq C
  BY <1>2, <1>4, <1>5, ReachWithin
<1>7. \A o \in D : f[o] \subseteq D
  BY <1>2, <1>3, <1>4, ReachClosed
<1>8. D \subseteq DOMAIN heap
  BY <1>6 DEF C
<1>9. S \subseteq C2 /\ \A o \in C2 : f[o] \subseteq C2
  BY <1>2, <1>6, <1>7, <1>8
<1> HIDE DEF C2, D
<1>10. D \subseteq C2
  BY <1>2, <1>9, ReachWithin DEF D
<1>11. Closure(S) = D
  BY DEF Closure, D, f
<1> QED
  BY <1>6, <1>8, <1>10, <1>11 DEF C, C2

(* It belongs to nobody else.                                              *)
LEMMA ClosureGone ==
  ASSUME OwnInv, NEW S, \A q \in S : IsQuery(heap, q) /\ Unclaimed(heap, q),
         NEW strong \in BOOLEAN, strong => iterated = {}
  PROVE  Gone(heap, Closure(S), strong)
<1> DEFINE D == Closure(S)
<1>1. /\ S \subseteq D /\ D \subseteq DOMAIN heap
      /\ \A e \in D : e \in S \/ \E d \in D : e \in OwnedBy(d)
      /\ \A e \in D : \/ heap[e].kind = "query"
                      \/ heap[e].kind = "attr" /\ heap[e].sort \notin Definable
  BY ClosureIs
<1> HIDE DEF D
<1>2. HeapInv(heap)
  BY DEF OwnInv
<1>3. \A p, e, t \in DOMAIN heap :
        t \in Claims(heap, p) /\ t \in Claims(heap, e) => p = e
  BY <1>2 DEF HeapInv
<1>4. ASSUME NEW e \in D, heap[e].kind = "attr"
      PROVE  \E d \in D : e \in Claims(heap, d) /\ heap[d].kind = "query"
  <2>1. e \notin S
    BY <1>4 DEF IsQuery
  <2>2. PICK d \in D : e \in OwnedBy(d)
    BY <1>1, <2>1
  <2>3. d \in DOMAIN heap /\ e \in DOMAIN heap
    BY <1>1
  <2>4. CASE e \in Claims(heap, d)
    <3>1. CASE heap[d].kind = "attr"
      <4>1. AttrRefs(heap, d)
        BY <1>2, <2>3, <3>1 DEF HeapInv, Refs
      <4> QED
        BY <1>4, <2>4, <3>1, <4>1 DEF Claims, AttrRefs, IsQuery
    <3> QED
      BY <1>1, <2>4, <3>1
  <2>5. CASE \E a \in Claims(heap, d) : \E b \in Claims(heap, heap[a].type) :
              /\ IsProduct(heap, a) /\ heap[a].type \in DOMAIN heap
              /\ IsAttr(heap, b) /\ heap[b].sort = "bound" /\ e \in Claims(heap, b)
    <3>1. PICK b : IsAttr(heap, b) /\ e \in Claims(heap, b)
      BY <2>5
    <3>2. AttrRefs(heap, b)
      BY <1>2, <3>1, Zenon DEF HeapInv, Refs, IsAttr
    <3> QED
      BY <1>4, <3>1, <3>2 DEF Claims, AttrRefs, IsQuery, IsAttr
  <2> QED
    BY <2>2, <2>3, <2>4, <2>5, OwnedIsClaimed
  (* A query among them is a root, belongs to one of them, or is bound to a *)
  (* compound that was iterated. *)
<1>5. ASSUME NEW e \in D, NEW p \in DOMAIN heap, e \in Claims(heap, p), heap[e].kind = "query"
      PROVE  \/ p \in D /\ ~(heap[p].kind = "attr" /\ heap[p].sort = "bound")
             \/ /\ IsAttr(heap, p) /\ heap[p].sort = "bound" /\ ~strong
  <2>1. e \notin S
    BY <1>5 DEF Unclaimed
  <2>2. PICK d \in D : e \in OwnedBy(d)
    BY <1>1, <2>1
  <2>3. d \in DOMAIN heap /\ e \in DOMAIN heap
    BY <1>1
  <2>4. CASE /\ e \in Claims(heap, d)
             /\ heap[d].kind = "attr" => heap[d].sort # "bound"
    <3>1. p = d
      BY <1>3, <1>5, <2>3, <2>4
    <3> QED
      BY <2>4, <3>1
  <2>5. CASE /\ heap[d].kind = "query"
             /\ \E k \in DOMAIN heap[d].links :
                  LET a == heap[d].links[k].attr
                      c == heap[a].type
                  IN /\ a \in iterated
                     /\ \E n \in DOMAIN heap[c].attrs :
                          LET b == heap[c].attrs[n]
                          IN heap[b].sort = "bound" /\ e = heap[b].data[1]
    <3>1. iterated # {}
      BY <2>5, Zenon
    <3>2. \E a \in iterated : \E n \in DOMAIN heap[heap[a].type].attrs :
            /\ heap[heap[heap[a].type].attrs[n]].sort = "bound"
            /\ e = heap[heap[heap[a].type].attrs[n]].data[1]
      BY <2>5
    <3>3. PICK a \in iterated : \E n \in DOMAIN heap[heap[a].type].attrs :
            /\ heap[heap[heap[a].type].attrs[n]].sort = "bound"
            /\ e = heap[heap[heap[a].type].attrs[n]].data[1]
      BY <3>2
    <3>4. PICK n \in DOMAIN heap[heap[a].type].attrs :
            /\ heap[heap[heap[a].type].attrs[n]].sort = "bound"
            /\ e = heap[heap[heap[a].type].attrs[n]].data[1]
      BY <3>3
    <3> DEFINE b == heap[heap[a].type].attrs[n]
    <3>5. IsAttr(heap, b) /\ heap[b].sort = "bound" /\ e \in Claims(heap, b)
      BY <3>4, IteratedBound
    <3>6. p = b
      BY <1>3, <1>5, <2>3, <3>5 DEF IsAttr
    <3> QED
      BY <3>1, <3>5, <3>6, Zenon
  <2> QED
    BY <1>2, <2>2, <2>3, <2>4, <2>5, OwnedClaimed
<1> QED
  <2>1. \A e \in D, p \in DOMAIN heap :
          heap[e].kind = "query" /\ e \in Claims(heap, p) =>
            p \in D \/ (IsAttr(heap, p) /\ heap[p].sort = "bound" /\ ~strong)
    BY <1>5
  <2> QED
    BY <1>1, <1>4, <2>1 DEF Gone, D

(* Nothing that stays mentions what is gone that way.                      *)
LEMMA GoneSafe ==
  ASSUME NEW hp, HeapInv(hp), NEW D, NEW strong \in BOOLEAN, Gone(hp, D, strong)
  PROVE  Safe(hp, D, strong)
<1> SUFFICES ASSUME NEW o \in DOMAIN hp \ D
             PROVE  Mentions(hp[o], strong) \cap D = {}
  BY DEF Safe
<1>1. /\ D \subseteq DOMAIN hp
      /\ \A e \in D : \/ hp[e].kind = "query"
                      \/ hp[e].kind = "attr" /\ hp[e].sort \notin Definable
  BY DEF Gone
<1>2. /\ hp[o].kind \in {"query", "attr", "compound"} /\ Refs(hp, o)
      /\ o \in DOMAIN hp /\ o \notin D
  BY ObjectKinds DEF HeapInv
<1>3. \A p, e, t \in DOMAIN hp :
        t \in Claims(hp, p) /\ t \in Claims(hp, e) => p = e
  BY DEF HeapInv
<1>4. \A e \in D : hp[e].kind = "attr" =>
        \E d \in D : e \in Claims(hp, d) /\ hp[d].kind = "query"
  BY DEF Gone
<1>5. \A e \in D, p \in DOMAIN hp :
        hp[e].kind = "query" /\ e \in Claims(hp, p) =>
          p \in D \/ (IsAttr(hp, p) /\ hp[p].sort = "bound" /\ ~strong)
  BY DEF Gone
  (* What a compound or a forwarding attribute leads to stays. *)
<1>6. ASSUME NEW a \in D, hp[a].kind = "attr", Settled(hp, a) PROVE FALSE
  <2>1. hp[a].sort \notin Definable
    BY <1>1, <1>6
  <2>2. PICK b, q \in DOMAIN hp :
          /\ IsAttr(hp, b) /\ hp[b].sort = "forward"
          /\ q \in Claims(hp, b) /\ IsQuery(hp, q) /\ a \in Claims(hp, q)
    BY <1>6, <2>1 DEF Settled
  <2>3. PICK d \in D : a \in Claims(hp, d) /\ hp[d].kind = "query"
    BY <1>4, <1>6
  <2>4. d = q /\ a \in DOMAIN hp
    BY <1>1, <1>3, <2>2, <2>3
  <2>5. b \in D
    BY <1>5, <2>2, <2>3, <2>4 DEF IsQuery
  <2> QED
    BY <1>1, <2>2, <2>5 DEF IsAttr, Definable
<1>7. CASE hp[o].kind = "query"
  <2> SUFFICES ASSUME NEW k \in DOMAIN hp[o].links, hp[o].links[k].attr \in D PROVE FALSE
    BY <1>7 DEF Mentions
  <2> DEFINE a == hp[o].links[k].attr
  <2>1. IsAttr(hp, a) /\ (hp[o].links[k].owned <=> hp[a].sort \notin Definable)
    BY <1>2, <1>7 DEF Refs, QueryRefs
  <2>2. hp[a].kind = "attr" /\ hp[a].sort \notin Definable
    BY <1>1, <2>1 DEF IsAttr
  <2>3. a \in Claims(hp, o)
    BY <1>7, <2>1, <2>2 DEF Claims
  <2>4. PICK d \in D : a \in Claims(hp, d)
    BY <1>4, <2>2
  <2> QED
    BY <1>1, <1>2, <1>3, <2>3, <2>4
<1>8. CASE hp[o].kind = "attr"
  <2>1. AttrRefs(hp, o)
    BY <1>2, <1>8 DEF Refs
  <2>2. hp[o].type # 0 => hp[o].type \notin D
    BY <1>1, <2>1 DEF AttrRefs, IsCompoundObject
  <2>3. hp[o].top \notin D
    <3>1. CASE hp[o].sort = "forward"
      BY <1>6, <2>1, <3>1 DEF AttrRefs, IsAttr
    <3>2. CASE hp[o].sort # "forward"
      BY <1>2, <2>1, <3>2 DEF AttrRefs
    <3> QED
      BY <3>1, <3>2
  <2>4. ASSUME NEW k \in DOMAIN hp[o].data, strong \/ hp[o].sort # "bound",
               hp[o].data[k] \in D
        PROVE  FALSE
    <3> DEFINE q == hp[o].data[k]
    <3>1. q \in Claims(hp, o) /\ IsQuery(hp, q)
      BY <1>8, <2>1 DEF Claims, AttrRefs
    <3>2. hp[q].kind = "query"
      BY <3>1 DEF IsQuery
    <3> HIDE DEF q
    <3>3. /\ o \notin D
          /\ ~(IsAttr(hp, o) /\ hp[o].sort = "bound" /\ ~strong)
      BY <1>2, <2>4
    <3>4. q \in D
      BY <2>4 DEF q
    <3> QED
      BY <1>2, <1>5, <3>1, <3>2, <3>3, <3>4
  <2> QED
    BY <1>8, <2>2, <2>3, <2>4 DEF Mentions
<1>9. CASE hp[o].kind = "compound"
  <2>1. CompoundRefs(hp, o)
    BY <1>2, <1>9 DEF Refs
  <2>2. \A n \in DOMAIN hp[o].attrs : hp[o].attrs[n] \notin D
    BY <1>1, <2>1 DEF CompoundRefs, IsAttr
  <2>3. hp[o].parent # 0 => hp[o].parent \notin D
    BY <1>1, <2>1 DEF CompoundRefs, IsCompoundObject
  <2> QED
    BY <1>9, <2>2, <2>3 DEF Mentions
<1> QED
  BY <1>2, <1>7, <1>8, <1>9

(* More than one lot of them.                                              *)
LEMMA GoneBoth ==
  ASSUME NEW hp, NEW D, NEW G, NEW strong, Gone(hp, D, strong), Gone(hp, G, strong)
  PROVE  Gone(hp, D \cup G, strong)
BY DEF Gone

(* What is gone stays gone in a step that leaves its queries nobody's.     *)
LEMMA GoneLater ==
  ASSUME OwnInv, OwnStep, NEW F, Gone(heap, F, TRUE),
         \A e \in F : Unclaimed(heap, e) => Unclaimed(heap', e)
  PROVE  Gone(heap', F, TRUE)
<1> DEFINE hq == heap'
<1>1. /\ HeapInv(heap) /\ HeapInv(hq) /\ Kept(heap, hq)
      /\ \A e \in F : Unclaimed(heap, e) => Unclaimed(hq, e)
  BY DEF OwnInv, OwnStep
<1> HIDE DEF hq
<1>2. F \subseteq DOMAIN heap /\ F \subseteq DOMAIN hq
  BY <1>1 DEF Gone, Kept
<1>3. \A e \in F : \/ hq[e].kind = "query"
                   \/ /\ hq[e].kind = "attr" /\ hq[e].sort \notin Definable
                      /\ \E d \in F : hq[d].kind = "query" /\ e \in Claims(hq, d)
  BY <1>1, <1>2 DEF Gone, Kept
<1>4. ASSUME NEW e \in F, NEW p \in DOMAIN hq, hq[e].kind = "query", e \in Claims(hq, p)
      PROVE  p \in F
  <2>1. e \in DOMAIN heap /\ heap[e].kind = "query"
    BY <1>1, <1>2, <1>4 DEF Kept
  <2>2. ~Unclaimed(hq, e)
    BY <1>4 DEF Unclaimed
  <2>3. PICK r \in DOMAIN heap : e \in Claims(heap, r)
    BY <1>1, <2>1, <2>2 DEF Unclaimed
  <2>4. r \in F
    BY <2>1, <2>3 DEF Gone
  <2>5. r \in DOMAIN hq /\ e \in Claims(hq, r)
    BY <1>1, <2>3 DEF Kept
  <2> QED
    BY <1>1, <1>4, <2>4, <2>5 DEF HeapInv
<1>5. Gone(hq, F, TRUE)
  BY <1>2, <1>3, <1>4 DEF Gone
<1> QED
  BY <1>5 DEF hq

(* ... as every step does that destroys nothing.                           *)
LEMMA GoneStep ==
  ASSUME OwnInv, OwnStep, Gone(heap, freed, TRUE), Held \cap freed = {}
  PROVE  Gone(heap', freed, TRUE) /\ Held' \cap freed = {}
<1>1. freed \subseteq DOMAIN heap
  BY DEF Gone
<1>2. \A e \in freed : Unclaimed(heap, e) => Unclaimed(heap', e)
  BY <1>1 DEF OwnStep, Untaken
<1>3. Held' \cap DOMAIN heap \subseteq Held
  BY DEF OwnStep
<1> QED
  BY <1>1, <1>2, <1>3, GoneLater

(* Queries that semantic values hold, when they are destroyed.             *)
LEMMA FoldGone ==
  ASSUME OwnInv, LiveInv, rc = "parsing", NEW S, S \subseteq Held
  PROVE  /\ Gone(heap, freed \cup Closure(S), TRUE)
         /\ \A q \in Held : q \in Closure(S) => q \in S
<1>1. \A q \in Held : IsQuery(heap, q) /\ Unclaimed(heap, q)
  BY DEF Held, OwnInv, SemInv, ItemRefs
<1>2. iterated = {} /\ Gone(heap, freed, TRUE)
  BY DEF LiveInv
<1>3. Gone(heap, Closure(S), TRUE)
  BY <1>1, <1>2, ClosureGone
<1>4. ASSUME NEW q \in Held, q \in Closure(S), q \notin S PROVE FALSE
  <2>1. PICK d \in Closure(S) : q \in OwnedBy(d)
    BY <1>1, <1>4, ClosureIs
  <2>2. d \in DOMAIN heap
    BY <1>3, Zenon DEF Gone
  <2>3. q \in Claims(heap, d)
    BY <1>2, <2>1, <2>2, OwnedClaimed DEF OwnInv
  <2> QED
    BY <1>1, <2>2, <2>3 DEF Unclaimed
<1> QED
  BY <1>2, <1>3, <1>4, GoneBoth

(* What lies below the topmost values holds nothing of theirs.             *)
LEMMA HeldApart ==
  ASSUME OwnInv, NEW n \in 0..Len(sem), NEW i \in DOMAIN Below(n)
  PROVE  /\ i \in DOMAIN sem /\ Below(n)[i] = sem[i] /\ Below(n) \in Seq(ItemSet)
         /\ Holds(sem[i]) \cap HeldAbove(sem, n) = {}
<1> DEFINE low == Below(n)
<1>1. sem \in Seq(ItemSet) /\ low = SubSeq(sem, 1, Len(sem) - n)
  BY DEF OwnInv, SemInv, Below
<1> HIDE DEF low
<1>2. /\ low \in Seq(ItemSet) /\ DOMAIN low = 1..(Len(sem) - n) /\ Len(sem) \in Nat
      /\ DOMAIN sem = 1..Len(sem)
      /\ \A k \in DOMAIN low : low[k] = sem[k] /\ k \in DOMAIN sem
  BY <1>1, PrefixIs
<1>3. i \in DOMAIN low
  BY DEF low
<1>4. \A k \in (Len(sem) - n + 1)..Len(sem) : k \in DOMAIN sem /\ k # i
  BY <1>2, <1>3
<1>5. \A k \in (Len(sem) - n + 1)..Len(sem) : Apart(sem[i], sem[k])
  BY <1>2, <1>3, <1>4 DEF OwnInv, SemInv
<1> QED
  BY <1>2, <1>3, <1>5 DEF Apart, HeldAbove, low

(* A step of the parser that destroys nothing: it goes on or gives up.     *)
Plain == /\ rc = "parsing" /\ rc' \in {"parsing", "error", "aborted"}
         /\ freed' = freed /\ UNCHANGED client

(* A step that destroys nothing, or what was nobody's, preserves LiveInv.  *)
LEMMA LivePlain == ASSUME OwnInv, OwnStep, LiveInv, Plain PROVE LiveInv'
<1>1. /\ Gone(heap, freed, TRUE) /\ Held \cap freed = {} /\ iterated = {} /\ context = "live"
  BY DEF LiveInv, Plain
<1>2. Gone(heap', freed, TRUE) /\ Held' \cap freed = {}
  BY <1>1, GoneStep
<1>3. /\ freed' = freed /\ iterated' = iterated /\ context' = context /\ result' = result
      /\ rc' \in {"parsing", "error", "aborted"}
  BY DEF Plain, client
<1>4. Safe(heap', freed, result' # 0)
  <2> DEFINE hq == heap'
             strong == result' # 0
  <2>1. HeapInv(hq) /\ Gone(hq, freed, TRUE)
    BY <1>2 DEF OwnStep, OwnInv
  <2> HIDE DEF hq, strong
  <2>2. Safe(hq, freed, strong)
    BY <2>1, GoneSafe, SafeWeak
  <2> QED
    BY <2>2 DEF hq, strong
<1> QED
  BY <1>1, <1>2, <1>3, <1>4 DEF LiveInv

(* Constant operands are destroyed when they were evaluated.               *)
LEMMA LiveFolded ==
  ASSUME OwnInv, OwnStep, LiveInv, rc = "parsing", NEW n \in 0..Len(sem),
         NEW S, S \subseteq HeldAbove(sem, n),
         heap' = heap \o Wrapped(Attr("static", TRUE, FALSE, 0, <<>>, Self)),
         freed' = freed \cup Closure(S),
         sem' = Append(Below(n), Query(WrappedId, FALSE)), rc' = rc, UNCHANGED client
  PROVE  LiveInv'
<1> DEFINE F == freed \cup Closure(S)
           obj == Attr("static", TRUE, FALSE, 0, <<>>, Self)
           it == Query(WrappedId, FALSE)
<1>1. /\ Gone(heap, freed, TRUE) /\ Held \cap freed = {} /\ iterated = {} /\ context = "live"
  BY DEF LiveInv
<1>2. /\ Gone(heap, F, TRUE)
      /\ \A q \in Held : q \in Closure(S) => q \in S
  BY FoldGone, HeldAboveHeld
<1>3. HeapInv(heap) /\ Self \in Nat /\ Self = Len(heap) + 1
  BY DEF OwnInv, HeapInv, Self
<1>4. Later(heap, heap', {}, {}) /\ WrappedId \in Nat \ {0} /\ WrappedId \notin DOMAIN heap
  <2>1. /\ obj \in AttrObject /\ obj.top = Len(heap) + 1 /\ obj.data = <<>> /\ obj.type = 0
        /\ obj.sort = "static" /\ obj.atomic /\ obj.kind = "attr"
    BY <1>3 DEF Attr, AttrObject, Sorts
  <2>2. heap' = heap \o <<obj, Chain(Len(heap) + 1, TRUE)>>
    BY <1>3 DEF Wrapped
  <2> HIDE DEF obj
  <2>3. DOMAIN obj.data = {} /\ {obj.data[k] : k \in DOMAIN obj.data} = {} /\ Typed(obj) = {}
    BY <2>1 DEF Typed
  <2>4. /\ obj.top = Len(heap) + 1 /\ obj.sort \notin Definable
        /\ \A k \in DOMAIN obj.data : IsQuery(heap, obj.data[k]) /\ Unclaimed(heap, obj.data[k])
        /\ obj.type # 0 => IsCompoundObject(heap, obj.type)
        /\ obj.sort # "forward" /\ ~obj.atomic => obj.type # 0
        /\ obj.sort = "bound" => Len(obj.data) = 1
        /\ obj.sort = "product" => obj.type # 0 /\ Unbuilt(heap, obj.type)
    BY <2>1, <2>3 DEF Definable
  <2>5. LET hq == heap \o <<obj, Chain(Len(heap) + 1, TRUE)>>
            id == Len(heap) + 2
        IN /\ HeapInv(hq)
           /\ Later(heap, hq, {obj.data[k] : k \in DOMAIN obj.data}, Typed(obj))
           /\ id \in Nat \ {0} /\ id \notin DOMAIN heap
           /\ IsQuery(hq, id) /\ Unclaimed(hq, id)
    BY <1>3, <2>1, <2>4, GrowWrapped
  <2> QED
    BY <2>2, <2>3, <2>5 DEF WrappedId
<1> HIDE DEF F
<1>5. F \subseteq DOMAIN heap
  BY <1>2 DEF Gone
<1>6. Gone(heap', F, TRUE)
  <2>1. \A e \in F : Unclaimed(heap, e) => Unclaimed(heap', e)
    BY <1>4, <1>5 DEF Later
  <2> QED
    BY <1>2, <2>1, GoneLater
<1>7. it \in ItemSet /\ Holds(it) = {WrappedId}
  BY <1>4 DEF Query, ItemSet, Holds
<1> HIDE DEF it
<1>8. Held' \cap F = {}
  <2> DEFINE low == Below(n)
             sm == Append(low, it)
  <2>1. low \in Seq(ItemSet)
    <3>1. sem \in Seq(ItemSet) /\ low = SubSeq(sem, 1, Len(sem) - n)
      BY DEF OwnInv, SemInv, Below
    <3> HIDE DEF low
    <3> QED
      BY <3>1, PrefixIs
  <2>2. \A i \in DOMAIN low :
          Holds(low[i]) \subseteq Held /\ Holds(low[i]) \cap HeldAbove(sem, n) = {}
    BY HeldApart DEF Held
  <2> HIDE DEF low
  <2>3. /\ DOMAIN sm = DOMAIN low \cup {Len(low) + 1}
        /\ \A k \in DOMAIN low : sm[k] = low[k]
        /\ sm[Len(low) + 1] = it
    BY <1>7, <2>1, AppendFacts
  <2>4. sem' = sm
    BY DEF low, it
  <2> HIDE DEF sm
  <2>5. ASSUME NEW i \in DOMAIN sm, NEW q \in Holds(sm[i]), q \in F PROVE FALSE
    <3>1. CASE i \in DOMAIN low
      BY <1>1, <1>2, <2>2, <2>3, <2>5, <3>1 DEF F
    <3>2. CASE i = Len(low) + 1
      BY <1>4, <1>5, <1>7, <2>3, <2>5, <3>2
    <3> QED
      BY <2>3, <3>1, <3>2
  <2> QED
    BY <2>4, <2>5 DEF Held
<1> QED
  BY <1>1, <1>6, <1>8 DEF LiveInv, client, F

(* Something of the parser happens only while it is at work.               *)
LEMMA ItemParsing == ASSUME OwnInv, NEW n \in Nat, NEW is, IsItem(n, is) PROVE rc = "parsing"
BY StackItem

(* The steps that are such: failures, ...                                  *)
LEMMA FailPlain == ASSUME rc = "parsing", Fail PROVE Plain
BY DEF Fail, Stop, Leave, Plain

(* ... reductions, ...                                                     *)
LEMMA ReducePlain ==
  ASSUME rc = "parsing", NEW low, NEW it, NEW objects, Reduce(low, it, objects)
  PROVE  Plain
BY DEF Reduce, Plain

(* ... tokens.                                                             *)
LEMMA ShiftPlain == ASSUME rc = "parsing", NEW it, Shift(it) PROVE Plain
BY DEF Shift, Plain

(* Operands.                                                               *)
LEMMA OperandPlain ==
  ASSUME OwnInv, Literal \/ Member \/ Extend
  PROVE  Plain
<1>1. CASE Literal
  BY <1>1, ReducePlain DEF Literal, Starts
<1>2. CASE Member
  BY <1>2, ReducePlain, FailPlain DEF Member, Starts
<1>3. CASE Extend
  <2>1. rc = "parsing"
    BY <1>3, ItemParsing DEF Extend, Path, Complete
  <2> QED
    BY <1>3, <2>1, FailPlain DEF Extend, Plain, client
<1> QED
  BY <1>1, <1>2, <1>3

(* Tokens and arguments.                                                   *)
LEMMA TokenPlain ==
  ASSUME OwnInv, \/ Operator \/ Call \/ Open \/ EndArgument \/ OpenOn \/ Colon
                 \/ \E n \in Names \cup {0}, bind \in BOOLEAN : Name(n, bind)
  PROVE  Plain
<1>1. CASE Operator
  BY <1>1, ItemParsing, ShiftPlain DEF Operator, Complete
<1>2. CASE Call \/ Open
  BY <1>2, ShiftPlain DEF Call, Open, Starts
<1>3. CASE EndArgument
  BY <1>3, ItemParsing, ReducePlain DEF EndArgument, Complete
<1>4. CASE OpenOn
  <2>1. rc = "parsing"
    BY <1>4, ItemParsing DEF OpenOn, Path, Complete
  <2> QED
    BY <1>4, <2>1, FailPlain DEF OpenOn, Plain
<1>5. CASE Colon
  <2>1. rc = "parsing"
    BY <1>5, ItemParsing DEF Colon
  <2> QED
    BY <1>5, <2>1, ShiftPlain DEF Colon, Plain
<1>6. ASSUME NEW n \in Names \cup {0}, NEW bind \in BOOLEAN, Name(n, bind) PROVE Plain
  <2>1. rc = "parsing"
    BY <1>6, ItemParsing DEF Name
  <2> QED
    BY <1>6, <2>1, ShiftPlain DEF Name
<1> QED
  BY <1>1, <1>2, <1>3, <1>4, <1>5, <1>6

(* The end of a scope.                                                     *)
LEMMA ClosePlain ==
  ASSUME OwnInv, CloseScope
  PROVE  Plain
<1>1. rc = "parsing"
  BY ItemParsing DEF CloseScope
<1>2. ASSUME NEW low, NEW open, NEW c, NEW f, NEW hp, NEW sc, Close(low, open, c, f, hp, sc)
      PROVE  rc' \in {rc, "error", "aborted"} /\ UNCHANGED client
  <2>1. \/ Stop("aborted") \/ Stop("error")
        \/ UNCHANGED <<overflow, rc, client>>
    BY <1>2 DEF Close
  <2> QED
    BY <2>1 DEF Stop, Leave
<1>3. freed' = freed
  BY DEF CloseScope
<1>4. rc' \in {rc, "error", "aborted"} /\ UNCHANGED client
  BY <1>2 DEF CloseScope
<1> QED
  BY <1>1, <1>3, <1>4 DEF Plain

(* Operations: nothing is destroyed but operands that were evaluated.      *)
LEMMA OperationLive ==
  ASSUME OwnInv, OwnStep, LiveInv, rc = "parsing", NEW n \in 0..Len(sem),
         NEW args \in Seq(ItemSet),
         \A k \in DOMAIN args : args[k].q \in HeldAbove(sem, n),
         Operation(Below(n), args)
  PROVE  LiveInv'
<1> DEFINE S == Range(Operands(args))
<1>1. CASE Fail
  BY <1>1, FailPlain, LivePlain
<1>2. ASSUME NEW it, NEW objects, Reduce(Below(n), it, objects) PROVE LiveInv'
  BY <1>2, ReducePlain, LivePlain
<1>3. CASE /\ heap' = heap \o Wrapped(Attr("static", TRUE, FALSE, 0, <<>>, Self))
           /\ freed' = freed \cup Closure(S)
           /\ sem' = Append(Below(n), Query(WrappedId, FALSE))
           /\ UNCHANGED <<listed, scopes, overflow, rc, client>>
  <2>1. S \subseteq HeldAbove(sem, n)
    BY DEF Operands, Range
  <2> HIDE DEF S
  <2> QED
    BY <1>3, <2>1, LiveFolded
<1> QED
  BY <1>1, <1>2, <1>3 DEF Operation

(* A constant operation destroys the operands that were nobody's but its   *)
(* own.                                                                    *)
LEMMA OperationsLive ==
  ASSUME OwnInv, OwnStep, LiveInv, Unary \/ EndOperation
  PROVE  LiveInv'
<1>1. Complete
  BY DEF Unary, EndOperation
<1>2. /\ sem \in Seq(ItemSet) /\ Len(sem) \in Nat \ {0} /\ rc = "parsing"
      /\ Top \in ItemSet /\ Top = sem[Len(sem)] /\ Holds(Top) = {Top.q}
  BY <1>1, TopQuery
<1>3. CASE Unary
  <2> DEFINE args == <<Top>>
  <2>1. args \in Seq(ItemSet) /\ DOMAIN args = {1} /\ args[1] = Top
    BY <1>2
  <2>2. Operation(Below(1), args) /\ 1 \in 0..Len(sem)
    BY <1>2, <1>3 DEF Unary
  <2>3. Top.q \in HeldAbove(sem, 1)
    <3>1. 1 \in 0..Len(sem) /\ 0 \in 0..(1 - 1) /\ Len(sem) - 0 = Len(sem)
      BY <1>2
    <3> QED
      BY <1>2, <3>1, AboveFacts
  <2> HIDE DEF args
  <2> QED
    BY <1>2, <2>1, <2>2, <2>3, OperationLive
<1>4. CASE EndOperation
  <2>1. IsItem(2, "query")
    BY <1>4, ItemBelow DEF EndOperation
  <2>2. /\ 2 < Len(sem) /\ Item(2) = sem[Len(sem) - 2]
        /\ Item(2) \in ItemSet /\ Item(2).is = "query" /\ ItemRefs(heap, Item(2))
    BY <2>1, StackItem
  <2>3. Holds(Item(2)) = {Item(2).q}
    BY <2>2, ItemFields DEF ItemRefs
  <2>4. Top.q \in HeldAbove(sem, 3) /\ Item(2).q \in HeldAbove(sem, 3) /\ 3 \in 0..Len(sem)
    <3>1. 3 \in 0..Len(sem) /\ 0 \in 0..(3 - 1) /\ 2 \in 0..(3 - 1) /\ Len(sem) - 0 = Len(sem)
      BY <1>2, <2>2
    <3> QED
      BY <1>2, <2>2, <2>3, <3>1, AboveFacts
  <2> DEFINE args == <<Item(2), Top>>
  <2>5. args \in Seq(ItemSet) /\ DOMAIN args = {1, 2} /\ args[1] = Item(2) /\ args[2] = Top
    BY <1>2, <2>2
  <2>6. Operation(Below(3), args)
    BY <1>4 DEF EndOperation
  <2> HIDE DEF args
  <2> QED
    BY <1>2, <2>4, <2>5, <2>6, OperationLive
<1> QED
  BY <1>3, <1>4

(* Calls: the arguments are destroyed when no overload takes them.         *)
LEMMA EndCallLive ==
  ASSUME OwnInv, OwnStep, LiveInv, EndCall
  PROVE  LiveInv'
<1>1. /\ sem \in Seq(ItemSet) /\ Len(sem) \in Nat /\ 0 < Len(sem) /\ rc = "parsing"
      /\ Item(0) = sem[Len(sem) - 0] /\ Item(0) \in ItemSet /\ Item(0).is = "call"
      /\ Len(sem) - 0 \in DOMAIN sem
  BY StackItem DEF EndCall
<1>2. Top = Item(0)
  BY <1>1 DEF Top, Last
<1> DEFINE S == Range(Top.args)
<1>3. S \subseteq Held
  <2>1. Holds(Top) = {Top.args[k] : k \in DOMAIN Top.args}
    BY <1>1, <1>2, ItemFields
  <2> QED
    BY <1>1, <1>2, <2>1 DEF Held, Range
<1>4. ASSUME NEW it, NEW objects, Reduce(Below(1), it, objects) PROVE LiveInv'
  BY <1>1, <1>4, ReducePlain, LivePlain
<1>5. CASE freed' = freed \cup Closure(S) /\ Stop("error") /\ UNCHANGED <<heap, listed>>
  <2> HIDE DEF S
  <2>1. Gone(heap, freed \cup Closure(S), TRUE) /\ HeapInv(heap)
    BY <1>1, <1>3, FoldGone DEF OwnInv
  <2>2. rc' = "error" /\ heap' = heap
    BY <1>5 DEF Stop, Leave
  <2> DEFINE strong == result' # 0
  <2>3. Safe(heap, freed', strong)
    <3>1. freed' = freed \cup Closure(S)
      BY <1>5
    <3> HIDE DEF strong
    <3> QED
      BY <2>1, <3>1, GoneSafe, SafeWeak
  <2> QED
    BY <2>2, <2>3 DEF LiveInv
<1> QED
  BY <1>4, <1>5 DEF EndCall

(* Definitions: a compound whose first attribute is refused is destroyed;  *)
(* nothing is based on it yet.                                             *)
LEMMA DefinitionLive ==
  ASSUME OwnInv, OwnStep, LiveInv, EndDefinition
  PROVE  LiveInv'
<1>1. Complete /\ IsItem(1, "name") /\ rc = "parsing" /\ HeapInv(heap)
  BY ItemParsing DEF EndDefinition, OwnInv
<1>2. ASSUME NEW low, NEW n, NEW q, NEW bind, AppendAttribute(low, n, q, bind) PROVE LiveInv'
  <2>1. Plain
    BY <1>1, <1>2 DEF AppendAttribute, Stop, Leave, Plain
  <2> QED
    BY <2>1, LivePlain
<1>3. ASSUME NEW low, NEW n, NEW q, NEW bind, StartCompound(low, n, q, bind) PROVE LiveInv'
  <2>1. CASE UNCHANGED <<freed, overflow, rc, client>>
    BY <1>1, <2>1, LivePlain DEF Plain
  <2>2. CASE /\ heap' = Append(heap, Compound(Scope.compound, <<>>))
             /\ freed' = freed \cup {Self} /\ Stop("error")
    <3> DEFINE hq == heap'
               strong == result' # 0
    <3>1. HeapInv(hq) /\ Gone(hq, freed, TRUE)
      BY <1>1, GoneStep DEF OwnStep, OwnInv, LiveInv
    <3>2. /\ DOMAIN hq = DOMAIN heap \cup {Self} /\ Self \notin DOMAIN heap
          /\ \A o \in DOMAIN heap : hq[o] = heap[o]
      <4>1. IsCompoundObject(heap, Scope.compound)
        BY <1>1, ScopeTyped
      <4> QED
        BY <1>1, <2>2, <4>1, GrowByCompound DEF Self
    <3> HIDE DEF hq, strong
    <3>3. Safe(hq, freed, strong)
      BY <3>1, GoneSafe, SafeWeak
    <3>4. \A o \in DOMAIN heap : Mentions(heap[o], strong) \subseteq DOMAIN heap
      BY <1>1, MentionsThere
    <3>5. Safe(hq, freed \cup {Self}, strong)
      BY <3>2, <3>3, <3>4 DEF Safe
    <3>6. rc' = "error" /\ freed' = freed \cup {Self}
      BY <2>2 DEF Stop, Leave
    <3> QED
      BY <3>5, <3>6 DEF LiveInv, hq, strong
  <2> QED
    BY <1>3, <2>1, <2>2 DEF StartCompound
<1> QED
  BY <1>2, <1>3 DEF EndDefinition

(* The query is the client's.                                              *)
LEMMA AcceptLive ==
  ASSUME OwnInv, OwnStep, LiveInv, Accept
  PROVE  LiveInv'
<1>1. rc = "parsing" /\ HeapInv(heap) /\ Gone(heap, freed, TRUE)
  BY ItemParsing DEF Accept, Complete, OwnInv, LiveInv
<1>2. /\ rc' = "ok" /\ heap' = heap /\ freed' = freed /\ listed' = listed
  BY DEF Accept, Leave
<1>3. \A i \in DOMAIN listed : listed[i] \notin freed
  BY <1>1 DEF OwnInv, ListInv, IsCompoundObject, Gone
<1> DEFINE strong == result' # 0
<1>4. Safe(heap, freed, strong)
  <2> HIDE DEF strong
  <2> QED
    BY <1>1, GoneSafe, SafeWeak
<1> QED
  BY <1>2, <1>3, <1>4 DEF LiveInv

(* The client destroys the query, and with it what is bound to compounds   *)
(* it has iterated.                                                        *)
LEMMA DestroyQueryLive ==
  ASSUME OwnInv, OwnStep, LiveInv, DestroyQuery
  PROVE  LiveInv'
<1>1. /\ result # 0 /\ freed' = freed \cup Closure({result}) /\ result' = 0
      /\ heap' = heap /\ listed' = listed /\ rc' = rc /\ context' = context
  BY DEF DestroyQuery
<1>2. rc = "ok" /\ IsQuery(heap, result) /\ Unclaimed(heap, result) /\ HeapInv(heap)
  BY <1>1 DEF OwnInv, ClientInv
<1> DEFINE D == Closure({result})
<1>3. Gone(heap, D, FALSE)
  <2>1. \A q \in {result} : IsQuery(heap, q) /\ Unclaimed(heap, q)
    BY <1>2
  <2> QED
    BY <2>1, ClosureGone
<1> HIDE DEF D
<1>4. Safe(heap, D, FALSE)
  BY <1>2, <1>3, GoneSafe
<1>5. SUFFICES ASSUME context = "live"
               PROVE  /\ Safe(heap, freed \cup D, FALSE)
                      /\ \A i \in DOMAIN listed : listed[i] \notin freed \cup D
  BY <1>1, <1>2 DEF LiveInv, D
<1>6. /\ Safe(heap, freed, TRUE)
      /\ \A i \in DOMAIN listed : listed[i] \notin freed
  BY <1>1, <1>2, <1>5 DEF LiveInv
<1>7. Safe(heap, freed, FALSE)
  BY <1>2, <1>6, SafeWeak
<1>8. Safe(heap, freed \cup D, FALSE)
  BY <1>4, <1>7 DEF Safe
<1>9. \A i \in DOMAIN listed : listed[i] \notin D
  BY <1>3 DEF OwnInv, ListInv, IsCompoundObject, Gone
<1> QED
  BY <1>6, <1>8, <1>9

(* Every step.                                                             *)
LEMMA LiveNext ==
  ASSUME OwnInv, OwnStep, LiveInv, [Next]_vars
  PROVE  LiveInv'
<1>1. CASE SyntaxError
  BY <1>1, FailPlain, LivePlain DEF SyntaxError
<1>2. CASE \/ Literal \/ Member \/ Extend
           \/ Operator \/ Call \/ Open \/ EndArgument \/ OpenOn \/ Colon \/ CloseScope
           \/ \E n \in Names \cup {0}, bind \in BOOLEAN : Name(n, bind)
  BY <1>2, OperandPlain, TokenPlain, ClosePlain, LivePlain
<1>3. CASE Unary \/ EndOperation
  BY <1>3, OperationsLive
<1>4. CASE EndCall
  BY <1>4, EndCallLive
<1>5. CASE EndDefinition
  BY <1>5, DefinitionLive
<1>6. CASE Accept
  BY <1>6, AcceptLive
<1>7. CASE DestroyQuery
  BY <1>7, DestroyQueryLive
<1>8. CASE Iterate
  <2>1. rc = "ok"
    BY <1>8 DEF OwnInv, ClientInv, Iterate
  <2> QED
    BY <1>8, <2>1 DEF LiveInv, Iterate
<1>9. CASE \/ DestroyContext \/ UnwindAttribute \/ UnwindCompound \/ ContextGone
  <2>1. rc' = rc /\ context' # "live" /\ rc # "parsing"
    BY <1>9 DEF LiveInv, DestroyContext, UnwindAttribute, UnwindCompound, ContextGone,
                Corrupt, client
  <2> QED
    BY <2>1 DEF LiveInv
<1>10. CASE UNCHANGED vars
  BY <1>10 DEF LiveInv, Held, vars
<1> QED
  BY <1>1, <1>2, <1>3, <1>4, <1>5, <1>6, <1>7, <1>8, <1>9, <1>10 DEF Next, Parse

(* Nothing is destroyed at the start.                                      *)
LEMMA LiveInit == Init => LiveInv
<1> SUFFICES ASSUME Init PROVE LiveInv
  OBVIOUS
<1>1. freed = {} /\ iterated = {} /\ context = "live" /\ rc = "parsing"
  BY DEF Init
<1> QED
  BY <1>1 DEF LiveInv, Gone

(* The property follows.                                                   *)
LEMMA LiveInvLiveRefs == OwnInv /\ LiveInv => LiveRefs
<1> SUFFICES ASSUME OwnInv, LiveInv, context = "live" PROVE LiveRefs
  BY DEF LiveRefs
<1>1. HeapInv(heap)
  BY DEF OwnInv
<1>2. Safe(heap, freed, result # 0)
  <2>1. CASE rc = "parsing"
    <3> DEFINE strong == result # 0
    <3>1. Gone(heap, freed, TRUE)
      BY <2>1 DEF LiveInv
    <3> HIDE DEF strong
    <3>2. Safe(heap, freed, strong)
      BY <1>1, <3>1, GoneSafe, SafeWeak
    <3> QED
      BY <3>2 DEF strong
  <2>2. CASE rc # "parsing"
    BY <2>2 DEF LiveInv
  <2> QED
    BY <2>1, <2>2
<1>3. ASSUME NEW o \in Live PROVE References(o) \cap freed = {}
  <2>1. o \in DOMAIN heap \ freed /\ heap[o].kind \in {"query", "attr", "compound"}
    BY <1>1, ObjectKinds DEF Live, HeapInv
  <2>2. References(o) \subseteq Mentions(heap[o], result # 0)
    <3>1. CASE heap[o].kind = "query"
      BY <3>1 DEF References, Mentions, Range
    <3>2. CASE heap[o].kind = "attr"
      BY <3>2 DEF References, Mentions, Range
    <3>3. CASE heap[o].kind = "compound"
      BY <3>3 DEF References, Mentions, Range
    <3> QED
      BY <2>1, <3>1, <3>2, <3>3
  <2> QED
    BY <1>2, <2>1, <2>2 DEF Safe
<1>4. rc = "parsing" => \A s \in Range(scopes) : s.compound \notin freed
  <2>1. \A i \in DOMAIN scopes : IsCompoundObject(heap, scopes[i].compound)
    BY DEF OwnInv, ScopeInv
  <2> QED
    BY <2>1 DEF LiveInv, Gone, IsCompoundObject, Range
<1>5. rc = "ok" => Range(listed) \cap freed = {}
  BY DEF LiveInv, Range
<1> QED
  BY <1>3, <1>4, <1>5 DEF LiveRefs

(* While the context is there no live object names a destroyed one, for    *)
(* every expression, error and evaluation.                                 *)
THEOREM LiveRefsHolds == Spec => []LiveRefs
<1>1. OwnInv /\ [Next]_vars => OwnStep /\ OwnInv'
  BY OwnNext DEF OwnStep
<1>2. OwnInv /\ LiveInv /\ [Next]_vars => LiveInv'
  BY <1>1, LiveNext
<1> QED
  BY <1>1, <1>2, OwnInit, LiveInit, LiveInvLiveRefs, PTL DEF Spec

(***************************************************************************)
(* Scopes.                                                                 *)
(*                                                                         *)
(* Stepped restates ScopesInStep for any stack of semantic values and any  *)
(* stack of scopes, so that lemmas can speak of a step's result; on top of *)
(* OwnInv it is inductive.                                                 *)
(***************************************************************************)

(* Lineage, in a given heap.                                               *)
Parents(hp) == [o \in DOMAIN hp |->
                  IF hp[o].kind = "compound" THEN {hp[o].parent} \ {0} ELSE {}]
Family(hp, c) == Reach(Parents(hp), {c})

(* Lineage is what is reached in the heap as it is.                        *)
LEMMA LineageIs == \A c : Lineage(c) = Family(heap, c)
BY DEF Lineage, Family, Parents

(* The compounds a compound is based on are objects.                       *)
LEMMA ParentsThere ==
  ASSUME NEW hp, HeapInv(hp)
  PROVE  /\ DOMAIN Parents(hp) = DOMAIN hp /\ IsFiniteSet(DOMAIN Parents(hp))
         /\ \A o \in DOMAIN hp : Parents(hp)[o] \subseteq DOMAIN hp
<1>1. DOMAIN hp = 1..Len(hp) /\ Len(hp) \in Nat
  BY DEF HeapInv
<1>2. DOMAIN Parents(hp) = DOMAIN hp
  BY DEF Parents
<1>3. IsFiniteSet(DOMAIN Parents(hp))
  BY <1>1, <1>2, FS_Interval
<1>4. \A o \in DOMAIN hp : Parents(hp)[o] \subseteq DOMAIN hp
  BY DEF HeapInv, Refs, CompoundRefs, IsCompoundObject, Parents
<1> QED
  BY <1>2, <1>3, <1>4

(* A compound is based on the one it was created for, and that is on what  *)
(* it was: compounds are never moved.                                      *)
LEMMA LineageGrows ==
  ASSUME NEW hp, HeapInv(hp), NEW hq, HeapInv(hq), Kept(hp, hq),
         NEW c, IsCompoundObject(hp, c), NEW e, IsCompoundObject(hq, e),
         e = c \/ hq[e].parent = c
  PROVE  Family(hp, c) \subseteq Family(hq, e) /\ e \in Family(hq, e)
<1> DEFINE f == Parents(hp)
           g == Parents(hq)
           R == Reach(g, {e})
           C == R \cap DOMAIN hp
<1>1. /\ DOMAIN f = DOMAIN hp /\ IsFiniteSet(DOMAIN f)
      /\ \A o \in DOMAIN f : f[o] \subseteq DOMAIN f
      /\ DOMAIN g = DOMAIN hq /\ IsFiniteSet(DOMAIN g)
      /\ \A o \in DOMAIN g : g[o] \subseteq DOMAIN g
  BY ParentsThere
<1>2. \A o \in DOMAIN hp : o \in DOMAIN hq /\ f[o] = g[o]
  BY DEF Kept, Parents
<1>3. e \in DOMAIN hq /\ c \in DOMAIN hp /\ (e = c \/ c \in g[e])
  <2>1. c # 0
    BY DEF IsCompoundObject, HeapInv
  <2> QED
    BY <2>1 DEF IsCompoundObject, Parents
<1> HIDE DEF f, g, R
<1>4. \A o \in R : g[o] \subseteq R
  BY <1>1, <1>3, ReachClosed DEF R
<1>5. {e} \subseteq R
  <2>1. {e} \subseteq DOMAIN g
    BY <1>1, <1>3
  <2> QED
    BY <1>1, <2>1, ReachWithin DEF R
<1>6. {c} \subseteq C /\ \A o \in C : f[o] \subseteq C
  BY <1>1, <1>2, <1>3, <1>4, <1>5
<1> HIDE DEF C
<1>7. Reach(f, {c}) \subseteq C
  BY <1>1, <1>6, ReachWithin
<1> QED
  BY <1>5, <1>7 DEF C, R, Family, f, g

(* The scopes pushed by the first i items of sm.                           *)
IsPush(it) == \/ it.is = "open" /\ it.q # 0
              \/ it.is = "colon" /\ it.c # 0
Pushing(sm, i) == {j \in 1..i : IsPush(sm[j])}
Bit(it) == IF IsPush(it) THEN 1 ELSE 0

(* The pushes among the first i values are finite in number, ...           *)
LEMMA PushingFinite ==
  ASSUME NEW sm, NEW i \in Nat
  PROVE  IsFiniteSet(Pushing(sm, i)) /\ Cardinality(Pushing(sm, i)) \in Nat
<1>1. IsFiniteSet(1..i)
  BY FS_Interval
<1>2. IsFiniteSet(Pushing(sm, i))
  BY <1>1, FS_Subset DEF Pushing
<1> QED
  BY <1>2, FS_CardinalityType

(* ... the i-th adds one or none, ...                                      *)
LEMMA PushingNext ==
  ASSUME NEW sm, NEW i \in Nat \ {0}
  PROVE  Cardinality(Pushing(sm, i)) = Cardinality(Pushing(sm, i - 1)) + Bit(sm[i])
<1> DEFINE S == Pushing(sm, i - 1)
<1>1. IsFiniteSet(S) /\ Cardinality(S) \in Nat /\ i \notin S
  BY PushingFinite DEF Pushing
<1>2. CASE IsPush(sm[i])
  <2>1. Pushing(sm, i) = S \cup {i}
    BY <1>2 DEF Pushing
  <2> HIDE DEF S
  <2>2. Cardinality(S \cup {i}) = Cardinality(S) + 1
    BY <1>1, FS_AddElement
  <2> QED
    BY <1>2, <2>1, <2>2 DEF Bit, S
<1>3. CASE ~IsPush(sm[i])
  <2>1. Pushing(sm, i) = S
    BY <1>3 DEF Pushing
  <2> QED
    BY <1>1, <1>3, <2>1 DEF Bit
<1> QED
  BY <1>2, <1>3

(* ... later ones take none away, ...                                      *)
LEMMA PushingGrows ==
  ASSUME NEW sm, NEW i \in Nat, NEW k \in Nat, i <= k
  PROVE  Cardinality(Pushing(sm, i)) <= Cardinality(Pushing(sm, k))
<1>1. IsFiniteSet(Pushing(sm, k)) /\ Pushing(sm, i) \subseteq Pushing(sm, k)
  BY PushingFinite DEF Pushing
<1> QED
  BY <1>1, FS_Subset

(* ... and those above do not matter.                                      *)
LEMMA PushingSame ==
  ASSUME NEW sm, NEW tm, NEW i \in Nat, \A j \in 1..i : sm[j] = tm[j]
  PROVE  Pushing(sm, i) = Pushing(tm, i)
BY DEF Pushing

(* What ScopesInStep says while no push was refused.                       *)
InStep(sm, sc, hp) ==
  /\ Len(sc) = 1 + Cardinality(Pushing(sm, Len(sm)))
  /\ \A i \in DOMAIN sm :
       sm[i].is \in {"def", "colon"} /\ sm[i].c # 0 =>
         /\ Len(sc) > Cardinality(Pushing(sm, i))
         /\ sm[i].c \in Family(hp, sc[1 + Cardinality(Pushing(sm, i))].compound)

Stepped == rc = "parsing" /\ ~overflow => InStep(sem, scopes, heap)

(* The property, as it is proved.                                          *)
LEMMA ScopesInStepIs == ScopesInStep <=> Stepped
<1>1. \A i : Pushes(i) = Pushing(sem, i)
  BY DEF Pushes, Pushing, IsPush
<1> QED
  BY <1>1, LineageIs DEF ScopesInStep, Stepped, InStep

(* At their places on the stack scopes hold what they held or a compound   *)
(* based on that.                                                          *)
Based(sc, sd, hp, hq) ==
  \A k \in DOMAIN sc \cap DOMAIN sd :
    Family(hp, sc[k].compound) \subseteq Family(hq, sd[k].compound)

(* What is defined on top is known in the scope on top.                    *)
Known(it, sd, hq) ==
  it.is \in {"def", "colon"} /\ it.c # 0 => it.c \in Family(hq, sd[Len(sd)].compound)

(* What a reduction makes of the two stacks: it drops n items and pushes   *)
(* one.                                                                    *)
ScopeSet == [compound : Nat, pos : Nat, bound : BOOLEAN]
Reducing(sm, n, it, tm) ==
  /\ sm \in Seq(ItemSet) /\ n \in 0..Len(sm) /\ it \in ItemSet
  /\ tm = Append(SubSeq(sm, 1, Len(sm) - n), it)
Balanced(sm, n, it, sd) ==
  sd \in Seq(ScopeSet) /\ Len(sd) = 1 + Cardinality(Pushing(sm, Len(sm) - n)) + Bit(it)

(* A reduction that drops n items and pushes one.                          *)
LEMMA InStepReduced ==
  ASSUME NEW sm, NEW n, NEW it, NEW tm, Reducing(sm, n, it, tm),
         NEW hp, NEW hq, NEW sc \in Seq(ScopeSet), NEW sd, Balanced(sm, n, it, sd),
         InStep(sm, sc, hp), Based(sc, sd, hp, hq), Known(it, sd, hq)
  PROVE  InStep(tm, sd, hq)
<1> DEFINE m == Len(sm) - n
           low == SubSeq(sm, 1, Len(sm) - n)
<1>1. /\ sm \in Seq(ItemSet) /\ n \in 0..Len(sm) /\ it \in ItemSet /\ tm = Append(low, it)
      /\ sd \in Seq(ScopeSet) /\ Len(sd) = 1 + Cardinality(Pushing(sm, Len(sm) - n)) + Bit(it)
  BY DEF Reducing, Balanced
<1>2. /\ low \in Seq(ItemSet) /\ Len(low) = m /\ m \in Nat /\ Len(sm) \in Nat /\ m <= Len(sm)
      /\ DOMAIN low = 1..m /\ DOMAIN sm = 1..Len(sm)
      /\ \A i \in 1..m : low[i] = sm[i]
  <2>1. low = SubSeq(sm, 1, Len(sm) - n)
    OBVIOUS
  <2> HIDE DEF low
  <2> QED
    BY <1>1, <2>1, PrefixIs
<1> HIDE DEF low, m
<1>3. /\ DOMAIN tm = (1..m) \cup {m + 1} /\ Len(tm) = m + 1
      /\ \A i \in 1..m : tm[i] = sm[i]
      /\ tm[m + 1] = it
  BY <1>1, <1>2
<1>4. \A i \in 0..m : Pushing(tm, i) = Pushing(sm, i)
  <2> SUFFICES ASSUME NEW i \in 0..m PROVE Pushing(tm, i) = Pushing(sm, i)
    OBVIOUS
  <2>1. i \in Nat /\ \A j \in 1..i : tm[j] = sm[j]
    BY <1>2, <1>3
  <2> QED
    BY <2>1, PushingSame
<1>5. Cardinality(Pushing(tm, m + 1)) = Cardinality(Pushing(sm, m)) + Bit(it)
  <2> DEFINE k == m + 1
  <2>1. k \in Nat \ {0} /\ k - 1 = m /\ m \in 0..m
    BY <1>2
  <2>2. tm[k] = it
    BY <1>3
  <2> HIDE DEF k
  <2>3. Cardinality(Pushing(tm, k)) = Cardinality(Pushing(tm, k - 1)) + Bit(tm[k])
    BY <2>1, PushingNext
  <2> QED
    BY <1>4, <2>1, <2>2, <2>3 DEF k
<1>6. Cardinality(Pushing(sm, m)) \in Nat /\ Bit(it) \in {0, 1}
  BY <1>2, PushingFinite DEF Bit
<1>7. Len(sd) = 1 + Cardinality(Pushing(tm, Len(tm)))
  BY <1>1, <1>3, <1>5, <1>6 DEF m
<1>8. ASSUME NEW i \in DOMAIN tm, tm[i].is \in {"def", "colon"}, tm[i].c # 0
      PROVE  /\ Len(sd) > Cardinality(Pushing(tm, i))
             /\ tm[i].c \in Family(hq, sd[1 + Cardinality(Pushing(tm, i))].compound)
  <2>1. CASE i = m + 1
    <3>1. tm[i] = it /\ Len(sd) = 1 + Cardinality(Pushing(tm, i))
      BY <1>3, <1>7, <2>1
    <3> QED
      BY <1>5, <1>6, <1>8, <2>1, <3>1 DEF Known
  <2>2. CASE i \in 1..m
    <3> DEFINE p == Cardinality(Pushing(sm, i))
    <3>1. p \in Nat /\ p <= Cardinality(Pushing(sm, m))
      BY <1>2, <2>2, PushingFinite, PushingGrows
    <3>2. Pushing(tm, i) = Pushing(sm, i)
      BY <1>4, <2>2
    <3>3. i \in DOMAIN sm /\ sm[i].is \in {"def", "colon"} /\ sm[i].c # 0 /\ tm[i] = sm[i]
      BY <1>2, <1>3, <1>8, <2>2
    <3>4. Len(sc) > p /\ sm[i].c \in Family(hp, sc[1 + p].compound)
      BY <3>3 DEF InStep
    <3> HIDE DEF p
    <3>5. Len(sd) > p
      BY <1>1, <1>6, <3>1 DEF m
    <3>6. 1 + p \in DOMAIN sc /\ 1 + p \in DOMAIN sd
      BY <1>1, <3>1, <3>4, <3>5
    <3>7. sm[i].c \in Family(hq, sd[1 + p].compound)
      BY <3>4, <3>6, SMTT(30) DEF Based
    <3> QED
      BY <3>2, <3>3, <3>5, <3>7 DEF p
  <2> QED
    BY <1>3, <2>1, <2>2
<1> QED
  BY <1>7, <1>8 DEF InStep

(* Items counted from the top.                                             *)
LEMMA PushingItem ==
  ASSUME sem \in Seq(ItemSet), NEW k \in Nat, k < Len(sem)
  PROVE  /\ Cardinality(Pushing(sem, Len(sem) - k))
              = Cardinality(Pushing(sem, Len(sem) - (k + 1))) + Bit(Item(k))
         /\ Cardinality(Pushing(sem, Len(sem) - k)) \in Nat
         /\ Cardinality(Pushing(sem, Len(sem) - (k + 1))) \in Nat
<1> DEFINE i == Len(sem) - k
<1>1. i \in Nat \ {0} /\ Len(sem) - (k + 1) = i - 1 /\ i - 1 \in Nat /\ sem[i] = Item(k)
  BY DEF Item
<1> HIDE DEF i
<1>2. Cardinality(Pushing(sem, i)) = Cardinality(Pushing(sem, i - 1)) + Bit(sem[i])
  BY <1>1, PushingNext
<1>3. Cardinality(Pushing(sem, i)) \in Nat /\ Cardinality(Pushing(sem, i - 1)) \in Nat
  BY <1>1, PushingFinite
<1> QED
  BY <1>1, <1>2, <1>3 DEF i

(* Scopes that are what they were.                                         *)
LEMMA BasedSame ==
  ASSUME OwnInv, OwnStep, NEW sd,
         \A k \in DOMAIN scopes \cap DOMAIN sd : sd[k].compound = scopes[k].compound
  PROVE  Based(scopes, sd, heap, heap')
<1> SUFFICES ASSUME NEW k \in DOMAIN scopes, k \in DOMAIN sd
             PROVE  Family(heap, scopes[k].compound) \subseteq Family(heap', sd[k].compound)
  BY DEF Based
<1> DEFINE c == scopes[k].compound
           hq == heap'
<1>1. IsCompoundObject(heap, c) /\ sd[k].compound = c
  BY DEF OwnInv, ScopeInv
<1>2. HeapInv(heap) /\ HeapInv(hq) /\ Kept(heap, hq)
  BY DEF OwnInv, OwnStep
<1> HIDE DEF c, hq
<1>3. IsCompoundObject(hq, c)
  BY <1>1, <1>2 DEF Kept, IsCompoundObject
<1>4. Family(heap, c) \subseteq Family(hq, c)
  BY <1>1, <1>2, <1>3, LineageGrows
<1> QED
  BY <1>1, <1>4 DEF c, hq

(* The pushes of all items, and of those below the topmost ones.           *)
LEMMA PushingAbove ==
  ASSUME sem \in Seq(ItemSet), NEW n \in 1..3, n <= Len(sem)
  PROVE  LET all == Cardinality(Pushing(sem, Len(sem)))
             low == Cardinality(Pushing(sem, Len(sem) - n))
         IN /\ all \in Nat /\ low \in Nat
            /\ n = 1 => all = low + Bit(Item(0))
            /\ n = 2 => all = low + Bit(Item(0)) + Bit(Item(1))
            /\ n = 3 => all = low + Bit(Item(0)) + Bit(Item(1)) + Bit(Item(2))
<1> DEFINE P(k) == Cardinality(Pushing(sem, Len(sem) - k))
<1>1. P(0) = Cardinality(Pushing(sem, Len(sem)))
  <2>1. Len(sem) - 0 = Len(sem)
    OBVIOUS
  <2> QED
    BY <2>1
<1>2. \A k \in 0..2 : k < Len(sem) =>
        P(k) = P(k + 1) + Bit(Item(k)) /\ P(k) \in Nat /\ P(k + 1) \in Nat
  BY PushingItem
<1>3. \A k : Bit(Item(k)) \in {0, 1}
  BY DEF Bit
<1> HIDE DEF P
<1>4. Len(sem) \in Nat
  OBVIOUS
<1>5. P(0) = P(1) + Bit(Item(0)) /\ P(0) \in Nat /\ P(1) \in Nat
  BY <1>2, <1>4
<1>6. n >= 2 => P(1) = P(2) + Bit(Item(1)) /\ P(2) \in Nat
  BY <1>2, <1>4
<1>7. n >= 3 => P(2) = P(3) + Bit(Item(2)) /\ P(3) \in Nat
  BY <1>2, <1>4
<1>8. /\ P(0) \in Nat /\ P(n) \in Nat
      /\ n = 1 => P(0) = P(n) + Bit(Item(0))
      /\ n = 2 => P(0) = P(n) + Bit(Item(0)) + Bit(Item(1))
      /\ n = 3 => P(0) = P(n) + Bit(Item(0)) + Bit(Item(1)) + Bit(Item(2))
  <2>1. CASE n = 1
    BY <1>3, <1>5, <2>1
  <2>2. CASE n = 2
    BY <1>3, <1>5, <1>6, <2>2
  <2>3. CASE n = 3
    BY <1>3, <1>5, <1>6, <1>7, <2>3
  <2> QED
    BY <2>1, <2>2, <2>3
<1> QED
  BY <1>1, <1>8 DEF P

(* Which values stand for a push.                                          *)
LEMMA BitOf ==
  ASSUME NEW it
  PROVE  /\ Bit(it) \in {0, 1}
         /\ it.is \notin {"open", "colon"} => Bit(it) = 0
         /\ it.is = "open" /\ it.q = 0 => Bit(it) = 0
         /\ it.is = "open" /\ it.q # 0 => Bit(it) = 1
         /\ it.is = "colon" /\ it.c = 0 => Bit(it) = 0
         /\ it.is = "colon" /\ it.c # 0 => Bit(it) = 1
BY DEF Bit, IsPush

(* What is pushed is an item.                                              *)
LEMMA PushedItem ==
  ASSUME sem \in Seq(ItemSet), NEW n \in 0..Len(sem), NEW it,
         sem' = Append(Below(n), it), sem' \in Seq(ItemSet)
  PROVE  it \in ItemSet
<1> DEFINE low == Below(n)
           E == ItemSet \cup {it}
           tm == Append(low, it)
<1>1. low = SubSeq(sem, 1, Len(sem) - n)
  BY DEF Below
<1> HIDE DEF low
<1>2. low \in Seq(ItemSet)
  BY <1>1, PrefixIs
<1>3. low \in Seq(E) /\ it \in E
  BY <1>2
<1> HIDE DEF E
<1>4. DOMAIN tm = DOMAIN low \cup {Len(low) + 1} /\ tm[Len(low) + 1] = it
  BY <1>3, AppendFacts
<1>5. tm \in Seq(ItemSet)
  BY DEF low
<1> HIDE DEF tm
<1> QED
  BY <1>4, <1>5

(* What every reduction has to show.                                       *)
LEMMA ScopesReduced ==
  ASSUME OwnInv, OwnStep, rc = "parsing", rc' = "parsing", ~overflow, Stepped,
         NEW n \in 0..Len(sem), NEW it, sem' = Append(Below(n), it),
         \A k \in DOMAIN scopes \cap DOMAIN scopes' :
           Family(heap, scopes[k].compound) \subseteq Family(heap', scopes'[k].compound),
         Len(scopes') = 1 + Cardinality(Pushing(sem, Len(sem) - n)) + Bit(it),
         Known(it, scopes', heap')
  PROVE  Stepped'
<1> DEFINE sc == scopes
           sd == scopes'
           hp == heap
           hq == heap'
           tm == sem'
           sm == sem
<1>1. InStep(sm, sc, hp)
  BY DEF Stepped
<1>2. sc \in Seq(ScopeSet) /\ sd \in Seq(ScopeSet)
  BY DEF OwnInv, OwnStep, ScopeInv, ScopeSet
<1>3. Reducing(sm, n, it, tm)
  <2>1. sem \in Seq(ItemSet) /\ sem' \in Seq(ItemSet)
    BY DEF OwnInv, OwnStep, SemInv
  <2>2. it \in ItemSet
    BY <2>1, PushedItem
  <2> QED
    BY <2>1, <2>2 DEF Below, Reducing
<1>4. Based(sc, sd, hp, hq) /\ Balanced(sm, n, it, sd) /\ Known(it, sd, hq)
  BY <1>2 DEF Based, Balanced
<1> HIDE DEF sm, sc, sd, hp, hq, tm
<1>5. InStep(tm, sd, hq)
  BY <1>1, <1>2, <1>3, <1>4, InStepReduced
<1> QED
  BY <1>5 DEF Stepped, tm, sd, hq

(* Reductions that leave the scopes alone: those of items that pushed none. *)
LEMMA FlatStep ==
  ASSUME OwnInv, OwnStep, rc = "parsing", rc' = "parsing", ~overflow, Stepped,
         scopes' = scopes,
         NEW n \in 0..3, n <= Len(sem), \A k \in 0..2 : k < n => Bit(Item(k)) = 0,
         NEW it, Bit(it) = 0, it.is # "def", sem' = Append(Below(n), it)
  PROVE  Stepped'
<1>1. /\ InStep(sem, scopes, heap) /\ sem \in Seq(ItemSet)
      /\ scopes \in Seq([compound : Nat, pos : Nat, bound : BOOLEAN])
  BY DEF Stepped, OwnInv, SemInv, ScopeInv
<1>2. Cardinality(Pushing(sem, Len(sem))) = Cardinality(Pushing(sem, Len(sem) - n))
  <2>1. CASE n = 0
    <3>1. Len(sem) - n = Len(sem)
      BY <1>1, <2>1
    <3> QED
      BY <3>1
  <2>2. CASE n # 0
    <3>1. n \in 1..3
      BY <2>2
    <3>2. /\ n >= 1 => Bit(Item(0)) = 0
          /\ n >= 2 => Bit(Item(1)) = 0
          /\ n >= 3 => Bit(Item(2)) = 0
      OBVIOUS
    <3> QED
      BY <1>1, <3>1, <3>2, PushingAbove
  <2> QED
    BY <2>1, <2>2
<1>3. Len(scopes') = 1 + Cardinality(Pushing(sem, Len(sem) - n)) + Bit(it)
  BY <1>1, <1>2 DEF InStep
<1>4. \A k \in DOMAIN scopes \cap DOMAIN scopes' :
        Family(heap, scopes[k].compound) \subseteq Family(heap', scopes'[k].compound)
  <2> DEFINE sd == scopes'
  <2>1. \A k \in DOMAIN scopes \cap DOMAIN sd : sd[k].compound = scopes[k].compound
    OBVIOUS
  <2> HIDE DEF sd
  <2>2. Based(scopes, sd, heap, heap')
    BY <2>1, BasedSame
  <2> QED
    BY <2>2 DEF Based, sd
<1>5. Known(it, scopes', heap')
  BY BitOf DEF Known
<1>6. n \in 0..Len(sem)
  BY <1>1
<1> QED
  BY <1>3, <1>4, <1>5, <1>6, ScopesReduced

(* Steps that leave the stacks alone.                                      *)
LEMMA StillStep ==
  ASSUME OwnInv, OwnStep, rc = "parsing", rc' = "parsing", ~overflow, Stepped,
         UNCHANGED <<sem, scopes>>
  PROVE  Stepped'
<1> DEFINE sd == scopes'
           hq == heap'
<1>1. InStep(sem, scopes, heap)
  BY DEF Stepped
<1>2. Based(scopes, sd, heap, heap')
  BY BasedSame
<1>3. Based(scopes, scopes, heap, hq)
  BY <1>2
<1>4. scopes \in Seq([compound : Nat, pos : Nat, bound : BOOLEAN]) /\ sem \in Seq(ItemSet)
  BY DEF OwnInv, ScopeInv, SemInv
<1> HIDE DEF sd, hq
<1>5. InStep(sem, scopes, hq)
  <2> SUFFICES ASSUME NEW i \in DOMAIN sem, sem[i].is \in {"def", "colon"}, sem[i].c # 0
               PROVE  sem[i].c \in Family(hq, scopes[1 + Cardinality(Pushing(sem, i))].compound)
    BY <1>1 DEF InStep
  <2> DEFINE p == Cardinality(Pushing(sem, i))
  <2>1. p \in Nat
    BY <1>4, PushingFinite
  <2>2. Len(scopes) > p /\ sem[i].c \in Family(heap, scopes[1 + p].compound)
    BY <1>1 DEF InStep
  <2> HIDE DEF p
  <2>3. 1 + p \in DOMAIN scopes
    BY <1>4, <2>1, <2>2
  <2>4. sem[i].c \in Family(hq, scopes[1 + p].compound)
    BY <1>3, <2>2, <2>3 DEF Based
  <2> QED
    BY <2>4 DEF p
<1> QED
  BY <1>5 DEF Stepped, hq

(* Reductions that push a query.                                           *)
LEMMA FlatQuery ==
  ASSUME OwnInv, OwnStep, rc = "parsing", rc' = "parsing", ~overflow, Stepped,
         scopes' = scopes,
         NEW n \in 0..3, n <= Len(sem), \A k \in 0..2 : k < n => Bit(Item(k)) = 0,
         NEW q, NEW path, sem' = Append(Below(n), Query(q, path))
  PROVE  Stepped'
<1> DEFINE it == Query(q, path)
<1>1. Bit(it) = 0 /\ it.is # "def"
  BY DEF Query, Bit, IsPush
<1> HIDE DEF it
<1>2. sem' = Append(Below(n), it)
  BY DEF it
<1> QED
  BY <1>1, <1>2, FlatStep

(* One lemma for each action that touches values, scopes or compounds: the *)
(* scopes stay in step.                                                    *)
LEMMA LiteralScopes ==
  ASSUME OwnInv, OwnStep, Stepped, ~overflow, rc' = "parsing", Literal \/ Member
  PROVE  Stepped'
<1>1. rc = "parsing"
  BY DEF Literal, Member, Starts
<1>2. PICK q, path : sem' = Append(sem, Query(q, path)) /\ scopes' = scopes
  BY DEF Literal, Member, Reduce, Fail, Stop, Leave
<1>3. sem' = Append(Below(0), Query(q, path)) /\ 0 <= Len(sem)
  BY <1>2, BelowNone
<1> QED
  BY <1>1, <1>2, <1>3, FlatQuery

(* A node more for the chain on the stack.                                 *)
LEMMA ExtendScopes ==
  ASSUME OwnInv, OwnStep, Stepped, ~overflow, rc' = "parsing", Extend
  PROVE  Stepped'
<1>1. rc = "parsing"
  BY TopQuery DEF Extend, Path
<1>2. sem' = sem /\ scopes' = scopes
  BY DEF Extend, Fail, Stop, Leave, parser
<1> QED
  BY <1>1, <1>2, StillStep

(* Items by their kinds push nothing.                                      *)
LEMMA NoPush ==
  ASSUME NEW n, NEW is \in {"query", "op", "call", "name", "def"}, IsItem(n, is)
  PROVE  Bit(Item(n)) = 0
BY DEF IsItem, Bit, IsPush

(* The operands of an operation stand for no push.                         *)
LEMMA OperationScopes ==
  ASSUME OwnInv, OwnStep, Stepped, ~overflow, rc' = "parsing", rc = "parsing",
         NEW n \in 0..3, n <= Len(sem), \A k \in 0..2 : k < n => Bit(Item(k)) = 0,
         NEW args, Operation(Below(n), args)
  PROVE  Stepped'
<1>1. sem' = Append(Below(n), Query(WrappedId, FALSE)) /\ scopes' = scopes
  <2> DEFINE low == Below(n)
  <2>1. Operation(low, args)
    OBVIOUS
  <2> HIDE DEF low
  <2>2. sem' = Append(low, Query(WrappedId, FALSE)) /\ scopes' = scopes
    BY <2>1 DEF Operation, Reduce, Fail, Stop, Leave
  <2> QED
    BY <2>2 DEF low
<1> QED
  BY <1>1, FlatQuery

(* Operations.                                                             *)
LEMMA OperatorScopes ==
  ASSUME OwnInv, OwnStep, Stepped, ~overflow, rc' = "parsing", Unary \/ EndOperation
  PROVE  Stepped'
<1>1. CASE Unary
  <2>1. /\ rc = "parsing" /\ 1 <= Len(sem) /\ IsItem(0, "query")
        /\ Operation(Below(1), <<Top>>)
    BY <1>1, TopQuery DEF Unary, Complete
  <2>2. 1 \in 0..3 /\ \A k \in 0..2 : k < 1 => Bit(Item(k)) = 0
    <3>1. Bit(Item(0)) = 0
      BY <2>1, NoPush
    <3>2. \A k \in 0..2 : k < 1 => k = 0
      OBVIOUS
    <3> QED
      BY <3>1, <3>2
  <2> QED
    BY <2>1, <2>2, OperationScopes
<1>2. CASE EndOperation
  <2>1. /\ rc = "parsing" /\ IsItem(0, "query") /\ IsItem(1, "op")
        /\ Operation(Below(3), <<Item(2), Top>>)
    BY <1>2, TopQuery DEF EndOperation, Complete
  <2>2. IsItem(2, "query")
    BY <2>1, ItemBelow
  <2>3. 3 <= Len(sem)
    BY <2>2, StackItem
  <2>4. \A k \in 0..2 : Bit(Item(k)) = 0
    <3>1. Bit(Item(0)) = 0 /\ Bit(Item(1)) = 0 /\ Bit(Item(2)) = 0
      BY <2>1, <2>2, NoPush
    <3>2. 0..2 = {0, 1, 2}
      OBVIOUS
    <3> QED
      BY <3>1, <3>2
  <2>5. 3 \in 0..3
    OBVIOUS
  <2> QED
    BY <2>1, <2>3, <2>4, <2>5, OperationScopes
<1> QED
  BY <1>1, <1>2

(* A token that is pushed and stands for no push of a scope.               *)
LEMMA ShiftScopes ==
  ASSUME OwnInv, OwnStep, Stepped, ~overflow, rc = "parsing", rc' = "parsing",
         NEW it, Bit(it) = 0, it.is # "def", Shift(it)
  PROVE  Stepped'
<1>1. sem' = Append(Below(0), it) /\ scopes' = scopes /\ 0 <= Len(sem) /\ 0 \in 0..3
  BY BelowNone DEF Shift
<1> QED
  BY <1>1, FlatStep

(* The tokens that are such.                                               *)
LEMMA TokenScopes ==
  ASSUME OwnInv, OwnStep, Stepped, ~overflow, rc' = "parsing",
         \/ Operator \/ Call \/ Open
         \/ \E n \in Names \cup {0}, bind \in BOOLEAN : Name(n, bind)
         \/ IsItem(0, "open") /\ Shift([is |-> "colon", c |-> 0])
  PROVE  Stepped'
<1>1. rc = "parsing"
  BY DEF Operator, Call, Open, Name, Shift, Starts
<1>2. PICK it : Shift(it) /\ Bit(it) = 0 /\ it.is # "def"
  <2>1. /\ Bit([is |-> "op"]) = 0 /\ Bit([is |-> "call", args |-> <<>>]) = 0
        /\ Bit([is |-> "open", q |-> 0]) = 0 /\ Bit([is |-> "colon", c |-> 0]) = 0
        /\ \A n, bind : Bit([is |-> "name", n |-> n, bind |-> bind]) = 0
    BY DEF Bit, IsPush
  <2>2. CASE Operator
    BY <2>1, <2>2 DEF Operator
  <2>3. CASE Call
    BY <2>1, <2>3 DEF Call
  <2>4. CASE Open
    BY <2>1, <2>4 DEF Open
  <2>5. CASE \E n \in Names \cup {0}, bind \in BOOLEAN : Name(n, bind)
    BY <2>1, <2>5 DEF Name
  <2>6. CASE IsItem(0, "open") /\ Shift([is |-> "colon", c |-> 0])
    BY <2>1, <2>6
  <2> QED
    BY <2>2, <2>3, <2>4, <2>5, <2>6
<1> QED
  BY <1>1, <1>2, ShiftScopes

(* Arguments and calls.                                                    *)
LEMMA CallScopes ==
  ASSUME OwnInv, OwnStep, Stepped, ~overflow, rc' = "parsing", EndArgument \/ EndCall
  PROVE  Stepped'
<1>1. CASE EndArgument
  <2> DEFINE it == [is |-> "call", args |-> <<Top.q>> \o Item(1).args]
  <2>1. /\ rc = "parsing" /\ IsItem(0, "query") /\ IsItem(1, "call")
        /\ sem' = Append(Below(2), it) /\ scopes' = scopes
    BY <1>1, TopQuery DEF EndArgument, Complete, Reduce
  <2>2. Bit(it) = 0 /\ it.is # "def"
    BY DEF Bit, IsPush
  <2> HIDE DEF it
  <2>3. 2 <= Len(sem)
    BY <2>1, StackItem
  <2>4. 2 \in 0..3 /\ \A k \in 0..2 : k < 2 => Bit(Item(k)) = 0
    <3>1. Bit(Item(0)) = 0 /\ Bit(Item(1)) = 0
      BY <2>1, NoPush
    <3>2. \A k \in 0..2 : k < 2 => k \in {0, 1}
      OBVIOUS
    <3> QED
      BY <3>1, <3>2
  <2> QED
    BY <2>1, <2>2, <2>3, <2>4, FlatStep
<1>2. CASE EndCall
  <2>1. /\ IsItem(0, "call") /\ sem' = Append(Below(1), Query(WrappedId, FALSE))
        /\ scopes' = scopes
    BY <1>2 DEF EndCall, Reduce, Stop, Leave
  <2>2. rc = "parsing" /\ 1 <= Len(sem)
    BY <2>1, StackItem
  <2>3. 1 \in 0..3 /\ \A k \in 0..2 : k < 1 => Bit(Item(k)) = 0
    <3>1. Bit(Item(0)) = 0
      BY <2>1, NoPush
    <3>2. \A k \in 0..2 : k < 1 => k = 0
      OBVIOUS
    <3> QED
      BY <3>1, <3>2
  <2> QED
    BY <2>1, <2>2, <2>3, FlatQuery
<1> QED
  BY <1>1, <1>2

(* A compound knows its own names.                                         *)
LEMMA KnowsItself ==
  ASSUME NEW hp, HeapInv(hp), NEW c, IsCompoundObject(hp, c)
  PROVE  c \in Family(hp, c)
<1>1. Kept(hp, hp) /\ c = c
  BY KeptSelf
<1> QED
  BY <1>1, LineageGrows

(* A scope more for the brace or the filter on top.                        *)
LEMMA PushScopes ==
  ASSUME OwnInv, OwnStep, Stepped, ~overflow, rc = "parsing", rc' = "parsing",
         IsItem(0, "query") \/ IsItem(0, "def"),
         NEW c \in Nat, IsCompoundObject(heap, c), scopes' = Push(c),
         NEW it, IsPush(it), it.is = "colon" => it.c = c, sem' = Append(Below(1), it)
  PROVE  Stepped'
<1> DEFINE e == [compound |-> c, pos |-> 0, bound |-> FALSE]
           sd == scopes'
           hq == heap'
<1>1. /\ sem \in Seq(ItemSet) /\ 1 \in 1..3 /\ 1 <= Len(sem) /\ 1 \in 0..Len(sem)
      /\ Bit(Item(0)) = 0
  BY StackItem, NoPush
<1>2. scopes \in Seq(ScopeSet) /\ e \in ScopeSet /\ e.compound = c /\ sd = Append(scopes, e)
  BY DEF OwnInv, ScopeInv, ScopeSet, Push
<1> HIDE DEF e, sd, hq
<1>3. /\ Len(sd) = Len(scopes) + 1 /\ DOMAIN sd = DOMAIN scopes \cup {Len(scopes) + 1}
      /\ \A k \in DOMAIN scopes : sd[k] = scopes[k]
      /\ sd[Len(scopes) + 1] = e
      /\ Len(scopes) \in Nat
  BY <1>2, AppendFacts
<1>4. Based(scopes, sd, heap, heap')
  BY <1>3, BasedSame
<1>5. Len(sd) = 1 + Cardinality(Pushing(sem, Len(sem) - 1)) + Bit(it)
  <2>1. Len(scopes) = 1 + Cardinality(Pushing(sem, Len(sem)))
    BY DEF Stepped, InStep
  <2>2. /\ Cardinality(Pushing(sem, Len(sem))) = Cardinality(Pushing(sem, Len(sem) - 1)) + 0
        /\ Cardinality(Pushing(sem, Len(sem) - 1)) \in Nat
    BY <1>1, PushingAbove
  <2>3. Bit(it) = 1
    BY DEF Bit
  <2> QED
    BY <1>3, <2>1, <2>2, <2>3
<1>6. Known(it, sd, hq)
  <2>1. it.is \in {"def", "colon"} => it.c = c
    BY DEF IsPush
  <2>2. HeapInv(hq) /\ IsCompoundObject(hq, c)
    BY DEF OwnStep, OwnInv, Kept, IsCompoundObject, hq
  <2>3. c \in Family(hq, c)
    BY <2>2, KnowsItself
  <2> QED
    BY <1>2, <1>3, <2>1, <2>3 DEF Known
<1> QED
  BY <1>1, <1>4, <1>5, <1>6, ScopesReduced DEF Based, sd, hq

(* The brace after a query pushes a scope with its value.                  *)
LEMMA OpenOnScopes ==
  ASSUME OwnInv, OwnStep, Stepped, ~overflow, rc' = "parsing", OpenOn
  PROVE  Stepped'
<1>1. /\ rc = "parsing" /\ Top.q \in Nat \ {0} /\ IsQuery(heap, Top.q) /\ HeapInv(heap)
      /\ IsItem(0, "query")
  BY TopQuery DEF OpenOn, Path, OwnInv, Complete
<1> DEFINE c == TopAttr(Top.q).type
           it == [is |-> "open", q |-> Top.q]
<1>2. /\ ~TopAttr(Top.q).atomic /\ scopes' = Push(c) /\ sem' = Append(Below(1), it)
  BY DEF OpenOn, Fail, Stop, Leave
<1>3. IsCompoundObject(heap, c) /\ c \in Nat
  BY <1>1, <1>2, TopTyped DEF AttrObject
<1>4. IsPush(it) /\ it.is # "colon"
  BY <1>1 DEF IsPush
<1> HIDE DEF c, it
<1> QED
  BY <1>1, <1>2, <1>3, <1>4, PushScopes

(* The colon pushes the compound being defined once more.                  *)
LEMMA ColonScopes ==
  ASSUME OwnInv, OwnStep, Stepped, ~overflow, rc' = "parsing", ~overflow', Colon
  PROVE  Stepped'
<1>1. CASE IsItem(0, "open") /\ Shift([is |-> "colon", c |-> 0])
  BY <1>1, TokenScopes
<1>2. CASE /\ IsItem(0, "def")
           /\ scopes' = IF Full THEN scopes ELSE Push(Top.c)
           /\ overflow' = (overflow \/ Full)
           /\ sem' = Append(Below(1), [is |-> "colon", c |-> Top.c])
  <2> DEFINE it == [is |-> "colon", c |-> Top.c]
  <2>1. /\ Len(sem) \in Nat /\ 0 < Len(sem) /\ rc = "parsing"
        /\ Item(0) = sem[Len(sem) - 0] /\ Item(0) \in ItemSet
        /\ ItemRefs(heap, Item(0)) /\ Item(0).is = "def"
    BY <1>2, StackItem
  <2>2. Top = Item(0)
    BY <2>1 DEF Top, Last
  <2>3. Top.c \in Nat \ {0} /\ IsCompoundObject(heap, Top.c)
    <3>1. Top.c \in Nat /\ Builds(Top) = {Top.c} \ {0}
      BY <2>1, <2>2, ItemFields
    <3> QED
      BY <2>1, <2>2, <3>1 DEF ItemRefs
  <2>4. scopes' = Push(Top.c)
    BY <1>2
  <2>5. IsPush(it) /\ it.is = "colon" /\ it.c = Top.c /\ sem' = Append(Below(1), it)
    BY <1>2, <2>3 DEF IsPush
  <2> HIDE DEF it
  <2> QED
    BY <1>2, <2>1, <2>3, <2>4, <2>5, PushScopes
<1> QED
  BY <1>1, <1>2 DEF Colon

(* The scope on top becomes that of a compound based on what it was.       *)
LEMMA TopReplaced ==
  ASSUME OwnInv, OwnStep, rc = "parsing",
         NEW e \in ScopeSet, IsCompoundObject(heap', e.compound),
         e.compound = Scope.compound \/ heap'[e.compound].parent = Scope.compound,
         scopes' = Append(Front(scopes), e)
  PROVE  /\ Len(scopes') = Len(scopes) /\ Len(scopes) \in Nat \ {0}
         /\ scopes'[Len(scopes)] = e /\ scopes[Len(scopes)] = Scope
         /\ Based(scopes, scopes', heap, heap')
         /\ Family(heap, Scope.compound) \subseteq Family(heap', e.compound)
         /\ e.compound \in Family(heap', e.compound)
<1> DEFINE sd == scopes'
           hq == heap'
           c == Scope.compound
<1>1. /\ scopes \in Seq(ScopeSet) /\ Len(scopes) \in Nat \ {0}
      /\ Scope = scopes[Len(scopes)] /\ IsCompoundObject(heap, c) /\ scopes # <<>>
  BY ScopeTyped DEF ScopeSet
<1>2. /\ Front(scopes) \in Seq(ScopeSet) /\ Len(Front(scopes)) = Len(scopes) - 1
      /\ DOMAIN Front(scopes) = 1..(Len(scopes) - 1) /\ DOMAIN scopes = 1..Len(scopes)
      /\ \A i \in DOMAIN Front(scopes) : i \in DOMAIN scopes /\ Front(scopes)[i] = scopes[i]
  BY <1>1, FrontOf
<1>3. /\ sd \in Seq(ScopeSet)
      /\ DOMAIN sd = DOMAIN Front(scopes) \cup {Len(Front(scopes)) + 1}
      /\ \A k \in DOMAIN Front(scopes) : sd[k] = Front(scopes)[k]
      /\ sd[Len(Front(scopes)) + 1] = e
  BY <1>2, AppendFacts
<1>4. Len(sd) = Len(scopes) /\ sd[Len(scopes)] = e
  BY <1>1, <1>2, <1>3
<1>5. HeapInv(heap) /\ HeapInv(hq) /\ Kept(heap, hq) /\ IsCompoundObject(hq, e.compound)
  BY DEF OwnInv, OwnStep
<1>6. e.compound = c \/ hq[e.compound].parent = c
  OBVIOUS
<1> HIDE DEF sd, hq, c
<1>7. Family(heap, c) \subseteq Family(hq, e.compound) /\ e.compound \in Family(hq, e.compound)
  BY <1>1, <1>5, <1>6, LineageGrows
<1>8. ASSUME NEW k \in DOMAIN scopes, k \in DOMAIN sd
      PROVE  Family(heap, scopes[k].compound) \subseteq Family(hq, sd[k].compound)
  <2>1. CASE k = Len(scopes)
    BY <1>1, <1>4, <1>7, <2>1 DEF c
  <2>2. CASE k # Len(scopes)
    <3>1. k \in DOMAIN Front(scopes)
      BY <1>1, <1>2, <2>2
    <3>2. sd[k] = scopes[k]
      BY <1>2, <1>3, <3>1
    <3>3. IsCompoundObject(heap, scopes[k].compound)
      BY DEF OwnInv, ScopeInv
    <3>4. IsCompoundObject(hq, scopes[k].compound)
      BY <1>5, <3>3 DEF Kept, IsCompoundObject
    <3> DEFINE d == scopes[k].compound
    <3> HIDE DEF d
    <3>5. Family(heap, d) \subseteq Family(hq, d)
      BY <1>5, <3>3, <3>4, LineageGrows DEF d
    <3> QED
      BY <3>2, <3>5 DEF d
  <2> QED
    BY <2>1, <2>2
<1> QED
  BY <1>1, <1>4, <1>7, <1>8 DEF Based, sd, hq, c

(* The first of two elements added to a sequence.                          *)
LEMMA FirstAdded ==
  ASSUME NEW E, NEW s \in Seq(E), NEW a, NEW b
  PROVE  Len(s) + 1 \in DOMAIN (s \o <<a, b>>) /\ (s \o <<a, b>>)[Len(s) + 1] = a
<1> DEFINE F == E \cup {a, b}
<1>1. s \in Seq(F) /\ a \in F /\ b \in F
  OBVIOUS
<1> HIDE DEF F
<1>2. s \o <<a, b>> = Append(Append(s, a), b)
  BY <1>1
<1>3. /\ Append(s, a) \in Seq(F) /\ Len(s) + 1 \in DOMAIN Append(s, a)
      /\ Append(s, a)[Len(s) + 1] = a
  BY <1>1, AppendFacts
<1> DEFINE u == Append(s, a)
<1> HIDE DEF u
<1>4. Len(s) + 1 \in DOMAIN Append(u, b) /\ Append(u, b)[Len(s) + 1] = u[Len(s) + 1]
  BY <1>1, <1>3, AppendFacts DEF u
<1> QED
  BY <1>2, <1>3, <1>4 DEF u

(* The first definition of a scope: the new compound takes the place of    *)
(* the one it is based on, ...                                             *)
LEMMA StartScopes ==
  ASSUME OwnInv, OwnStep, Stepped, ~overflow, rc = "parsing", rc' = "parsing",
         IsItem(0, "query"), IsItem(1, "name"), NEW n, NEW q, NEW bind,
         StartCompound(Below(2), n, q, bind)
  PROVE  Stepped'
<1> DEFINE name == IF n = 0 THEN 1 ELSE n
           made == Compound(Scope.compound, [m \in {name} |-> Self + 1])
           e == [compound |-> Self, pos |-> IF n = 0 THEN 2 ELSE 0, bound |-> bind]
           it == [is |-> "def", c |-> Self, named |-> n # 0]
           low == Below(2)
<1>1. /\ heap' = heap \o <<made, Definition(Self + 1, q, bind)>>
      /\ scopes' = Append(Front(scopes), e) /\ sem' = Append(low, it)
  <2>1. StartCompound(low, n, q, bind)
    OBVIOUS
  <2> HIDE DEF low
  <2> QED
    BY <2>1 DEF StartCompound, Stop, Leave
<1>2. it.is = "def" /\ it.c = Self /\ e.compound = Self /\ Bit(it) = 0
  BY DEF Bit, IsPush
<1>3. made.kind = "compound" /\ made.parent = Scope.compound
  BY DEF Compound
<1> HIDE DEF e, it, made, low
<1>4. Self \in DOMAIN heap' /\ heap'[Self] = made
  <2>1. heap \in Seq(Object) /\ Len(heap) \in Nat /\ Self = Len(heap) + 1
    BY DEF OwnInv, HeapInv, Self
  <2> QED
    BY <1>1, <2>1, FirstAdded
<1>5. IsCompoundObject(heap', e.compound) /\ heap'[e.compound].parent = Scope.compound
  BY <1>2, <1>3, <1>4 DEF IsCompoundObject
<1>6. e \in ScopeSet
  <2> DEFINE E == ScopeSet \cup {e}
             sd == scopes'
  <2>1. Front(scopes) \in Seq(ScopeSet)
    <3>1. scopes \in Seq(ScopeSet) /\ scopes # <<>>
      BY DEF OwnInv, ScopeInv, ScopeSet
    <3> QED
      BY <3>1, FrontOf
  <2>2. Front(scopes) \in Seq(E) /\ e \in E
    BY <2>1
  <2>3. sd = Append(Front(scopes), e)
    BY <1>1
  <2>4. sd \in Seq(ScopeSet)
    BY DEF OwnStep, OwnInv, ScopeInv, ScopeSet
  <2> HIDE DEF E, sd
  <2>5. Len(Front(scopes)) + 1 \in DOMAIN sd /\ sd[Len(Front(scopes)) + 1] = e
    BY <2>2, <2>3, AppendFacts
  <2> QED
    BY <2>4, <2>5
<1>7. /\ Len(scopes') = Len(scopes) /\ Len(scopes) \in Nat \ {0}
      /\ scopes'[Len(scopes)] = e
      /\ Based(scopes, scopes', heap, heap')
      /\ e.compound \in Family(heap', e.compound)
  BY <1>1, <1>5, <1>6, TopReplaced
<1>8. 2 <= Len(sem) /\ sem \in Seq(ItemSet) /\ 2 \in 0..Len(sem)
  BY StackItem
<1>9. Len(scopes') = 1 + Cardinality(Pushing(sem, Len(sem) - 2)) + Bit(it)
  <2>1. Bit(Item(0)) = 0 /\ Bit(Item(1)) = 0
    BY NoPush
  <2>2. 2 \in 1..3
    OBVIOUS
  <2>3. /\ Cardinality(Pushing(sem, Len(sem))) = Cardinality(Pushing(sem, Len(sem) - 2)) + 0 + 0
        /\ Cardinality(Pushing(sem, Len(sem) - 2)) \in Nat
    BY <1>8, <2>1, <2>2, PushingAbove
  <2>4. Len(scopes) = 1 + Cardinality(Pushing(sem, Len(sem)))
    BY DEF Stepped, InStep
  <2> QED
    BY <1>2, <1>7, <2>3, <2>4
<1>10. Known(it, scopes', heap')
  BY <1>2, <1>7 DEF Known
<1> QED
  BY <1>1, <1>7, <1>8, <1>9, <1>10, ScopesReduced DEF Based, low

(* The stack but for the topmost item, and without it.                     *)
LEMMA BelowIs ==
  ASSUME sem \in Seq(ItemSet), 3 <= Len(sem)
  PROVE  Below(2) = Append(Below(3), Item(2))
<1> DEFINE a == SubSeq(sem, 1, Len(sem) - 2)
           b == SubSeq(sem, 1, Len(sem) - 3)
           t == Append(b, Item(2))
<1>1. /\ Len(sem) \in Nat /\ 2 \in 0..Len(sem) /\ 3 \in 0..Len(sem) /\ Item(2) \in ItemSet
      /\ Item(2) = sem[Len(sem) - 2]
  BY DEF Item
<1>2. a = SubSeq(sem, 1, Len(sem) - 2) /\ b = SubSeq(sem, 1, Len(sem) - 3)
  OBVIOUS
<1> HIDE DEF a, b
<1>3. /\ a \in Seq(ItemSet) /\ DOMAIN a = 1..(Len(sem) - 2)
      /\ \A i \in DOMAIN a : a[i] = sem[i]
  BY <1>1, <1>2, PrefixIs
<1>4. /\ b \in Seq(ItemSet) /\ DOMAIN b = 1..(Len(sem) - 3) /\ Len(b) = Len(sem) - 3
      /\ \A i \in DOMAIN b : b[i] = sem[i]
  <2> DEFINE m == 3
  <2>1. m \in 0..Len(sem) /\ b = SubSeq(sem, 1, Len(sem) - m)
    BY <1>1, <1>2
  <2> HIDE DEF m
  <2>2. /\ b \in Seq(ItemSet) /\ DOMAIN b = 1..(Len(sem) - m) /\ Len(b) = Len(sem) - m
        /\ \A i \in DOMAIN b : b[i] = sem[i]
    BY <2>1, PrefixIs
  <2> QED
    BY <2>2 DEF m
<1>5. /\ t \in Seq(ItemSet) /\ DOMAIN t = DOMAIN b \cup {Len(b) + 1}
      /\ \A k \in DOMAIN b : t[k] = b[k]
      /\ t[Len(b) + 1] = Item(2)
  BY <1>1, <1>4, AppendFacts
<1> HIDE DEF t
<1>6. DOMAIN t = DOMAIN a
  BY <1>1, <1>3, <1>4, <1>5
<1>7. \A i \in DOMAIN a : t[i] = a[i]
  <2> TAKE i \in DOMAIN a
  <2>1. i = Len(sem) - 2 \/ i \in DOMAIN b
    BY <1>1, <1>3, <1>4
  <2> QED
    BY <1>1, <1>3, <1>4, <1>5, <2>1
<1>8. a = [i \in DOMAIN a |-> a[i]] /\ t = [i \in DOMAIN t |-> t[i]]
  BY <1>3, <1>5
<1>9. a = t
  BY <1>6, <1>7, <1>8
<1> QED
  BY <1>2, <1>9 DEF t, Below

(* ... which the later ones find there.                                    *)
LEMMA AppendScopes ==
  ASSUME OwnInv, OwnStep, Stepped, ~overflow, rc = "parsing", rc' = "parsing",
         IsItem(0, "query"), IsItem(1, "name"), IsItem(2, "def"),
         NEW n, NEW q, NEW bind \in BOOLEAN,
         AppendAttribute(Below(2), n, q, bind)
  PROVE  Stepped'
<1> DEFINE e == [[Scope EXCEPT !.pos = IF n = 0 THEN @ + 1 ELSE @] EXCEPT !.bound = @ \/ bind]
           c == Scope.compound
           it == Item(2)
           sd == scopes'
           hq == heap'
<1>1. scopes' = Append(Front(scopes), e) /\ sem' = Below(2)
  <2> DEFINE low == Below(2)
  <2>1. AppendAttribute(low, n, q, bind)
    OBVIOUS
  <2> HIDE DEF low
  <2>2. sem' = low /\ scopes' = Append(Front(scopes), e)
    BY <2>1 DEF AppendAttribute, Stop, Leave
  <2> QED
    BY <2>2 DEF low
<1>2. Scope \in ScopeSet /\ IsCompoundObject(heap, c) /\ c \in Nat
  BY ScopeTyped DEF ScopeSet
<1>3. e \in ScopeSet /\ e.compound = c
  <2> DEFINE pos == IF n = 0 THEN Scope.pos + 1 ELSE Scope.pos
             bound == Scope.bound \/ bind
  <2>1. pos \in Nat /\ bound \in BOOLEAN
    BY <1>2 DEF ScopeSet
  <2>2. e = [[Scope EXCEPT !.pos = pos] EXCEPT !.bound = bound]
    BY <1>2 DEF ScopeSet
  <2> HIDE DEF pos, bound, e
  <2>3. e = [compound |-> Scope.compound, pos |-> pos, bound |-> bound]
    BY <1>2, <2>1, <2>2, ScopeChanged DEF ScopeSet
  <2> QED
    BY <1>2, <2>1, <2>3 DEF ScopeSet
<1> HIDE DEF e
<1>4. IsCompoundObject(heap', e.compound)
  BY <1>2, <1>3 DEF OwnStep, Kept, IsCompoundObject
<1>5. /\ Len(scopes') = Len(scopes) /\ Len(scopes) \in Nat \ {0}
      /\ scopes'[Len(scopes)] = e
      /\ scopes[Len(scopes)] = Scope
      /\ Based(scopes, scopes', heap, heap')
      /\ Family(heap, c) \subseteq Family(heap', e.compound)
  BY <1>1, <1>3, <1>4, TopReplaced
<1>6. 3 <= Len(sem) /\ sem \in Seq(ItemSet) /\ 3 \in 0..Len(sem) /\ Len(sem) \in Nat
  <2>1. sem \in Seq(ItemSet) /\ Len(sem) \in Nat /\ 2 < Len(sem)
    BY StackItem
  <2> QED
    BY <2>1
<1>7. sem' = Append(Below(3), it)
  BY <1>1, <1>6, BelowIs
<1>8. Bit(Item(0)) = 0 /\ Bit(Item(1)) = 0 /\ Bit(Item(2)) = 0
  BY NoPush
<1>9. /\ Len(scopes) = 1 + Cardinality(Pushing(sem, Len(sem)))
      /\ Cardinality(Pushing(sem, Len(sem))) = Cardinality(Pushing(sem, Len(sem) - 3))
      /\ Cardinality(Pushing(sem, Len(sem))) = Cardinality(Pushing(sem, Len(sem) - 2))
      /\ Cardinality(Pushing(sem, Len(sem))) \in Nat
  <2>1. 3 \in 1..3 /\ 2 \in 1..3 /\ 2 <= Len(sem)
    BY <1>6
  <2>2. /\ Cardinality(Pushing(sem, Len(sem)))
             = Cardinality(Pushing(sem, Len(sem) - 3)) + 0 + 0 + 0
        /\ Cardinality(Pushing(sem, Len(sem) - 3)) \in Nat
    BY <1>6, <1>8, <2>1, PushingAbove
  <2>3. /\ Cardinality(Pushing(sem, Len(sem)))
             = Cardinality(Pushing(sem, Len(sem) - 2)) + 0 + 0
        /\ Cardinality(Pushing(sem, Len(sem) - 2)) \in Nat
    BY <1>6, <1>8, <2>1, PushingAbove
  <2>4. Len(scopes) = 1 + Cardinality(Pushing(sem, Len(sem)))
    BY DEF Stepped, InStep
  <2> QED
    BY <2>2, <2>3, <2>4
<1>10. Len(scopes') = 1 + Cardinality(Pushing(sem, Len(sem) - 3)) + Bit(it)
  BY <1>5, <1>8, <1>9
<1>11. Known(it, sd, hq)
  <2> DEFINE i == Len(sem) - 2
  <2>1. i \in DOMAIN sem /\ it = sem[i] /\ it.is = "def"
    BY <1>6 DEF Item, IsItem
  <2>2. it.c # 0
    <3>1. ItemRefs(heap, Item(2))
      BY StackItem
    <3> QED
      BY <2>1, <3>1 DEF ItemRefs
  <2>3. it.c \in Family(heap, scopes[1 + Cardinality(Pushing(sem, i))].compound)
    BY <2>1, <2>2 DEF Stepped, InStep
  <2>4. 1 + Cardinality(Pushing(sem, i)) = Len(scopes)
    BY <1>9
  <2>5. it.c \in Family(heap, c)
    BY <1>5, <2>3, <2>4
  <2>6. it.c \in Family(hq, sd[Len(sd)].compound)
    BY <1>5, <2>5
  <2> QED
    BY <2>6 DEF Known
<1> QED
  BY <1>5, <1>6, <1>7, <1>10, <1>11, ScopesReduced DEF Based

(* Definitions.                                                            *)
LEMMA DefinitionScopes ==
  ASSUME OwnInv, OwnStep, Stepped, ~overflow, rc' = "parsing", EndDefinition
  PROVE  Stepped'
<1>1. /\ Complete /\ IsItem(0, "query") /\ IsItem(1, "name") /\ rc = "parsing"
  BY TopQuery DEF EndDefinition, Complete
<1>2. Item(1).bind \in BOOLEAN /\ (IsItem(2, "open") \/ IsItem(2, "def"))
  BY <1>1, DefinitionItems
<1>3. CASE IsItem(2, "open")
  BY <1>1, <1>3, StartScopes DEF EndDefinition
<1>4. CASE IsItem(2, "def")
  <2>1. ~IsItem(2, "open")
    BY <1>4 DEF IsItem
  <2>2. AppendAttribute(Below(2), Item(1).n, Top.q, Item(1).bind)
    BY <2>1 DEF EndDefinition
  <2> QED
    BY <1>1, <1>2, <1>4, <2>2, AppendScopes
<1> QED
  BY <1>2, <1>3, <1>4

(* The end of a scope takes the scopes of its brace and its filter away.   *)
LEMMA CloseScopes ==
  ASSUME OwnInv, OwnStep, Stepped, ~overflow, rc = "parsing", rc' = "parsing",
         NEW n \in 1..3, n <= Len(sem), NEW open, open.is = "open",
         NEW b \in {0, 1},
         Cardinality(Pushing(sem, Len(sem)))
           = Cardinality(Pushing(sem, Len(sem) - n)) + b + Bit(open),
         NEW sc \in Seq(ScopeSet), sc # <<>>, Len(sc) = Len(scopes) - b,
         \A i \in DOMAIN sc : i \in DOMAIN scopes /\ sc[i] = scopes[i],
         NEW hp, NEW c, NEW f, Close(Below(n), open, c, f, hp, sc)
  PROVE  Stepped'
<1> DEFINE low == Below(n)
           on == open.q # 0
           it == Query(IF on THEN open.q ELSE Len(hp) + 2, TRUE)
           sd == scopes'
<1>1. PICK q : /\ sd = (IF on THEN Front(sc) ELSE sc)
               /\ sem' = Append(low, Query(q, TRUE))
  <2>1. Close(low, open, c, f, hp, sc)
    OBVIOUS
  <2> HIDE DEF low
  <2> QED
    BY <2>1 DEF Close, Stop, Leave
<1>2. sem \in Seq(ItemSet) /\ scopes \in Seq(ScopeSet) /\ Len(scopes) \in Nat
  BY DEF OwnInv, SemInv, ScopeInv, ScopeSet
<1>3. /\ Len(sd) = Len(scopes) - b - Bit(open)
      /\ \A k \in DOMAIN sd : sd[k] = scopes[k]
  <2>1. CASE on
    <3>1. /\ Front(sc) \in Seq(ScopeSet) /\ Len(Front(sc)) = Len(sc) - 1
          /\ \A i \in DOMAIN Front(sc) : i \in DOMAIN sc /\ Front(sc)[i] = sc[i]
      BY FrontOf
    <3>2. Bit(open) = 1
      BY <2>1, BitOf
    <3> QED
      BY <1>1, <1>2, <2>1, <3>1, <3>2
  <2>2. CASE ~on
    <3>1. Bit(open) = 0
      BY <2>2, BitOf
    <3> QED
      BY <1>1, <1>2, <2>2, <3>1
  <2> QED
    BY <2>1, <2>2
<1> DEFINE item == Query(q, TRUE)
<1>4. Bit(item) = 0 /\ item.is = "query"
  BY DEF Query, Bit, IsPush
<1>5. sem' = Append(Below(n), item)
  BY <1>1
<1> HIDE DEF sd, item
<1>6. Based(scopes, sd, heap, heap')
  BY <1>3, BasedSame
<1>7. Len(sd) = 1 + Cardinality(Pushing(sem, Len(sem) - n)) + Bit(item)
  <2>1. Len(scopes) = 1 + Cardinality(Pushing(sem, Len(sem)))
    BY DEF Stepped, InStep
  <2>2. Cardinality(Pushing(sem, Len(sem) - n)) \in Nat /\ Bit(open) \in {0, 1}
    BY <1>2, PushingAbove, BitOf
  <2> QED
    BY <1>2, <1>3, <1>4, <2>1, <2>2, SMTT(40)
<1>8. Known(item, sd, heap')
  BY <1>4 DEF Known
<1>9. n \in 0..Len(sem)
  BY <1>2
<1> QED
  BY <1>5, <1>6, <1>7, <1>8, <1>9, ScopesReduced DEF Based, sd

(* The end of a scope pops what its brace and its filter pushed.           *)
LEMMA CloseScopeScopes ==
  ASSUME OwnInv, OwnStep, Stepped, ~overflow, rc' = "parsing", CloseScope
  PROVE  Stepped'
<1> DEFINE all == Cardinality(Pushing(sem, Len(sem)))
<1>1. CASE IsItem(0, "def") /\ Close(Below(2), Item(1), Top.c, 0, heap, scopes)
  <2>1. IsItem(1, "open")
    BY <1>1, ItemBelow
  <2>2. /\ rc = "parsing" /\ 2 <= Len(sem) /\ sem \in Seq(ItemSet)
        /\ Item(1).is = "open" /\ Bit(Item(0)) = 0 /\ Bit(Item(1)) \in {0, 1}
    BY <1>1, <2>1, StackItem, NoPush, BitOf
  <2>3. 2 \in 1..3 /\ 0 \in {0, 1}
    OBVIOUS
  <2>4. all = Cardinality(Pushing(sem, Len(sem) - 2)) + 0 + Bit(Item(1))
    BY <2>2, <2>3, PushingAbove
  <2>5. scopes \in Seq(ScopeSet) /\ scopes # <<>> /\ Len(scopes) = Len(scopes) - 0
    BY <2>2 DEF OwnInv, ScopeInv, ScopeSet
  <2> QED
    BY <1>1, <2>2, <2>3, <2>4, <2>5, CloseScopes
<1>2. ASSUME Complete, IsItem(1, "colon")
      PROVE  /\ rc = "parsing" /\ 3 <= Len(sem) /\ sem \in Seq(ItemSet)
             /\ Item(2).is = "open"
             /\ all = Cardinality(Pushing(sem, Len(sem) - 3)) + Bit(Item(1)) + Bit(Item(2))
             /\ Cardinality(Pushing(sem, Len(sem) - 3)) \in Nat
             /\ Bit(Item(2)) \in {0, 1}
             /\ scopes \in Seq(ScopeSet) /\ scopes # <<>> /\ Len(scopes) = 1 + all
             /\ Item(1).is = "colon"
  <2>1. IsItem(0, "query")
    BY <1>2 DEF Complete
  <2>2. IsItem(2, "open")
    BY <1>2, ItemBelow
  <2>3. /\ rc = "parsing" /\ 3 <= Len(sem) /\ sem \in Seq(ItemSet) /\ Item(2).is = "open"
        /\ Item(1).is = "colon"
    BY <1>2, <2>2, StackItem
  <2>4. 3 \in 1..3 /\ Bit(Item(0)) = 0 /\ Bit(Item(1)) \in {0, 1} /\ Bit(Item(2)) \in {0, 1}
    BY <2>1, NoPush, BitOf
  <2>5. /\ all = Cardinality(Pushing(sem, Len(sem) - 3)) + 0 + Bit(Item(1)) + Bit(Item(2))
        /\ Cardinality(Pushing(sem, Len(sem) - 3)) \in Nat
    BY <2>3, <2>4, PushingAbove
  <2>6. scopes \in Seq(ScopeSet) /\ scopes # <<>> /\ Len(scopes) = 1 + all
    BY <2>3 DEF OwnInv, ScopeInv, ScopeSet, Stepped, InStep
  <2> QED
    BY <2>3, <2>4, <2>5, <2>6
<1> HIDE DEF all
<1>3. CASE /\ Complete /\ IsItem(1, "colon") /\ Item(1).c # 0
           /\ Close(Below(3), Item(2), Item(1).c, Top.q, heap, Popped)
  <2>1. Bit(Item(1)) = 1
    BY <1>2, <1>3, BitOf
  <2>2. Len(scopes) > 1
    BY <1>2, <1>3, <2>1
  <2>3. Popped = Front(scopes)
    BY <2>2 DEF Popped
  <2>4. /\ Popped \in Seq(ScopeSet) /\ Len(Popped) = Len(scopes) - 1
        /\ \A i \in DOMAIN Popped : i \in DOMAIN scopes /\ Popped[i] = scopes[i]
    BY <1>2, <1>3, <2>3, FrontOf
  <2>5. Popped # <<>>
    <3>1. Len(Popped) # 0
      BY <1>2, <1>3, <2>2, <2>4
    <3> QED
      BY <3>1
  <2>6. 3 \in 1..3 /\ 1 \in {0, 1}
    OBVIOUS
  <2> QED
    BY <1>2, <1>3, <2>1, <2>4, <2>5, <2>6, CloseScopes DEF all
<1>4. CASE /\ Complete /\ IsItem(1, "colon") /\ Item(1).c = 0
           /\ Close(Below(3), Item(2), Self, Top.q,
                    Append(heap, Compound(Scope.compound, <<>>)), scopes)
  <2>1. Bit(Item(1)) = 0
    BY <1>2, <1>4, BitOf
  <2>2. 3 \in 1..3 /\ 0 \in {0, 1}
    OBVIOUS
  <2>3. Len(scopes) = Len(scopes) - 0
    BY <1>2, <1>4
  <2> QED
    BY <1>2, <1>4, <2>1, <2>2, <2>3, CloseScopes DEF all
<1> QED
  BY <1>1, <1>3, <1>4 DEF CloseScope

(* Every step.                                                             *)
LEMMA SteppedNext ==
  OwnInv /\ OwnStep /\ Stepped /\ [Next]_vars => Stepped'
<1> SUFFICES ASSUME OwnInv, OwnStep, Stepped, [Next]_vars, rc' = "parsing", ~overflow'
             PROVE  Stepped'
  BY DEF Stepped
<1>1. CASE Accept \/ SyntaxError
  BY <1>1, SMTT(40) DEF Accept, SyntaxError, Fail, Stop, Leave
<1>2. ASSUME Parse, ~Accept, ~SyntaxError
      PROVE  ~overflow
  BY <1>2 DEF Parse, Member, Extend, Literal, Reduce, Fail, Stop, Leave, Unary, Operation,
     Operator, Shift, EndOperation, Call, EndArgument, EndCall, OpenOn, Open, Colon,
     CloseScope, Close, Name, EndDefinition, StartCompound, AppendAttribute, parser
<1>3. CASE ~overflow /\ (Literal \/ Member)
  BY <1>3, LiteralScopes
<1>4. CASE ~overflow /\ Extend
  BY <1>4, ExtendScopes
<1>5. CASE ~overflow /\ (Unary \/ EndOperation)
  BY <1>5, OperatorScopes
<1>6. CASE /\ ~overflow
           /\ Operator \/ Call \/ Open \/ \E n \in Names \cup {0}, bind \in BOOLEAN : Name(n, bind)
  BY <1>6, TokenScopes
<1>7. CASE ~overflow /\ (EndArgument \/ EndCall)
  BY <1>7, CallScopes
<1>8. CASE ~overflow /\ OpenOn
  BY <1>8, OpenOnScopes
<1>9. CASE ~overflow /\ Colon
  BY <1>9, ColonScopes
<1>10. CASE ~overflow /\ CloseScope
  BY <1>10, CloseScopeScopes
<1>11. CASE ~overflow /\ EndDefinition
  BY <1>11, DefinitionScopes
<1>12. CASE \/ Iterate \/ DestroyQuery \/ DestroyContext
            \/ UnwindAttribute \/ UnwindCompound \/ ContextGone \/ UNCHANGED vars
  <2>1. UNCHANGED <<sem, scopes, rc, overflow>>
    BY <1>12 DEF Iterate, DestroyQuery, DestroyContext, UnwindAttribute, UnwindCompound,
       ContextGone, Corrupt, parser, vars
  <2> QED
    BY <2>1, StillStep
<1> QED
  BY <1>1, <1>2, <1>3, <1>4, <1>5, <1>6, <1>7, <1>8, <1>9, <1>10, <1>11, <1>12
     DEF Next, Parse

(* The root scope alone, and no values.                                    *)
LEMMA SteppedInit == Init => Stepped
<1> SUFFICES ASSUME Init PROVE InStep(sem, scopes, heap)
  BY DEF Stepped
<1>1. sem = <<>> /\ Len(scopes) = 1
  BY DEF Init
<1>2. Pushing(sem, Len(sem)) = {}
  BY <1>1 DEF Pushing
<1> QED
  BY <1>1, <1>2, FS_EmptySet DEF InStep

(* compoundStack follows the braces and filters of the expression, and the *)
(* names defined so far in a scope that is still open are known in it.     *)
THEOREM ScopesInStepHolds == Spec => []ScopesInStep
<1>1. OwnInv /\ [Next]_vars => OwnStep /\ OwnInv'
  BY OwnNext DEF OwnStep
<1>2. OwnInv /\ Stepped /\ [Next]_vars => OwnInv' /\ Stepped'
  BY <1>1, SteppedNext
<1>3. Init => OwnInv /\ Stepped
  BY OwnInit, SteppedInit
<1> QED
  BY <1>2, <1>3, ScopesInStepIs, PTL DEF Spec
-----------------------------------------------------------------------------
(***************************************************************************)
(* What a query and its context leave behind.                              *)
(***************************************************************************)

(* The bound attributes of a compound, the queries they are bound to, and  *)
(* what is destroyed with an object when the collections I have iterators: *)
(* OwnedBy as a function of the heap.                                      *)
BoundIn(hp, c) == {b \in Claims(hp, c) : IsAttr(hp, b) /\ hp[b].sort = "bound"}
BoundTo(hp, c) == UNION {Claims(hp, b) : b \in BoundIn(hp, c)}

Owns(hp, I, p) ==
  (IF IsAttr(hp, p) /\ hp[p].sort = "bound" THEN {} ELSE Claims(hp, p))
  \cup UNION {BoundTo(hp, hp[a].type) : a \in Claims(hp, p) \cap I}

OwnsIs == \A p \in DOMAIN heap : OwnedBy(p) = Owns(heap, iterated, p)

(* The queries bound to a compound.                                        *)
LEMMA BoundQueriesAre ==
  ASSUME HeapInv(heap), NEW c, IsCompoundObject(heap, c)
  PROVE  BoundQueries(c) = BoundTo(heap, c)
<1>1. CompoundRefs(heap, c) /\ heap[c].kind = "compound"
  BY DEF HeapInv, Refs, IsCompoundObject
<1>2. Claims(heap, c) = Range(heap[c].attrs)
  BY <1>1 DEF Claims, Range
<1>3. \A b \in Range(heap[c].attrs) : IsAttr(heap, b)
  BY <1>1 DEF CompoundRefs, Range
<1>4. \A b : IsAttr(heap, b) /\ heap[b].sort = "bound" => Claims(heap, b) = {heap[b].data[1]}
  <2> SUFFICES ASSUME NEW b, IsAttr(heap, b), heap[b].sort = "bound"
               PROVE  Claims(heap, b) = {heap[b].data[1]}
    OBVIOUS
  <2>1. heap[b] \in AttrObject /\ AttrRefs(heap, b) /\ heap[b].kind = "attr"
    BY ObjectKinds DEF HeapInv, Refs, IsAttr
  <2>2. heap[b].data \in Seq(Nat) /\ Len(heap[b].data) = 1
    BY <2>1 DEF AttrObject, AttrRefs
  <2>3. DOMAIN heap[b].data = {1}
    BY <2>2
  <2> QED
    BY <2>1, <2>3 DEF Claims
<1> DEFINE B == {b \in Range(heap[c].attrs) : heap[b].sort = "bound"}
<1>5. BoundIn(heap, c) = B /\ \A b \in B : Claims(heap, b) = {heap[b].data[1]}
  BY <1>2, <1>3, <1>4 DEF BoundIn
<1>6. BoundQueries(c) = {heap[b].data[1] : b \in B}
  BY DEF BoundQueries
<1> HIDE DEF B
<1> QED
  BY <1>5, <1>6 DEF BoundTo

(* Products belong to queries.                                             *)
LEMMA ProductInChain ==
  ASSUME NEW hp, HeapInv(hp), NEW p \in DOMAIN hp, NEW a \in Claims(hp, p), IsProduct(hp, a)
  PROVE  hp[p].kind = "query"
<1>1. Refs(hp, p) /\ hp[p].kind \in {"query", "attr", "compound"}
  BY ObjectKinds DEF HeapInv
<1> QED
  BY <1>1 DEF Claims, Refs, AttrRefs, CompoundRefs, IsProduct, IsAttr, IsQuery, Definable

(* What destroys what, as a function of the heap.                          *)
LEMMA OwnedIs == OwnInv => OwnsIs
<1> SUFFICES ASSUME OwnInv, NEW p \in DOMAIN heap
             PROVE  OwnedBy(p) = Owns(heap, iterated, p)
  BY DEF OwnsIs
<1>1. HeapInv(heap) /\ \A a \in iterated : IsProduct(heap, a)
  BY DEF OwnInv, ClientInv
<1>2. Refs(heap, p) /\ heap[p].kind \in {"query", "attr", "compound"}
  BY <1>1, ObjectKinds DEF HeapInv
<1>3. \A a \in iterated : BoundQueries(heap[a].type) = BoundTo(heap, heap[a].type)
  <2> SUFFICES ASSUME NEW a \in iterated
               PROVE  IsCompoundObject(heap, heap[a].type)
    BY <1>1, BoundQueriesAre
  <2>1. IsProduct(heap, a)
    BY <1>1
  <2>2. AttrRefs(heap, a) /\ heap[a].sort = "product"
    BY <1>1, <2>1 DEF HeapInv, Refs, IsProduct, IsAttr
  <2> QED
    BY <2>2 DEF AttrRefs
<1>4. CASE heap[p].kind = "query"
  <2>1. QueryRefs(heap, p) /\ heap[p] \in QueryObject
    BY <1>1, <1>2, <1>4, ObjectKinds DEF Refs, HeapInv
  <2> DEFINE L == heap[p].links
             I == {k \in Range(L) : k.attr \in iterated}
             A == Claims(heap, p) \cap iterated
  <2>2. OwnedAttrs(p) = Claims(heap, p)
    BY <1>4 DEF OwnedAttrs, Claims, Range
  <2>3. {l.attr : l \in I} = A
    <3>1. ASSUME NEW k \in DOMAIN L, L[k].attr \in iterated PROVE L[k].owned
      BY <1>1, <2>1, <3>1 DEF QueryRefs, IsProduct, Definable
    <3>2. \A l \in I : l.attr \in A
      BY <1>4, <3>1 DEF Claims, Range
    <3>3. \A a \in A : \E l \in I : l.attr = a
      BY <1>4 DEF Claims, Range
    <3> QED
      BY <3>2, <3>3
  <2>4. \A l \in I : BoundQueries(heap[l.attr].type) = BoundTo(heap, heap[l.attr].type)
    BY <1>3
  <2>5. UNION {BoundQueries(heap[l.attr].type) : l \in I} = UNION {BoundTo(heap, heap[a].type) : a \in A}
    <3> HIDE DEF I, A
    <3> QED
      BY <2>3, <2>4
  <2>6. OwnedBy(p) = OwnedAttrs(p) \cup UNION {BoundQueries(heap[l.attr].type) : l \in I}
    BY <1>4 DEF OwnedBy
  <2>7. Owns(heap, iterated, p) = Claims(heap, p) \cup UNION {BoundTo(heap, heap[a].type) : a \in A}
    BY <1>4 DEF Owns, IsAttr
  <2> QED
    BY <2>2, <2>5, <2>6, <2>7
<1>5. CASE heap[p].kind # "query"
  <2>1. Claims(heap, p) \cap iterated = {}
    BY <1>1, <1>5, ProductInChain
  <2>2. Owns(heap, iterated, p) = IF IsAttr(heap, p) /\ heap[p].sort = "bound" THEN {} ELSE Claims(heap, p)
    BY <2>1 DEF Owns
  <2>3. CASE heap[p].kind = "attr"
    BY <2>2, <2>3 DEF OwnedBy, Claims, Range, IsAttr
  <2>4. CASE heap[p].kind = "compound"
    BY <2>2, <2>4 DEF OwnedBy, Claims, Range, IsAttr
  <2> QED
    BY <1>2, <1>5, <2>3, <2>4
<1> QED
  BY <1>4, <1>5

(* An attribute of a compound belongs to a compound, any other attribute   *)
(* to a query, a query to an attribute.                                    *)
LEMMA ClaimKinds ==
  ASSUME NEW hp, HeapInv(hp), NEW p \in DOMAIN hp, NEW o \in Claims(hp, p)
  PROVE  /\ o \in DOMAIN hp /\ hp[o].kind \in {"query", "attr"}
         /\ hp[o].kind = "query" => hp[p].kind = "attr"
         /\ hp[o].kind = "attr" /\ hp[o].sort \in Definable => hp[p].kind = "compound"
         /\ hp[o].kind = "attr" /\ hp[o].sort \notin Definable => hp[p].kind = "query"
<1>1. Refs(hp, p) /\ hp[p].kind \in {"query", "attr", "compound"}
  BY ObjectKinds DEF HeapInv
<1>2. CASE hp[p].kind = "query"
  BY <1>1, <1>2 DEF Claims, Refs, QueryRefs, IsAttr
<1>3. CASE hp[p].kind = "attr"
  BY <1>1, <1>3 DEF Claims, Refs, AttrRefs, IsQuery
<1>4. CASE hp[p].kind = "compound"
  BY <1>1, <1>4 DEF Claims, Refs, CompoundRefs, IsAttr
<1> QED
  BY <1>1, <1>2, <1>3, <1>4

(* What an object destroys is an attribute or a query, which it claims or  *)
(* a bound attribute does.                                                 *)
LEMMA OwnsClaims ==
  ASSUME NEW hp, HeapInv(hp), NEW I, \A a \in I : IsProduct(hp, a),
         NEW p \in DOMAIN hp, NEW o \in Owns(hp, I, p)
  PROVE  /\ o \in DOMAIN hp /\ hp[o].kind \in {"query", "attr"}
         /\ \/ o \in Claims(hp, p) /\ ~(IsAttr(hp, p) /\ hp[p].sort = "bound")
            \/ \E a \in Claims(hp, p) \cap I : \E b \in BoundIn(hp, hp[a].type) : o \in Claims(hp, b)
<1>1. CASE o \in Claims(hp, p) /\ ~(IsAttr(hp, p) /\ hp[p].sort = "bound")
  BY <1>1, ClaimKinds
<1>2. CASE \E a \in Claims(hp, p) \cap I : \E b \in BoundIn(hp, hp[a].type) : o \in Claims(hp, b)
  <2>1. PICK b : IsAttr(hp, b) /\ o \in Claims(hp, b)
    BY <1>2 DEF BoundIn
  <2> QED
    BY <1>2, <2>1, ClaimKinds DEF IsAttr
<1> QED
  BY <1>1, <1>2 DEF Owns, BoundTo

(* What is destroyed with the objects of S.                                *)
LEMMA ClosureFacts ==
  ASSUME OwnInv, NEW S, S \subseteq DOMAIN heap
  PROVE  /\ S \subseteq Closure(S) /\ Closure(S) \subseteq DOMAIN heap
         /\ \A o \in Closure(S) : Owns(heap, iterated, o) \subseteq Closure(S)
         /\ \A o \in Closure(S) : o \in S \/ \E d \in Closure(S) : o \in Owns(heap, iterated, d)
         /\ \A C : /\ S \subseteq C /\ C \subseteq DOMAIN heap
                   /\ \A o \in C : Owns(heap, iterated, o) \subseteq C
                   => Closure(S) \subseteq C
<1> DEFINE f == [o \in DOMAIN heap |-> OwnedBy(o)]
           D == Reach(f, S)
<1>1. Closure(S) = D
  BY DEF Closure
<1>2. IsFiniteSet(DOMAIN f) /\ DOMAIN f = DOMAIN heap
  <2>1. DOMAIN heap = 1..Len(heap) /\ Len(heap) \in Nat
    BY DEF OwnInv, HeapInv
  <2> QED
    BY <2>1, FS_Interval
<1>3. \A o \in DOMAIN heap : f[o] = Owns(heap, iterated, o) /\ f[o] \subseteq DOMAIN heap
  BY OwnedIs, OwnedThere DEF OwnsIs
<1> HIDE DEF f
<1>4. D \subseteq DOMAIN heap /\ S \subseteq D
  <2>1. S \subseteq DOMAIN heap /\ \A o \in DOMAIN heap : f[o] \subseteq DOMAIN heap
    BY <1>3
  <2> QED
    BY <1>2, <2>1, ReachWithin
<1>5. \A o \in D : f[o] \subseteq D
  <2>1. S \subseteq DOMAIN f /\ \A o \in DOMAIN f : f[o] \subseteq DOMAIN f
    BY <1>2, <1>3
  <2> QED
    BY <1>2, <2>1, ReachClosed
<1>6. ASSUME NEW C, S \subseteq C, C \subseteq DOMAIN heap,
             \A o \in C : Owns(heap, iterated, o) \subseteq C
      PROVE  D \subseteq C
  <2>1. \A o \in C : f[o] \subseteq C
    BY <1>3, <1>6
  <2> QED
    BY <1>2, <1>6, <2>1, ReachWithin
<1> DEFINE C2 == {o \in D : o \in S \/ \E d \in D : o \in Owns(heap, iterated, d)}
<1> HIDE DEF D
<1>7. S \subseteq C2 /\ C2 \subseteq DOMAIN heap /\ \A o \in C2 : Owns(heap, iterated, o) \subseteq C2
  BY <1>3, <1>4, <1>5
<1> HIDE DEF C2
<1>8. D \subseteq C2
  BY <1>6, <1>7
<1> QED
  BY <1>1, <1>3, <1>4, <1>5, <1>6, <1>8 DEF C2

(* What is destroyed: with an object what it owns, and nothing that an     *)
(* object which is there, other than a compound, owns.  The query of a     *)
(* bound attribute only after an iterator over its compound.               *)
Destroyed(hp, I, F) ==
  /\ F \subseteq DOMAIN hp \ 1..3
  /\ \A o \in F : Owns(hp, I, o) \subseteq F
  /\ \A p \in DOMAIN hp \ F : hp[p].kind # "compound" => Owns(hp, I, p) \cap F = {}
  /\ \A b \in DOMAIN hp : /\ IsAttr(hp, b) /\ hp[b].sort = "bound"
                          /\ Claims(hp, b) \cap F # {}
                          => \E a \in I : b \in Claims(hp, hp[a].type)

(* The root compound and its attributes.                                   *)
GivenThere(hp) ==
  /\ 1..3 \subseteq DOMAIN hp
  /\ hp[1].kind = "compound" /\ Claims(hp, 1) = {2, 3}
  /\ \A o \in {2, 3} : IsAttr(hp, o) /\ hp[o].sort = "member" /\ Claims(hp, o) = {}

(* Nothing but the root compound owns its attributes.                      *)
LEMMA GivenApart ==
  ASSUME NEW hp, HeapInv(hp), NEW I, \A a \in I : IsProduct(hp, a), GivenThere(hp),
         NEW p \in DOMAIN hp \ 1..3
  PROVE  Owns(hp, I, p) \subseteq DOMAIN hp \ 1..3
<1> SUFFICES ASSUME NEW o \in Owns(hp, I, p), o \in 1..3
             PROVE  FALSE
  BY OwnsClaims
<1>1. hp[o].kind \in {"query", "attr"}
  BY OwnsClaims
<1>2. o \in Claims(hp, 1) /\ hp[1].kind = "compound" /\ 1 \in DOMAIN hp
  BY <1>1 DEF GivenThere
<1>3. \A q \in DOMAIN hp : o \in Claims(hp, q) => q = 1
  BY <1>2 DEF HeapInv
<1>4. PICK q \in DOMAIN hp : o \in Claims(hp, q) /\ (q = p \/ IsAttr(hp, q))
  BY OwnsClaims DEF BoundIn, IsAttr
<1> QED
  BY <1>2, <1>3, <1>4 DEF IsAttr

(* The destruction of objects that only a compound owns, or nobody.        *)
LEMMA DestroyedMore ==
  ASSUME OwnInv, GivenThere(heap), Destroyed(heap, iterated, freed),
         NEW S, S \subseteq DOMAIN heap \ 1..3,
         \A o \in S, p \in DOMAIN heap : o \in Claims(heap, p) => heap[p].kind = "compound"
  PROVE  Destroyed(heap, iterated, freed \cup Closure(S))
<1> DEFINE D == Closure(S)
<1>1. /\ S \subseteq D /\ D \subseteq DOMAIN heap
      /\ \A o \in D : Owns(heap, iterated, o) \subseteq D
      /\ \A o \in D : o \in S \/ \E d \in D : o \in Owns(heap, iterated, d)
  BY ClosureFacts
<1>2. D \subseteq DOMAIN heap \ 1..3
  <2> DEFINE C == DOMAIN heap \ 1..3
  <2>1. \A o \in C : Owns(heap, iterated, o) \subseteq C
    BY GivenApart DEF OwnInv, ClientInv
  <2>2. S \subseteq DOMAIN heap /\ S \subseteq C /\ C \subseteq DOMAIN heap
    OBVIOUS
  <2> HIDE DEF C, D
  <2>3. Closure(S) \subseteq C
    BY <2>1, <2>2, ClosureFacts
  <2> QED
    BY <2>3 DEF C, D
<1> HIDE DEF D
<1>3. HeapInv(heap) /\ \A a \in iterated : IsProduct(heap, a)
  BY DEF OwnInv, ClientInv
<1>4. \A p, r \in DOMAIN heap : \A o : o \in Claims(heap, p) /\ o \in Claims(heap, r) => p = r
  BY <1>3 DEF HeapInv
<1>5. ASSUME NEW p \in DOMAIN heap, NEW o \in Owns(heap, iterated, p), o \in D, heap[p].kind # "compound"
      PROVE  p \in D
  <2>1. CASE o \in S
    <3>1. PICK q \in DOMAIN heap : o \in Claims(heap, q) /\ (q = p \/ IsAttr(heap, q))
      BY <1>3, <1>5, OwnsClaims DEF BoundIn, IsAttr
    <3> QED
      BY <1>5, <2>1, <3>1 DEF IsAttr
  <2>2. CASE \E d \in D : o \in Owns(heap, iterated, d)
    <3>1. PICK d \in D : o \in Owns(heap, iterated, d)
      BY <2>2
    <3>2. d \in DOMAIN heap /\ o \in OwnedBy(d) /\ o \in OwnedBy(p)
      BY <1>1, <1>5, <3>1, OwnedIs DEF OwnsIs
    <3> QED
      BY <3>2, <3>1, OwnedOnce
  <2> QED
    BY <1>1, <1>5, <2>1, <2>2
<1>6. ASSUME NEW b \in DOMAIN heap, IsAttr(heap, b), heap[b].sort = "bound",
             NEW o \in Claims(heap, b), o \in D
      PROVE  \E a \in iterated : b \in Claims(heap, heap[a].type)
  <2>1. heap[b].kind = "attr"
    BY <1>6 DEF IsAttr
  <2>2. PICK d \in D : o \in Owns(heap, iterated, d)
    BY <1>1, <1>6, <2>1
  <2>3. d \in DOMAIN heap
    BY <1>1
  <2>4. ~(o \in Claims(heap, d) /\ ~(IsAttr(heap, d) /\ heap[d].sort = "bound"))
    BY <1>4, <1>6, <2>3
  <2>5. PICK a \in Claims(heap, d) \cap iterated : \E c \in BoundIn(heap, heap[a].type) : o \in Claims(heap, c)
    BY <1>3, <2>2, <2>3, <2>4, OwnsClaims
  <2>6. PICK c \in BoundIn(heap, heap[a].type) : o \in Claims(heap, c)
    BY <2>5
  <2>7. c = b /\ b \in Claims(heap, heap[a].type)
    BY <1>4, <1>6, <2>6 DEF BoundIn, IsAttr
  <2> QED
    BY <2>7
<1>7. \A o \in freed \cup D : Owns(heap, iterated, o) \subseteq freed \cup D
  BY <1>1 DEF Destroyed
<1>8. \A p \in DOMAIN heap \ (freed \cup D) : heap[p].kind # "compound" =>
        Owns(heap, iterated, p) \cap (freed \cup D) = {}
  BY <1>5 DEF Destroyed
<1>9. \A b \in DOMAIN heap : /\ IsAttr(heap, b) /\ heap[b].sort = "bound"
                            /\ Claims(heap, b) \cap (freed \cup D) # {}
                            => \E a \in iterated : b \in Claims(heap, heap[a].type)
  BY <1>6 DEF Destroyed
<1>10. freed \cup D \subseteq DOMAIN heap \ 1..3
  BY <1>2 DEF Destroyed
<1> QED
  BY <1>7, <1>8, <1>9, <1>10 DEF Destroyed, D

(* The claims go upwards: no object claims itself through others, nor is   *)
(* it bound to a compound over which one iterates that it leads to.        *)
Ranking(hp, r) ==
  \A p \in DOMAIN hp : /\ \A o \in Claims(hp, p) : r[o] < r[p]
                       /\ IsProduct(hp, p) => \A o \in BoundTo(hp, hp[p].type) : r[o] < r[p]

Ranked(hp) == \E m \in Nat : \E r \in [DOMAIN hp -> 0..m] : Ranking(hp, r)

(* Objects that claim more than before are claimed by nobody, a compound   *)
(* that does has nobody who iterates over it yet, and a new query is free. *)
Rising(hp, hq) ==
  /\ \A o \in DOMAIN hp : Claims(hq, o) # Claims(hp, o) =>
       Unclaimed(hq, o) /\ (hp[o].kind = "compound" => Unbuilt(hq, o))
  /\ \A o \in DOMAIN hq \ DOMAIN hp : hq[o].kind = "query" => Unclaimed(hq, o)

(* They become the highest, new attributes the next to them.               *)
LEMMA RankGrows ==
  ASSUME NEW hp, HeapInv(hp), NEW hq, HeapInv(hq), Kept(hp, hq), Ranked(hp), Rising(hp, hq)
  PROVE  Ranked(hq)
<1>0. PICK m \in Nat : \E t \in [DOMAIN hp -> 0..m] : Ranking(hp, t)
  BY DEF Ranked
<1>1. PICK r \in [DOMAIN hp -> 0..m] : Ranking(hp, r)
  BY <1>0
<1> DEFINE X == {o \in DOMAIN hp : Claims(hq, o) # Claims(hp, o)}
           s == [o \in DOMAIN hq |-> IF o \in DOMAIN hp \ X THEN r[o]
                                     ELSE IF hq[o].kind = "attr" THEN m + 1 ELSE m + 2]
<1>2. \A o \in DOMAIN hp : o \in DOMAIN hq /\ hq[o].kind = hp[o].kind
  BY DEF Kept
<1>3. \A o \in DOMAIN hp : hp[o].kind = "attr" => hq[o] = hp[o] /\ o \notin X
  BY ClaimsKept DEF Kept
<1>4. ASSUME NEW p \in DOMAIN hq, NEW o \in Claims(hq, p)
      PROVE  /\ o \in DOMAIN hq /\ o \notin X
             /\ o \in DOMAIN hp => s[o] = r[o] /\ r[o] \in 0..m
             /\ hq[o].kind = "query" => o \in DOMAIN hp
             /\ o \notin DOMAIN hp => s[o] = m + 1
  <2>1. o \in DOMAIN hq /\ hq[o].kind \in {"query", "attr"}
    BY <1>4, ClaimKinds
  <2>2. ~Unclaimed(hq, o)
    BY <1>4 DEF Unclaimed
  <2>3. o \notin X
    BY <2>2 DEF Rising
  <2>4. hq[o].kind = "query" => o \in DOMAIN hp
    BY <2>1, <2>2 DEF Rising
  <2> QED
    BY <1>1, <2>1, <2>3, <2>4
<1>5. s \in [DOMAIN hq -> 0..(m + 2)]
  <2> SUFFICES ASSUME NEW o \in DOMAIN hq
               PROVE  s[o] \in 0..(m + 2)
    OBVIOUS
  <2> QED
    BY <1>1
<1>6. ASSUME NEW p \in DOMAIN hq, NEW o \in Claims(hq, p)
      PROVE  s[o] < s[p]
  <2>1. CASE p \in DOMAIN hp \ X
    <3>1. o \in Claims(hp, p) /\ r[o] < r[p] /\ s[p] = r[p]
      BY <1>1, <1>6, <2>1 DEF Ranking
    <3>2. o \in DOMAIN hp
      BY <2>1, <3>1, ClaimsThere
    <3> QED
      BY <1>4, <1>6, <3>1, <3>2
  <2>2. CASE p \notin DOMAIN hp \ X /\ hq[p].kind # "attr"
    <3>1. s[p] = m + 2
      BY <2>2
    <3> HIDE DEF s, X
    <3>2. o \in DOMAIN hp => s[o] \in 0..m
      BY <1>4, <1>6
    <3>3. o \notin DOMAIN hp => s[o] = m + 1
      BY <1>4, <1>6
    <3> QED
      BY <1>1, <3>1, <3>2, <3>3
  <2>3. CASE p \notin DOMAIN hp \ X /\ hq[p].kind = "attr"
    <3>1. s[p] = m + 1
      BY <2>3
    <3>2. hq[o].kind = "query"
      <4>1. AttrRefs(hq, p)
        BY <2>3 DEF HeapInv, Refs
      <4> QED
        BY <1>6, <2>3, <4>1 DEF Claims, AttrRefs, IsQuery
    <3> HIDE DEF s, X
    <3>3. o \in DOMAIN hp /\ s[o] \in 0..m
      BY <1>4, <1>6, <3>2
    <3> QED
      BY <1>1, <3>1, <3>3
  <2> QED
    BY <2>1, <2>2, <2>3
<1>7. ASSUME NEW p \in DOMAIN hq, IsProduct(hq, p), NEW o \in BoundTo(hq, hq[p].type)
      PROVE  s[o] < s[p]
  <2> DEFINE c == hq[p].type
  <2>1. PICK b \in BoundIn(hq, c) : o \in Claims(hq, b)
    BY <1>7 DEF BoundTo
  <2>2. b \in DOMAIN hq /\ hq[b].kind = "attr" /\ hq[b].sort = "bound" /\ b \in Claims(hq, c)
    BY <2>1 DEF BoundIn, IsAttr
  <2>3. hq[o].kind = "query"
    <3>1. AttrRefs(hq, b)
      BY <2>2 DEF HeapInv, Refs
    <3> QED
      BY <2>1, <2>2, <3>1 DEF Claims, AttrRefs, IsQuery
  <2>4. o \in DOMAIN hp /\ s[o] = r[o] /\ s[o] \in 0..m
    BY <1>4, <2>1, <2>2, <2>3
  <2>5. CASE p \notin DOMAIN hp
    <3>1. s[p] = m + 1
      BY <1>7, <2>5 DEF IsProduct, IsAttr
    <3> HIDE DEF s, X
    <3> QED
      BY <1>1, <2>4, <3>1
  <2>6. CASE p \in DOMAIN hp
    <3>1. hp[p] = hq[p] /\ p \notin X /\ IsProduct(hp, p)
      BY <1>2, <1>3, <1>7, <2>6 DEF IsProduct, IsAttr
    <3>2. c \in DOMAIN hp /\ hp[c].kind = "compound" /\ c \notin X
      <4>1. AttrRefs(hp, p) /\ hp[p].sort = "product"
        BY <2>6, <3>1 DEF HeapInv, Refs, IsProduct, IsAttr
      <4>2. c \in DOMAIN hp /\ hp[c].kind = "compound"
        BY <3>1, <4>1 DEF AttrRefs, IsCompoundObject
      <4>3. ~Unbuilt(hq, c)
        BY <1>7 DEF Unbuilt
      <4> QED
        BY <4>2, <4>3 DEF Rising
    <3>3. b \in Claims(hp, c) /\ b \in DOMAIN hp
      <4>1. b \in Claims(hp, c)
        BY <2>2, <3>2
      <4> QED
        BY <3>2, <4>1, ClaimsThere
    <3>4. hp[b] = hq[b] /\ Claims(hq, b) = Claims(hp, b)
      BY <1>2, <1>3, <2>2, <3>3
    <3>5. o \in BoundTo(hp, hp[p].type)
      BY <2>1, <2>2, <3>1, <3>3, <3>4 DEF BoundTo, BoundIn, IsAttr
    <3>6. r[o] < r[p] /\ s[p] = r[p]
      BY <1>1, <2>6, <3>1, <3>5 DEF Ranking
    <3> QED
      BY <2>4, <3>6
  <2> QED
    BY <2>5, <2>6
<1> HIDE DEF s
<1>8. Ranking(hq, s)
  BY <1>6, <1>7 DEF Ranking
<1>9. m + 2 \in Nat
  BY <1>1
<1> QED
  BY <1>5, <1>8, <1>9 DEF Ranked

(* The compounds that semantic values build.                               *)
Building == UNION {Builds(sem[i]) : i \in DOMAIN sem}

(* Every object has who destroys it: an attribute and a query another      *)
(* object, or a query is held by the parser or the client; a compound is   *)
(* in the list of the context.  A compound with bound attributes has an    *)
(* attribute that iterates over it, or is under construction.              *)
Rooted ==
  /\ \A o \in DOMAIN heap \ 1..3 :
       /\ heap[o].kind = "attr" => ~Unclaimed(heap, o)
       /\ heap[o].kind = "query" => ~Unclaimed(heap, o) \/ o \in Held \cup freed \cup {result}
       /\ heap[o].kind = "compound" => o \in Range(listed) \cup freed
  /\ \A c \in DOMAIN heap :
       heap[c].kind = "compound" /\ BoundIn(heap, c) # {} => ~Unbuilt(heap, c) \/ c \in Building
  /\ 1 \notin Range(listed) /\ Building \subseteq Range(listed)
  /\ result # 0 => context = "live" /\ result \notin freed
  /\ context = "gone" => listed = <<>>

LeaveInv ==
  rc \in {"parsing", "ok"} =>
    Rooted /\ GivenThere(heap) /\ Ranked(heap) /\ Destroyed(heap, iterated, freed)

(* The queries that no iterator destroys.                                  *)
LEMMA NeverIteratedIs ==
  ASSUME OwnInv
  PROVE  /\ NeverIterated = UNION {BoundTo(heap, heap[a].type) :
                                     a \in {b \in DOMAIN heap : IsProduct(heap, b) /\ b \notin iterated}}
         /\ NeverIterated \subseteq DOMAIN heap
<1> DEFINE A == {b \in DOMAIN heap : IsProduct(heap, b) /\ b \notin iterated}
<1>1. HeapInv(heap)
  BY DEF OwnInv
<1>2. ASSUME NEW a \in A PROVE BoundQueries(heap[a].type) = BoundTo(heap, heap[a].type)
  <2>1. AttrRefs(heap, a) /\ heap[a].sort = "product"
    BY <1>1 DEF HeapInv, Refs, IsProduct, IsAttr
  <2>2. IsCompoundObject(heap, heap[a].type)
    BY <2>1 DEF AttrRefs
  <2> QED
    BY <1>1, <2>2, BoundQueriesAre
<1>3. A = {q \in DOMAIN heap : /\ heap[q].kind = "attr" /\ heap[q].sort = "product"
                              /\ q \notin iterated}
  BY DEF IsProduct, IsAttr
<1>4. NeverIterated = UNION {BoundQueries(heap[a].type) : a \in A}
  BY <1>3 DEF NeverIterated
<1>5. \A a \in A : BoundTo(heap, heap[a].type) \subseteq DOMAIN heap
  BY <1>1, ClaimKinds DEF BoundTo, BoundIn, IsAttr
<1> HIDE DEF A
<1>6. NeverIterated = UNION {BoundTo(heap, heap[a].type) : a \in A}
  BY <1>2, <1>4
<1> QED
  BY <1>5, <1>6 DEF A

(* Once the context is gone what is left is what they lead to, ...         *)
LEMMA LeftIsThere ==
  ASSUME OwnInv, Destroyed(heap, iterated, freed)
  PROVE  Closure(NeverIterated) \cap freed = {}
<1> DEFINE C == {o \in DOMAIN heap : o \notin freed /\ heap[o].kind # "compound"}
<1>1. HeapInv(heap) /\ \A a \in iterated : IsProduct(heap, a)
  BY DEF OwnInv, ClientInv
<1>2. ASSUME NEW o \in C PROVE Owns(heap, iterated, o) \subseteq C
  <2>1. Owns(heap, iterated, o) \cap freed = {}
    BY DEF Destroyed
  <2>2. \A e \in Owns(heap, iterated, o) : e \in DOMAIN heap /\ heap[e].kind # "compound"
    BY <1>1, OwnsClaims
  <2> QED
    BY <2>1, <2>2
<1>3. ASSUME NEW a \in DOMAIN heap, IsProduct(heap, a), a \notin iterated,
             NEW o \in BoundTo(heap, heap[a].type)
      PROVE  o \in C
  <2>1. PICK b \in BoundIn(heap, heap[a].type) : o \in Claims(heap, b)
    BY <1>3 DEF BoundTo
  <2>2. b \in DOMAIN heap /\ IsAttr(heap, b) /\ heap[b].sort = "bound" /\ b \in Claims(heap, heap[a].type)
    BY <2>1 DEF BoundIn, IsAttr
  <2>3. o \in DOMAIN heap /\ heap[o].kind # "compound"
    BY <1>1, <2>1, <2>2, ClaimKinds
  <2>4. ASSUME o \in freed PROVE FALSE
    <3>1. PICK d \in iterated : b \in Claims(heap, heap[d].type)
      BY <2>1, <2>2, <2>4 DEF Destroyed
    <3>2. IsProduct(heap, d) /\ d \in DOMAIN heap
      BY <1>1 DEF IsProduct, IsAttr
    <3>3. heap[a].type \in DOMAIN heap /\ heap[d].type \in DOMAIN heap
      BY <1>1, <1>3, <3>2 DEF HeapInv, Refs, AttrRefs, IsProduct, IsAttr, IsCompoundObject
    <3>4. heap[a].type = heap[d].type
      BY <1>1, <2>2, <3>1, <3>3 DEF HeapInv
    <3>5. a = d
      BY <1>1, <1>3, <3>2, <3>4 DEF HeapInv
    <3> QED
      BY <1>3, <3>5
  <2> QED
    BY <2>3, <2>4
<1>4. NeverIterated \subseteq C /\ NeverIterated \subseteq DOMAIN heap
  BY <1>3, NeverIteratedIs
<1>5. C \subseteq DOMAIN heap /\ C \cap freed = {}
  OBVIOUS
<1> HIDE DEF C
<1>6. Closure(NeverIterated) \subseteq C
  BY <1>2, <1>4, <1>5, ClosureFacts
<1> QED
  BY <1>5, <1>6

(* ... and nothing else: of the rest, what is highest would have an owner. *)
LEMMA ThereIsLeft ==
  ASSUME OwnInv, LeaveInv, rc = "ok", context = "gone"
  PROVE  Live \subseteq 1..3 \cup Closure(NeverIterated)
<1> DEFINE K == Closure(NeverIterated)
           Bad == DOMAIN heap \ (freed \cup 1..3 \cup K)
<1>1. /\ HeapInv(heap) /\ \A a \in iterated : IsProduct(heap, a)
      /\ Rooted /\ GivenThere(heap) /\ Ranked(heap) /\ Destroyed(heap, iterated, freed)
  BY DEF OwnInv, ClientInv, LeaveInv
<1>2. /\ NeverIterated \subseteq K /\ K \subseteq DOMAIN heap
      /\ \A o \in K : Owns(heap, iterated, o) \subseteq K
  BY ClosureFacts, NeverIteratedIs
<1> HIDE DEF K
<1>3. Held = {} /\ Building = {} /\ result = 0 /\ listed = <<>>
  <2>1. sem = <<>>
    BY DEF OwnInv, ClientInv
  <2> QED
    BY <1>1, <2>1 DEF Held, Building, Rooted
<1>4. \A o \in Bad : heap[o].kind \in {"query", "attr"} /\ ~Unclaimed(heap, o)
  <2> SUFFICES ASSUME NEW o \in Bad
               PROVE  heap[o].kind \in {"query", "attr"} /\ ~Unclaimed(heap, o)
    OBVIOUS
  <2>1. heap[o].kind \in {"query", "attr", "compound"} /\ o # 0
    BY <1>1, ObjectKinds DEF HeapInv
  <2>2. Range(listed) = {}
    BY <1>3 DEF Range
  <2> QED
    BY <1>1, <1>3, <2>1, <2>2 DEF Rooted
<1>5. ASSUME NEW p \in DOMAIN heap, NEW o \in Bad, o \in Owns(heap, iterated, p)
      PROVE  p \in Bad
  <2>1. p \notin freed
    BY <1>1, <1>5 DEF Destroyed
  <2>2. p \notin K
    BY <1>2, <1>5
  <2>3. p \notin 1..3
    <3>1. Claims(heap, p) \cap iterated = {} \/ p \notin 1..3
      BY <1>1 DEF GivenThere, IsProduct
    <3>2. p \in 1..3 => o \in Claims(heap, p)
      BY <1>5, <3>1 DEF Owns, BoundTo
    <3> QED
      BY <1>1, <1>5, <3>2 DEF GivenThere
  <2> QED
    BY <2>1, <2>2, <2>3
  (* A greatest element of Bad. *)
<1>6. PICK m \in Nat : \E t \in [DOMAIN heap -> 0..m] : Ranking(heap, t)
  BY <1>1 DEF Ranked
<1>7. PICK r \in [DOMAIN heap -> 0..m] : Ranking(heap, r)
  BY <1>6
<1>8. ASSUME Bad # {} PROVE \E o \in Bad : \A p \in Bad : r[p] <= r[o]
  <2> DEFINE T == {m - r[o] : o \in Bad}
  <2>1. T \subseteq Nat /\ T # {}
    BY <1>7, <1>8
  <2>2. PICK k \in T : \A j \in T : k <= j
    BY <2>1, LeastElement
  <2>3. PICK o \in Bad : k = m - r[o]
    OBVIOUS
  <2>4. \A p \in Bad : m - r[o] <= m - r[p] /\ r[o] \in 0..m /\ r[p] \in 0..m
    BY <1>7, <2>2, <2>3
  <2>5. \A p \in Bad : r[p] <= r[o]
    BY <1>6, <2>4
  <2> QED
    BY <2>3, <2>5
<1>9. ASSUME NEW o \in Bad, \A p \in Bad : r[p] <= r[o] PROVE FALSE
  <2>1. PICK p \in DOMAIN heap : o \in Claims(heap, p)
    BY <1>4, <1>9 DEF Unclaimed
  <2>2. CASE ~(IsAttr(heap, p) /\ heap[p].sort = "bound")
    <3>1. p \in Bad
      BY <1>5, <1>9, <2>1, <2>2 DEF Owns
    <3>2. r[o] < r[p] /\ r[o] \in 0..m /\ r[p] \in 0..m
      BY <1>7, <1>9, <2>1, <3>1 DEF Ranking
    <3> QED
      BY <1>6, <1>9, <3>1, <3>2
  <2>3. CASE IsAttr(heap, p) /\ heap[p].sort = "bound"
    <3>1. heap[p].kind = "attr" /\ p \notin 1..3
      BY <1>1, <2>1, <2>3 DEF GivenThere, IsAttr
    <3>2. ~Unclaimed(heap, p)
      BY <1>1, <3>1 DEF Rooted
    <3>3. PICK c \in DOMAIN heap : p \in Claims(heap, c)
      BY <3>2 DEF Unclaimed
    <3>4. heap[c].kind = "compound"
      BY <1>1, <2>3, <3>1, <3>3, ClaimKinds DEF Definable
    <3>5. p \in BoundIn(heap, c)
      BY <2>3, <3>3 DEF BoundIn
    <3>6. ~Unbuilt(heap, c)
      BY <1>1, <1>3, <3>4, <3>5 DEF Rooted
    <3>7. PICK a \in DOMAIN heap : IsProduct(heap, a) /\ heap[a].type = c
      BY <3>6 DEF Unbuilt
    <3>8. o \in BoundTo(heap, heap[a].type)
      BY <2>1, <3>5, <3>7 DEF BoundTo
    <3>9. CASE a \notin iterated
      <4>1. o \in NeverIterated
        BY <3>7, <3>8, <3>9, NeverIteratedIs
      <4> QED
        BY <1>2, <1>9, <4>1
    <3>10. CASE a \in iterated
      <4>1. heap[a].kind = "attr" /\ a \notin 1..3
        BY <1>1, <3>7 DEF GivenThere, IsProduct, IsAttr
      <4>2. PICK q \in DOMAIN heap : a \in Claims(heap, q)
        BY <1>1, <4>1 DEF Rooted, Unclaimed
      <4>3. q \in Bad
        BY <1>5, <1>9, <3>8, <3>10, <4>2 DEF Owns
      <4>4. r[o] < r[a] /\ r[a] < r[q]
        BY <1>7, <3>7, <3>8, <4>2 DEF Ranking
      <4>5. r[o] \in 0..m /\ r[a] \in 0..m /\ r[q] \in 0..m
        BY <1>7, <1>9, <3>7, <4>2
      <4>6. r[q] <= r[o]
        BY <1>9, <4>3
      <4> QED
        BY <1>6, <4>4, <4>5, <4>6
    <3> QED
      BY <3>9, <3>10
  <2> QED
    BY <2>2, <2>3
<1>10. Bad = {}
  BY <1>8, <1>9
<1> QED
  BY <1>10 DEF Live, K

LEMMA LeaveInvLeavesNothing == OwnInv /\ LeaveInv => LeavesNothing
<1> SUFFICES ASSUME OwnInv, LeaveInv, rc = "ok", context = "gone"
             PROVE  Live = 1..3 \cup Closure(NeverIterated)
  BY DEF LeavesNothing
<1>1. GivenThere(heap) /\ Destroyed(heap, iterated, freed)
  BY DEF LeaveInv
<1>2. Live \subseteq 1..3 \cup Closure(NeverIterated)
  BY ThereIsLeft
<1>3. 1..3 \subseteq Live
  BY <1>1 DEF GivenThere, Destroyed, Live
<1>4. Closure(NeverIterated) \subseteq Live
  <2>1. Closure(NeverIterated) \subseteq DOMAIN heap
    BY ClosureFacts, NeverIteratedIs
  <2>2. Closure(NeverIterated) \cap freed = {}
    BY <1>1, LeftIsThere
  <2> QED
    BY <2>1, <2>2 DEF Live
<1> QED
  BY <1>2, <1>3, <1>4
-----------------------------------------------------------------------------
(***************************************************************************)
(* The parser's steps: what grows of the heap is held by the parser.       *)
(***************************************************************************)

(* All but X of hp claims what it claimed; what is new in hq is claimed,   *)
(* or a query of Q or a compound of C.                                     *)
Grew(hp, hq, X, Q, C) ==
  /\ \A o \in DOMAIN hp \ X : Claims(hq, o) = Claims(hp, o)
  /\ \A o \in DOMAIN hq \ DOMAIN hp : /\ hq[o].kind = "attr" => ~Unclaimed(hq, o)
                                      /\ hq[o].kind = "query" => o \in Q
                                      /\ hq[o].kind = "compound" => o \in C

(* What no semantic value holds any more was taken over or destroyed, and  *)
(* a bound compound that none builds any more is iterated over.            *)
Settles ==
  /\ Grew(heap, heap', Held' \cup Building', Held', Range(listed'))
  /\ \A o \in Held \ Held' : ~Unclaimed(heap', o) \/ o \in freed'
  /\ \A c \in (Building \cup (DOMAIN heap' \ DOMAIN heap)) \ Building' :
       BoundIn(heap', c) = {} \/ ~Unbuilt(heap', c) \/ heap'[c].kind # "compound"
  /\ Range(listed) \subseteq Range(listed') /\ Range(listed') \subseteq Range(listed) \cup {Self}
  /\ Building' \subseteq Range(listed')
  /\ freed \subseteq freed' /\ \A o \in freed' : o \in DOMAIN heap /\ Claims(heap, o) \subseteq freed'

(* What semantic values hold and build.                                    *)
LEMMA HeldBuilding ==
  OwnInv => /\ \A q \in Held : IsQuery(heap, q) /\ Unclaimed(heap, q)
            /\ \A c \in Building : IsCompoundObject(heap, c) /\ Unbuilt(heap, c)
BY DEF OwnInv, SemInv, ItemRefs, Held, Building

(* Such a step preserves the invariant.                                    *)
LEMMA LeaveParsed ==
  ASSUME OwnInv, OwnStep, LiveInv, LiveInv', LeaveInv, rc = "parsing", rc' = "parsing",
         UNCHANGED client, Settles
  PROVE  LeaveInv'
<1> DEFINE hp == heap
           hq == heap'
           H == Held'
           B == Building'
           L == Range(listed')
           F == freed'
<1>1. HeapInv(hp) /\ HeapInv(hq) /\ Kept(hp, hq)
  BY DEF OwnInv, OwnStep
<1>2. /\ \A q \in H : IsQuery(hq, q) /\ Unclaimed(hq, q)
      /\ \A c \in B : IsCompoundObject(hq, c) /\ Unbuilt(hq, c)
  <2>1. OwnInv'
    BY DEF OwnStep
  <2>2. (OwnInv => /\ \A q \in Held : IsQuery(heap, q) /\ Unclaimed(heap, q)
                   /\ \A c \in Building : IsCompoundObject(heap, c) /\ Unbuilt(heap, c))'
    BY HeldBuilding, PTL
  <2> QED
    BY <2>1, <2>2
<1>3. /\ Gone(hq, F, TRUE) /\ H \cap F = {} /\ iterated = {} /\ iterated' = {}
      /\ context' = "live" /\ result = 0 /\ result' = 0
  <2>1. Gone(hq, F, TRUE) /\ H \cap F = {} /\ iterated' = {} /\ context' = "live" /\ iterated = {}
    BY DEF LiveInv
  <2>2. result = 0 /\ result' = result
    BY DEF OwnInv, ClientInv, client
  <2> QED
    BY <2>1, <2>2
<1>4. Rooted /\ GivenThere(hp) /\ Ranked(hp) /\ Destroyed(hp, {}, freed)
  BY <1>3 DEF LeaveInv
<1>5. /\ Grew(hp, hq, H \cup B, H, L)
      /\ \A o \in Held \ H : ~Unclaimed(hq, o) \/ o \in F
      /\ \A c \in (Building \cup (DOMAIN hq \ DOMAIN hp)) \ B :
           BoundIn(hq, c) = {} \/ ~Unbuilt(hq, c) \/ hq[c].kind # "compound"
      /\ Range(listed) \subseteq L /\ L \subseteq Range(listed) \cup {Self}
      /\ B \subseteq L
      /\ freed \subseteq F /\ \A o \in F : o \in DOMAIN hp /\ Claims(hp, o) \subseteq F
  BY DEF Settles
<1>6. Self \notin DOMAIN hp
  BY <1>1 DEF HeapInv, Self
<1>7. /\ \A o \in DOMAIN hp \ 1..3 :
           /\ hp[o].kind = "attr" => ~Unclaimed(hp, o)
           /\ hp[o].kind = "query" => ~Unclaimed(hp, o) \/ o \in Held \cup freed
           /\ hp[o].kind = "compound" => o \in Range(listed) \cup freed
      /\ \A c \in DOMAIN hp :
           hp[c].kind = "compound" /\ BoundIn(hp, c) # {} => ~Unbuilt(hp, c) \/ c \in Building
      /\ 1 \notin Range(listed)
  <2>1. \A o \in DOMAIN hp : o # 0
    BY <1>1 DEF HeapInv
  <2> QED
    BY <1>3, <1>4, <2>1 DEF Rooted
<1>8. (Rooted /\ GivenThere(heap) /\ Ranked(heap) /\ Destroyed(heap, iterated, freed))'
        <=> /\ \A o \in DOMAIN hq \ 1..3 :
                 /\ hq[o].kind = "attr" => ~Unclaimed(hq, o)
                 /\ hq[o].kind = "query" => ~Unclaimed(hq, o) \/ o \in H \cup F \cup {result'}
                 /\ hq[o].kind = "compound" => o \in L \cup F
            /\ \A c \in DOMAIN hq :
                 hq[c].kind = "compound" /\ BoundIn(hq, c) # {} => ~Unbuilt(hq, c) \/ c \in B
            /\ 1 \notin L /\ B \subseteq L
            /\ result' # 0 => context' = "live" /\ result' \notin F
            /\ context' = "gone" => listed' = <<>>
            /\ GivenThere(hq) /\ Ranked(hq) /\ Destroyed(hq, iterated', F)
  BY DEF Rooted
<1>9. (Rooted /\ GivenThere(heap) /\ Ranked(heap) /\ Destroyed(heap, iterated, freed))' => LeaveInv'
  BY DEF LeaveInv
<1> HIDE DEF hp, hq, H, B, L, F
<1>10. \A o \in DOMAIN hp : o \in DOMAIN hq /\ hq[o].kind = hp[o].kind
  BY <1>1 DEF Kept
<1>11. \A o \in DOMAIN hp : ~Unclaimed(hp, o) => ~Unclaimed(hq, o)
  BY <1>1 DEF Kept, Unclaimed
<1>12. \A c \in DOMAIN hp : ~Unbuilt(hp, c) => ~Unbuilt(hq, c)
  BY <1>1 DEF Kept, Unbuilt, IsProduct, IsAttr
<1>13. 1 \in DOMAIN hp /\ 1 \notin L /\ 1 \notin B /\ 1 \notin H
  <2>1. 1 \in DOMAIN hp /\ hp[1].kind = "compound"
    BY <1>4 DEF GivenThere
  <2> QED
    BY <1>2, <1>5, <1>6, <1>7, <1>10, <2>1 DEF IsQuery
<1>14. GivenThere(hq)
  <2>1. Claims(hq, 1) = Claims(hp, 1)
    BY <1>5, <1>13 DEF Grew
  <2>2. \A o \in {2, 3} : hq[o] = hp[o] /\ o \in DOMAIN hq
    BY <1>1, <1>4 DEF GivenThere, Kept, IsAttr
  <2>3. \A o \in {2, 3} : IsAttr(hq, o) /\ hq[o].sort = "member" /\ Claims(hq, o) = {}
    BY <1>4, <2>2, ClaimsKept DEF GivenThere, IsAttr
  <2>4. 1..3 = {1, 2, 3}
    OBVIOUS
  <2> QED
    BY <1>4, <1>10, <1>13, <2>1, <2>2, <2>3, <2>4 DEF GivenThere
<1>15. Ranked(hq)
  <2>1. ASSUME NEW o \in DOMAIN hp, Claims(hq, o) # Claims(hp, o)
        PROVE  Unclaimed(hq, o) /\ (hp[o].kind = "compound" => Unbuilt(hq, o))
    <3>1. o \in H \/ o \in B
      BY <1>5, <2>1 DEF Grew
    <3>2. CASE o \in H
      BY <1>2, <1>10, <3>2 DEF IsQuery
    <3>3. CASE o \in B
      <4>1. hq[o].kind = "compound" /\ Unbuilt(hq, o)
        BY <1>2, <3>3 DEF IsCompoundObject
      <4>2. Unclaimed(hq, o)
        BY <1>1, <4>1, ClaimKinds DEF Unclaimed
      <4> QED
        BY <4>1, <4>2
    <3> QED
      BY <3>1, <3>2, <3>3
  <2>2. \A o \in DOMAIN hq \ DOMAIN hp : hq[o].kind = "query" => Unclaimed(hq, o)
    BY <1>2, <1>5 DEF Grew
  <2>3. Rising(hp, hq)
    BY <2>1, <2>2 DEF Rising
  <2> QED
    BY <1>1, <1>4, <2>3, RankGrows
<1>16. \A o \in DOMAIN hq \ 1..3 :
         /\ hq[o].kind = "attr" => ~Unclaimed(hq, o)
         /\ hq[o].kind = "query" => ~Unclaimed(hq, o) \/ o \in H \cup F
         /\ hq[o].kind = "compound" => o \in L \cup F
  <2> SUFFICES ASSUME NEW o \in DOMAIN hq \ 1..3
               PROVE  /\ hq[o].kind = "attr" => ~Unclaimed(hq, o)
                      /\ hq[o].kind = "query" => ~Unclaimed(hq, o) \/ o \in H \cup F
                      /\ hq[o].kind = "compound" => o \in L \cup F
    OBVIOUS
  <2>1. CASE o \in DOMAIN hp
    BY <1>5, <1>7, <1>10, <1>11, <2>1
  <2>2. CASE o \notin DOMAIN hp
    BY <1>5, <2>2 DEF Grew
  <2> QED
    BY <2>1, <2>2
<1>17. ASSUME NEW c \in DOMAIN hq, hq[c].kind = "compound", BoundIn(hq, c) # {}, c \notin B
       PROVE  ~Unbuilt(hq, c)
  <2>1. CASE c \notin DOMAIN hp \/ c \in Building
    BY <1>5, <1>17, <2>1
  <2>2. CASE c \in DOMAIN hp /\ c \notin Building
    <3>1. c \notin H
      BY <1>2, <1>17 DEF IsQuery
    <3>2. Claims(hq, c) = Claims(hp, c)
      BY <1>5, <1>17, <2>2, <3>1 DEF Grew
    <3>3. PICK b \in Claims(hp, c) : IsAttr(hq, b) /\ hq[b].sort = "bound"
      BY <1>17, <3>2 DEF BoundIn
    <3>4. b \in DOMAIN hp
      BY <1>1, <2>2, <3>3, ClaimsThere
    <3>5. hp[b] = hq[b] /\ IsAttr(hp, b)
      BY <1>1, <1>10, <3>3, <3>4 DEF Kept, IsAttr
    <3>6. b \in BoundIn(hp, c)
      BY <3>3, <3>5 DEF BoundIn
    <3>7. ~Unbuilt(hp, c)
      BY <1>7, <1>10, <1>17, <2>2, <3>6
    <3> QED
      BY <1>12, <2>2, <3>7
  <2> QED
    BY <2>1, <2>2
<1>18. Destroyed(hq, {}, F)
  <2>1. \A o \in F : /\ o \in DOMAIN hp /\ o \in DOMAIN hq
                     /\ hq[o].kind # "compound" /\ ~(IsAttr(hq, o) /\ hq[o].sort \in Definable)
    BY <1>3, <1>5, <1>10 DEF Gone, IsAttr
  <2>2. \A o \in F : o \notin 1..3
    <3>1. 1..3 = {1, 2, 3}
      OBVIOUS
    <3> QED
      BY <1>14, <2>1, <3>1 DEF GivenThere, Definable
  <2>3. ASSUME NEW o \in F PROVE Owns(hq, {}, o) \subseteq F
    <3>1. o \notin H /\ o \notin B /\ o \in DOMAIN hp
      BY <1>2, <1>3, <2>1 DEF IsCompoundObject
    <3>2. Claims(hq, o) = Claims(hp, o) /\ Claims(hp, o) \subseteq F
      BY <1>5, <3>1 DEF Grew
    <3> QED
      BY <3>2 DEF Owns
  <2>4. ASSUME NEW o \in F, NEW p \in DOMAIN hq, o \in Claims(hq, p)
        PROVE  p \in F
    <3>1. CASE hq[o].kind = "query"
      BY <1>3, <2>4, <3>1 DEF Gone
    <3>2. CASE hq[o].kind # "query"
      <4>1. PICK d \in F : o \in Claims(hq, d)
        BY <1>3, <3>2 DEF Gone
      <4> QED
        BY <1>1, <2>1, <2>4, <4>1 DEF HeapInv
    <3> QED
      BY <3>1, <3>2
  <2>5. \A p \in DOMAIN hq \ F : hq[p].kind # "compound" => Owns(hq, {}, p) \cap F = {}
    BY <2>4 DEF Owns
  <2>6. \A b \in DOMAIN hq : /\ IsAttr(hq, b) /\ hq[b].sort = "bound"
                             => Claims(hq, b) \cap F = {}
    BY <2>1, <2>4 DEF Definable
  <2> QED
    BY <2>1, <2>2, <2>3, <2>5, <2>6 DEF Destroyed
<1> QED
  BY <1>3, <1>5, <1>8, <1>9, <1>13, <1>14, <1>15, <1>16, <1>17, <1>18

(* What the values on the stack hold and build after a reduction.          *)
LEMMA HeldTaken ==
  ASSUME OwnInv, NEW n \in 0..Len(sem), NEW it \in ItemSet, sem' = Append(Below(n), it)
  PROVE  /\ Holds(it) \subseteq Held' /\ Builds(it) \subseteq Building'
         /\ Held \ Held' \subseteq HeldAbove(sem, n) \ Holds(it)
         /\ Building \ Building' \subseteq BuiltAbove(sem, n) \ Builds(it)
         /\ Building' \subseteq Building \cup Builds(it)
<1> DEFINE low == Below(n)
           sm == Append(low, it)
<1>1. /\ low \in Seq(ItemSet) /\ DOMAIN low = 1..(Len(sem) - n)
      /\ DOMAIN sem = 1..Len(sem) /\ Len(sem) \in Nat
      /\ \A i \in DOMAIN low : low[i] = sem[i] /\ i \in DOMAIN sem
  <2>1. sem \in Seq(ItemSet) /\ low = SubSeq(sem, 1, Len(sem) - n)
    BY DEF OwnInv, SemInv, Below
  <2> HIDE DEF low
  <2> QED
    BY <2>1, PrefixIs
<1> HIDE DEF low
<1>2. /\ DOMAIN sm = DOMAIN low \cup {Len(low) + 1}
      /\ \A k \in DOMAIN low : sm[k] = low[k]
      /\ sm[Len(low) + 1] = it
  BY <1>1, AppendFacts
<1>3. sem' = sm
  BY DEF low
<1> HIDE DEF sm
<1>4. Held' = UNION {Holds(sm[i]) : i \in DOMAIN sm} /\ Building' = UNION {Builds(sm[i]) : i \in DOMAIN sm}
  BY <1>3 DEF Held, Building
<1>5. \A i \in DOMAIN sem : i \in DOMAIN low \/ i \in (Len(sem) - n + 1)..Len(sem)
  BY <1>1
<1>6. ASSUME NEW i \in DOMAIN sem
      PROVE  /\ Holds(sem[i]) \subseteq Held' \cup HeldAbove(sem, n)
             /\ Builds(sem[i]) \subseteq Building' \cup BuiltAbove(sem, n)
  <2>1. CASE i \in DOMAIN low
    <3>1. i \in DOMAIN sm /\ sm[i] = sem[i]
      BY <1>1, <1>2, <2>1
    <3> QED
      BY <1>4, <3>1
  <2>2. CASE i \in (Len(sem) - n + 1)..Len(sem)
    BY <2>2 DEF HeldAbove, BuiltAbove
  <2> QED
    BY <1>5, <2>1, <2>2
<1>7. Holds(it) \subseteq Held' /\ Builds(it) \subseteq Building'
  BY <1>2, <1>4
<1>8. Building' \subseteq Building \cup Builds(it)
  <2> SUFFICES ASSUME NEW i \in DOMAIN sm PROVE Builds(sm[i]) \subseteq Building \cup Builds(it)
    BY <1>4
  <2> QED
    BY <1>1, <1>2 DEF Building
<1> QED
  BY <1>6, <1>7, <1>8 DEF Held, Building

(* What was destroyed while parsing has destroyed what it claims.          *)
LEMMA FreedStays ==
  ASSUME OwnInv, LiveInv, LeaveInv, rc = "parsing", NEW S, S \subseteq Held
  PROVE  /\ \A o \in freed : o \in DOMAIN heap /\ Claims(heap, o) \subseteq freed
         /\ \A o \in Closure(S) : o \in DOMAIN heap /\ Claims(heap, o) \subseteq Closure(S)
<1>1. Gone(heap, freed \cup Closure(S), TRUE)
  BY FoldGone
<1>2. \A o \in freed \cup Closure(S) :
        o \in DOMAIN heap /\ ~(IsAttr(heap, o) /\ heap[o].sort = "bound")
  BY <1>1 DEF Gone, IsAttr, Definable
<1>3. \A o \in freed : Owns(heap, iterated, o) \subseteq freed
  BY DEF LeaveInv, Destroyed
<1>4. \A o \in Closure(S) : Owns(heap, iterated, o) \subseteq Closure(S)
  <2>1. S \subseteq DOMAIN heap
    BY HeldBuilding DEF IsQuery
  <2> QED
    BY <2>1, ClosureFacts
<1> QED
  BY <1>2, <1>3, <1>4 DEF Owns

(* The list of virtual compounds, one longer.                              *)
LEMMA ListLonger ==
  ASSUME OwnInv, NEW c \in Nat
  PROVE  Range(Append(listed, c)) = Range(listed) \cup {c}
<1> DEFINE l == Append(listed, c)
<1>1. /\ DOMAIN l = DOMAIN listed \cup {Len(listed) + 1}
      /\ \A k \in DOMAIN listed : l[k] = listed[k]
      /\ l[Len(listed) + 1] = c
  BY AppendFacts DEF OwnInv, ListInv
<1> HIDE DEF l
<1>2. Range(l) = Range(listed) \cup {c}
  BY <1>1 DEF Range
<1> QED
  BY <1>2 DEF l

(* A reduction that leaves nothing without who destroys it.                *)
Reduces(n, it) ==
  /\ rc = "parsing" /\ rc' = rc /\ n \in 0..Len(sem) /\ it \in ItemSet /\ sem' = Append(Below(n), it)
  /\ UNCHANGED client
  /\ Grew(heap, heap', Holds(it) \cup Builds(it), Holds(it), Range(listed'))
  /\ \A o \in HeldAbove(sem, n) \ Holds(it) : ~Unclaimed(heap', o) \/ o \in freed'
  /\ \A c \in (BuiltAbove(sem, n) \cup (DOMAIN heap' \ DOMAIN heap)) \ Builds(it) :
       BoundIn(heap', c) = {} \/ ~Unbuilt(heap', c) \/ heap'[c].kind # "compound"
  /\ listed' = listed \/ listed' = Append(listed, Self)
  /\ Builds(it) \subseteq Range(listed')
  /\ freed' = freed \/ \E S : S \subseteq Held /\ freed' = freed \cup Closure(S)

LEMMA LeaveReduced ==
  ASSUME OwnInv, OwnStep, LiveInv, LiveInv', LeaveInv, NEW n, NEW it, Reduces(n, it)
  PROVE  LeaveInv'
<1>1. /\ rc = "parsing" /\ rc' = "parsing" /\ n \in 0..Len(sem) /\ it \in ItemSet
      /\ sem' = Append(Below(n), it) /\ UNCHANGED client
  BY DEF Reduces
<1>2. /\ Holds(it) \subseteq Held' /\ Builds(it) \subseteq Building'
      /\ Held \ Held' \subseteq HeldAbove(sem, n) \ Holds(it)
      /\ Building \ Building' \subseteq BuiltAbove(sem, n) \ Builds(it)
      /\ Building' \subseteq Building \cup Builds(it)
  BY <1>1, HeldTaken
<1>3. Range(listed) \subseteq Range(listed') /\ Range(listed') \subseteq Range(listed) \cup {Self}
  <2>1. Self \in Nat
    BY DEF OwnInv, HeapInv, Self
  <2> QED
    BY <2>1, ListLonger DEF Reduces
<1>4. freed \subseteq freed' /\ \A o \in freed' : o \in DOMAIN heap /\ Claims(heap, o) \subseteq freed'
  <2>1. \A o \in freed : o \in DOMAIN heap /\ Claims(heap, o) \subseteq freed
    BY <1>1, FreedStays
  <2>2. ASSUME NEW S, S \subseteq Held
        PROVE  \A o \in Closure(S) : o \in DOMAIN heap /\ Claims(heap, o) \subseteq Closure(S)
    BY <1>1, <2>2, FreedStays
  <2>3. CASE freed' = freed
    BY <2>1, <2>3
  <2>4. ASSUME NEW S, S \subseteq Held, freed' = freed \cup Closure(S)
        PROVE  freed \subseteq freed' /\ \A o \in freed' : o \in DOMAIN heap /\ Claims(heap, o) \subseteq freed'
    BY <2>1, <2>2, <2>4
  <2> QED
    BY <2>3, <2>4 DEF Reduces
<1>5. Building' \subseteq Range(listed')
  BY <1>1, <1>2, <1>3 DEF Reduces, LeaveInv, Rooted
<1>6. Grew(heap, heap', Held' \cup Building', Held', Range(listed'))
  BY <1>2 DEF Reduces, Grew
<1>7. Settles
  BY <1>2, <1>3, <1>4, <1>5, <1>6 DEF Settles, Reduces
<1> QED
  BY <1>1, <1>7, LeaveParsed

(* Two new objects.                                                        *)
LEMMA AddedTwo ==
  ASSUME NEW E, NEW s \in Seq(E), NEW a, NEW b
  PROVE  LET t == s \o <<a, b>>
         IN /\ DOMAIN t = DOMAIN s \cup {Len(s) + 1, Len(s) + 2}
            /\ Len(s) + 1 \notin DOMAIN s /\ Len(s) + 2 \notin DOMAIN s
            /\ \A k \in DOMAIN s : t[k] = s[k]
            /\ t[Len(s) + 1] = a /\ t[Len(s) + 2] = b
<1> DEFINE t == s \o <<a, b>>
<1>1. Len(s) \in Nat /\ DOMAIN s = 1..Len(s) /\ Len(<<a, b>>) = 2
  OBVIOUS
<1>2. /\ DOMAIN t = 1..(Len(s) + 2)
      /\ \A k \in 1..(Len(s) + 2) : t[k] = IF k <= Len(s) THEN s[k] ELSE <<a, b>>[k - Len(s)]
  BY <1>1
<1>3. <<a, b>>[1] = a /\ <<a, b>>[2] = b
  OBVIOUS
<1> HIDE DEF t
<1>4. \A k \in DOMAIN s : t[k] = s[k]
  BY <1>1, <1>2
<1>5. t[Len(s) + 1] = a /\ t[Len(s) + 2] = b
  <2>1. (Len(s) + 1) - Len(s) = 1 /\ (Len(s) + 2) - Len(s) = 2
    BY <1>1
  <2>2. /\ Len(s) + 1 \in 1..(Len(s) + 2) /\ ~(Len(s) + 1 <= Len(s))
        /\ Len(s) + 2 \in 1..(Len(s) + 2) /\ ~(Len(s) + 2 <= Len(s))
    BY <1>1
  <2> QED
    BY <1>2, <1>3, <2>1, <2>2
<1> QED
  BY <1>1, <1>2, <1>4, <1>5 DEF t

LEMMA AddedOne ==
  ASSUME NEW E, NEW s \in Seq(E), NEW a
  PROVE  LET t == s \o <<a>>
         IN /\ DOMAIN t = DOMAIN s \cup {Len(s) + 1} /\ Len(s) + 1 \notin DOMAIN s
            /\ \A k \in DOMAIN s : t[k] = s[k]
            /\ t[Len(s) + 1] = a
<1> DEFINE t == s \o <<a>>
<1>1. Len(s) \in Nat /\ DOMAIN s = 1..Len(s) /\ Len(<<a>>) = 1
  OBVIOUS
<1>2. /\ DOMAIN t = 1..(Len(s) + 1)
      /\ \A k \in 1..(Len(s) + 1) : t[k] = IF k <= Len(s) THEN s[k] ELSE <<a>>[k - Len(s)]
  BY <1>1
<1>3. <<a>>[1] = a
  OBVIOUS
<1> HIDE DEF t
<1>4. t[Len(s) + 1] = a
  <2>1. (Len(s) + 1) - Len(s) = 1 /\ Len(s) + 1 \in 1..(Len(s) + 1) /\ ~(Len(s) + 1 <= Len(s))
    BY <1>1
  <2> QED
    BY <1>2, <1>3, <2>1
<1> QED
  BY <1>1, <1>2, <1>4 DEF t

(* The topmost values of the stack, from the top down.                     *)
LEMMA AboveIs ==
  ASSUME sem \in Seq(ItemSet), NEW n \in 0..Len(sem)
  PROVE  /\ HeldAbove(sem, n) = UNION {Holds(Item(k)) : k \in 0..(n - 1)}
         /\ BuiltAbove(sem, n) = UNION {Builds(Item(k)) : k \in 0..(n - 1)}
<1>1. Len(sem) \in Nat
  OBVIOUS
<1>2. /\ \A k \in 0..(n - 1) : Len(sem) - k \in (Len(sem) - n + 1)..Len(sem)
      /\ \A k \in (Len(sem) - n + 1)..Len(sem) :
           Len(sem) - k \in 0..(n - 1) /\ Len(sem) - (Len(sem) - k) = k
  BY <1>1
<1>3. HeldAbove(sem, n) = UNION {Holds(Item(k)) : k \in 0..(n - 1)}
  BY <1>2 DEF HeldAbove, Item
<1>4. BuiltAbove(sem, n) = UNION {Builds(Item(k)) : k \in 0..(n - 1)}
  BY <1>2 DEF BuiltAbove, Item
<1> QED
  BY <1>3, <1>4

LEMMA QueryHolds ==
  ASSUME NEW q \in Nat \ {0}, NEW path \in BOOLEAN
  PROVE  LET it == Query(q, path) IN it \in ItemSet /\ Holds(it) = {q} /\ Builds(it) = {}
BY DEF Query, ItemSet, Holds, Builds

(* A new attribute and the chain that owns it.                             *)
LEMMA GrewWrapped ==
  ASSUME NEW hp \in Seq(Object), NEW obj, obj.kind = "attr"
  PROVE  LET hq == hp \o <<obj, Chain(Len(hp) + 1, TRUE)>>
         IN /\ Grew(hp, hq, {}, {Len(hp) + 2}, {})
            /\ DOMAIN hq = DOMAIN hp \cup {Len(hp) + 1, Len(hp) + 2}
            /\ \A o \in DOMAIN hq \ DOMAIN hp : hq[o].kind # "compound"
            /\ \A k \in DOMAIN obj.data : ~Unclaimed(hq, obj.data[k])
            /\ \A o \in DOMAIN hp : hq[o] = hp[o]
            /\ hq[Len(hp) + 1] = obj
<1> DEFINE hq == hp \o <<obj, Chain(Len(hp) + 1, TRUE)>>
<1> DEFINE new == Len(hp) + 1
           chain == Chain(new, TRUE)
<1>1. new \in Nat
  OBVIOUS
<1> HIDE DEF new
<1>2. /\ chain.kind = "query" /\ DOMAIN chain.links = {1}
      /\ chain.links[1].attr = new /\ chain.links[1].owned
  BY <1>1, ChainObject
<1>7. hq = hp \o <<obj, chain>>
  BY DEF chain, new
<1> HIDE DEF chain, hq
<1>3. /\ DOMAIN hq = DOMAIN hp \cup {Len(hp) + 1, Len(hp) + 2}
      /\ Len(hp) + 1 \notin DOMAIN hp /\ Len(hp) + 2 \notin DOMAIN hp
      /\ \A k \in DOMAIN hp : hq[k] = hp[k]
      /\ hq[Len(hp) + 1] = obj /\ hq[Len(hp) + 2] = chain
  <2>1. LET t == hp \o <<obj, chain>>
        IN /\ DOMAIN t = DOMAIN hp \cup {Len(hp) + 1, Len(hp) + 2}
           /\ Len(hp) + 1 \notin DOMAIN hp /\ Len(hp) + 2 \notin DOMAIN hp
           /\ \A k \in DOMAIN hp : t[k] = hp[k]
           /\ t[Len(hp) + 1] = obj /\ t[Len(hp) + 2] = chain
    BY AddedTwo
  <2> QED
    BY <1>7, <2>1
<1>4. ~Unclaimed(hq, Len(hp) + 1)
  <2>1. Len(hp) + 1 \in Claims(hq, Len(hp) + 2)
    BY <1>2, <1>3 DEF Claims, new
  <2> QED
    BY <1>3, <2>1 DEF Unclaimed
<1>5. \A k \in DOMAIN obj.data : ~Unclaimed(hq, obj.data[k])
  <2>1. \A k \in DOMAIN obj.data : obj.data[k] \in Claims(hq, Len(hp) + 1)
    BY <1>3 DEF Claims
  <2> QED
    BY <1>3, <2>1 DEF Unclaimed
<1>6. \A o \in DOMAIN hp : Claims(hq, o) = Claims(hp, o)
  BY <1>3, ClaimsKept
<1> QED
  BY <1>2, <1>3, <1>4, <1>5, <1>6 DEF Grew, hq

(* Operations, calls and constants own the queries they stand for.         *)
LEMMA WrappedLeave ==
  ASSUME OwnInv, OwnStep, LiveInv, LiveInv', LeaveInv, rc = "parsing",
         NEW n \in 0..Len(sem), NEW sort, NEW collection, NEW data,
         heap' = heap \o Wrapped(Attr(sort, TRUE, collection, 0, data, Self)),
         sem' = Append(Below(n), Query(WrappedId, FALSE)),
         HeldAbove(sem, n) \subseteq {data[k] : k \in DOMAIN data} \cup freed',
         BuiltAbove(sem, n) = {},
         listed' = listed, rc' = rc, UNCHANGED client,
         freed' = freed \/ \E S : S \subseteq Held /\ freed' = freed \cup Closure(S)
  PROVE  LeaveInv'
<1> DEFINE obj == Attr(sort, TRUE, collection, 0, data, Self)
           it == Query(WrappedId, FALSE)
           hq == heap'
<1>1. heap \in Seq(Object) /\ WrappedId \in Nat \ {0} /\ Self = Len(heap) + 1 /\ WrappedId = Len(heap) + 2
  BY DEF OwnInv, HeapInv, Self, WrappedId
<1>2. it \in ItemSet /\ Holds(it) = {WrappedId} /\ Builds(it) = {}
  BY <1>1, QueryHolds
<1>3. obj.kind = "attr" /\ obj.data = data
  BY DEF Attr
<1>4. hq = heap \o <<obj, Chain(Len(heap) + 1, TRUE)>>
  BY <1>1 DEF Wrapped
<1> HIDE DEF obj, hq, it
<1>5. /\ Grew(heap, hq, {}, {WrappedId}, {})
      /\ \A o \in DOMAIN hq \ DOMAIN heap : hq[o].kind # "compound"
      /\ \A k \in DOMAIN data : ~Unclaimed(hq, data[k])
  <2>1. LET t == heap \o <<obj, Chain(Len(heap) + 1, TRUE)>>
        IN /\ Grew(heap, t, {}, {Len(heap) + 2}, {})
           /\ \A o \in DOMAIN t \ DOMAIN heap : t[o].kind # "compound"
           /\ \A k \in DOMAIN obj.data : ~Unclaimed(t, obj.data[k])
    BY <1>1, <1>3, GrewWrapped
  <2> QED
    BY <1>1, <1>3, <1>4, <2>1
<1>6. Grew(heap, hq, Holds(it) \cup Builds(it), Holds(it), Range(listed'))
  BY <1>2, <1>5 DEF Grew
<1>7. \A o \in HeldAbove(sem, n) \ Holds(it) : ~Unclaimed(hq, o) \/ o \in freed'
  BY <1>5
<1>8. Reduces(n, it)
  BY <1>2, <1>5, <1>6, <1>7 DEF Reduces, hq, it
<1> QED
  BY <1>8, LeaveReduced

LEMMA LiteralLeave ==
  ASSUME OwnInv, OwnStep, LiveInv, LiveInv', LeaveInv, Literal
  PROVE  LeaveInv'
<1>1. rc = "parsing"
  BY DEF Literal, Starts
<1>2. /\ heap' = heap \o Wrapped(Attr("static", TRUE, FALSE, 0, <<>>, Self))
      /\ sem' = Append(Below(0), Query(WrappedId, FALSE))
      /\ listed' = listed /\ rc' = rc /\ UNCHANGED client /\ freed' = freed
  BY BelowNone DEF Literal, Reduce
<1> QED
  BY <1>1, <1>2, BelowNone, WrappedLeave

LEMMA MemberLeave ==
  ASSUME OwnInv, OwnStep, LiveInv, LiveInv', LeaveInv, Member, rc' = "parsing"
  PROVE  LeaveInv'
<1>1. rc = "parsing"
  BY DEF Member, Starts
<1>2. PICK a : Reduce(sem, Query(Self, TRUE), <<Chain(a, FALSE)>>)
  <2>1. ~Fail
    BY DEF Fail, Stop, Leave
  <2> QED
    BY <2>1 DEF Member
<1> DEFINE it == Query(Self, TRUE)
           chain == Chain(a, FALSE)
           hq == heap'
<1>3. heap \in Seq(Object) /\ Self \in Nat \ {0} /\ Self = Len(heap) + 1
  BY DEF OwnInv, HeapInv, Self
<1>4. it \in ItemSet /\ Holds(it) = {Self} /\ Builds(it) = {}
  BY <1>3, QueryHolds
<1>5. chain.kind = "query" /\ hq = heap \o <<chain>>
  BY <1>2 DEF Chain, Reduce
<1> HIDE DEF it, chain, hq
<1>6. /\ DOMAIN hq = DOMAIN heap \cup {Self} /\ Self \notin DOMAIN heap
      /\ \A k \in DOMAIN heap : hq[k] = heap[k]
      /\ hq[Self] = chain
  BY <1>3, <1>5, AddedOne
<1>7. \A o \in DOMAIN heap : Claims(hq, o) = Claims(heap, o)
  BY <1>6, ClaimsKept
<1>8. Grew(heap, hq, Holds(it) \cup Builds(it), Holds(it), Range(listed'))
  BY <1>4, <1>5, <1>6, <1>7 DEF Grew
<1>9. /\ sem' = Append(Below(0), it) /\ listed' = listed /\ freed' = freed
      /\ rc' = rc /\ UNCHANGED client
  BY <1>2, BelowNone DEF Reduce, it
<1>10. Reduces(0, it)
  BY <1>1, <1>4, <1>5, <1>6, <1>8, <1>9, BelowNone DEF Reduces, hq
<1> QED
  BY <1>10, LeaveReduced

(* Tokens and arguments: the heap is as it was.                            *)
LEMMA SameLeave ==
  ASSUME OwnInv, OwnStep, LiveInv, LiveInv', LeaveInv, rc = "parsing", rc' = rc,
         NEW n \in 0..Len(sem), NEW it \in ItemSet, sem' = Append(Below(n), it),
         UNCHANGED <<heap, freed, listed, client>>,
         HeldAbove(sem, n) \subseteq Holds(it), Builds(it) \subseteq Building,
         BuiltAbove(sem, n) \subseteq Builds(it)
  PROVE  LeaveInv'
<1>1. Grew(heap, heap', Holds(it) \cup Builds(it), Holds(it), Range(listed'))
  BY DEF Grew
<1>2. Builds(it) \subseteq Range(listed')
  BY DEF LeaveInv, Rooted
<1>3. Reduces(n, it)
  BY <1>1, <1>2 DEF Reduces
<1> QED
  BY <1>3, LeaveReduced

(* What the topmost values hold and build, one by one.                     *)
LEMMA AboveOf ==
  ASSUME OwnInv, sem # <<>>
  PROVE  /\ Top = Item(0) /\ Len(sem) \in Nat \ {0} /\ 1 \in 0..Len(sem)
         /\ HeldAbove(sem, 1) = Holds(Top) /\ BuiltAbove(sem, 1) = Builds(Top)
         /\ Len(sem) > 1 => /\ 2 \in 0..Len(sem)
                            /\ HeldAbove(sem, 2) = Holds(Top) \cup Holds(Item(1))
                            /\ BuiltAbove(sem, 2) = Builds(Top) \cup Builds(Item(1))
         /\ Len(sem) > 2 => /\ 3 \in 0..Len(sem)
                            /\ HeldAbove(sem, 3) = Holds(Top) \cup Holds(Item(1)) \cup Holds(Item(2))
                            /\ BuiltAbove(sem, 3) = Builds(Top) \cup Builds(Item(1)) \cup Builds(Item(2))
<1>1. sem \in Seq(ItemSet) /\ Len(sem) \in Nat \ {0}
  BY DEF OwnInv, SemInv
<1>2. Top = Item(0)
  BY <1>1 DEF Top, Item, Last
<1>3. /\ 0..(1 - 1) = {0} /\ 0..(2 - 1) = {0, 1} /\ 0..(3 - 1) = {0, 1, 2}
      /\ 1 \in 0..Len(sem) /\ (Len(sem) > 1 => 2 \in 0..Len(sem))
      /\ (Len(sem) > 2 => 3 \in 0..Len(sem))
  BY <1>1
<1>4. HeldAbove(sem, 1) = Holds(Top) /\ BuiltAbove(sem, 1) = Builds(Top)
  <2>1. /\ HeldAbove(sem, 1) = UNION {Holds(Item(k)) : k \in 0..(1 - 1)}
        /\ BuiltAbove(sem, 1) = UNION {Builds(Item(k)) : k \in 0..(1 - 1)}
    BY <1>1, <1>3, AboveIs
  <2> QED
    BY <1>2, <1>3, <2>1
<1>5. ASSUME Len(sem) > 1
      PROVE  /\ HeldAbove(sem, 2) = Holds(Top) \cup Holds(Item(1))
             /\ BuiltAbove(sem, 2) = Builds(Top) \cup Builds(Item(1))
  <2>1. /\ HeldAbove(sem, 2) = UNION {Holds(Item(k)) : k \in 0..(2 - 1)}
        /\ BuiltAbove(sem, 2) = UNION {Builds(Item(k)) : k \in 0..(2 - 1)}
    BY <1>1, <1>3, <1>5, AboveIs
  <2> QED
    BY <1>2, <1>3, <2>1
<1>6. ASSUME Len(sem) > 2
      PROVE  /\ HeldAbove(sem, 3) = Holds(Top) \cup Holds(Item(1)) \cup Holds(Item(2))
             /\ BuiltAbove(sem, 3) = Builds(Top) \cup Builds(Item(1)) \cup Builds(Item(2))
  <2>1. /\ HeldAbove(sem, 3) = UNION {Holds(Item(k)) : k \in 0..(3 - 1)}
        /\ BuiltAbove(sem, 3) = UNION {Builds(Item(k)) : k \in 0..(3 - 1)}
    BY <1>1, <1>3, <1>6, AboveIs
  <2> QED
    BY <1>2, <1>3, <2>1
<1> QED
  BY <1>1, <1>2, <1>3, <1>4, <1>5, <1>6

(* Only some kinds of values hold queries or build a compound.             *)
LEMMA KindHolds ==
  ASSUME NEW it
  PROVE  /\ it.is \notin {"query", "open", "call"} => Holds(it) = {}
         /\ it.is \notin {"def", "colon"} => Builds(it) = {}
BY DEF Holds, Builds

LEMMA ShiftLeave ==
  ASSUME OwnInv, OwnStep, LiveInv, LiveInv', LeaveInv, rc = "parsing", NEW it \in ItemSet,
         Builds(it) = {}, Shift(it)
  PROVE  LeaveInv'
<1>1. /\ sem' = Append(Below(0), it) /\ rc' = rc
      /\ UNCHANGED <<heap, freed, listed, client>>
  BY BelowNone DEF Shift
<1> QED
  BY <1>1, BelowNone, SameLeave

LEMMA TokenLeave ==
  ASSUME OwnInv, OwnStep, LiveInv, LiveInv', LeaveInv,
         \/ Operator \/ Call \/ Open
         \/ \E n \in Names \cup {0}, bind \in BOOLEAN : Name(n, bind)
         \/ IsItem(0, "open") /\ Shift([is |-> "colon", c |-> 0])
  PROVE  LeaveInv'
<1>1. CASE Operator
  <2>1. LET it == [is |-> "op"] IN it \in ItemSet /\ Builds(it) = {}
    BY DEF ItemSet, Builds
  <2>2. rc = "parsing"
    BY <1>1, TopQuery DEF Operator
  <2> QED
    BY <1>1, <2>1, <2>2, ShiftLeave DEF Operator
<1>2. CASE Call
  <2> DEFINE it == [is |-> "call", args |-> <<>>]
  <2>1. it \in ItemSet /\ Builds(it) = {}
    <3>1. <<>> \in Seq(Nat)
      OBVIOUS
    <3>2. it \in [is : {"call"}, args : Seq(Nat)] /\ it.is = "call"
      BY <3>1
    <3> QED
      BY <3>2 DEF ItemSet, Builds
  <2> HIDE DEF it
  <2> QED
    BY <1>2, <2>1, ShiftLeave DEF Call, Starts, it
<1>3. CASE Open
  <2> DEFINE it == [is |-> "open", q |-> 0]
  <2>1. it \in ItemSet /\ Builds(it) = {}
    BY DEF ItemSet, Builds
  <2> HIDE DEF it
  <2> QED
    BY <1>3, <2>1, ShiftLeave DEF Open, Starts, it
<1>4. ASSUME NEW n \in Names \cup {0}, NEW bind \in BOOLEAN, Name(n, bind)
      PROVE  LeaveInv'
  <2> DEFINE it == [is |-> "name", n |-> n, bind |-> bind]
  <2>1. it \in ItemSet /\ Builds(it) = {}
    BY DEF ItemSet, Builds
  <2>2. IsItem(0, "open") \/ IsItem(0, "def")
    BY <1>4 DEF Name
  <2>3. rc = "parsing"
    BY <2>2, StackItem
  <2> HIDE DEF it
  <2> QED
    BY <1>4, <2>1, <2>3, ShiftLeave DEF Name, it
<1>5. CASE IsItem(0, "open") /\ Shift([is |-> "colon", c |-> 0])
  <2> DEFINE it == [is |-> "colon", c |-> 0]
  <2>1. it \in ItemSet /\ Builds(it) = {}
    BY DEF ItemSet, Builds
  <2>2. rc = "parsing"
    BY <1>5, StackItem
  <2> HIDE DEF it
  <2> QED
    BY <1>5, <2>1, <2>2, ShiftLeave DEF it
<1> QED
  BY <1>1, <1>2, <1>3, <1>4, <1>5

LEMMA OpenOnLeave ==
  ASSUME OwnInv, OwnStep, LiveInv, LiveInv', LeaveInv, OpenOn, rc' = "parsing"
  PROVE  LeaveInv'
<1> DEFINE it == [is |-> "open", q |-> Top.q]
<1>1. /\ rc = "parsing" /\ sem # <<>> /\ Top.q \in Nat \ {0} /\ Holds(Top) = {Top.q}
      /\ Top.is = "query"
  BY TopQuery DEF OpenOn, Path
<1>2. sem' = Append(Below(1), it) /\ UNCHANGED <<heap, freed, listed, client>>
  <2>1. ~Fail
    BY DEF Fail, Stop, Leave
  <2> QED
    BY <2>1 DEF OpenOn
<1>3. it \in ItemSet /\ Holds(it) = {Top.q} /\ Builds(it) = {}
  BY <1>1 DEF ItemSet, Holds, Builds
<1> HIDE DEF it
<1>4. 1 \in 0..Len(sem) /\ HeldAbove(sem, 1) = Holds(it) /\ BuiltAbove(sem, 1) = {}
  BY <1>1, <1>3, AboveOf, KindHolds
<1> QED
  BY <1>1, <1>2, <1>3, <1>4, SameLeave

LEMMA ColonLeave ==
  ASSUME OwnInv, OwnStep, LiveInv, LiveInv', LeaveInv, Colon
  PROVE  LeaveInv'
<1>1. CASE IsItem(0, "open") /\ Shift([is |-> "colon", c |-> 0])
  BY <1>1, TokenLeave
<1>2. CASE /\ IsItem(0, "def")
           /\ sem' = Append(Below(1), [is |-> "colon", c |-> Top.c])
           /\ UNCHANGED <<heap, freed, listed, rc, client>>
  <2> DEFINE it == [is |-> "colon", c |-> Top.c]
  <2>1. /\ sem # <<>> /\ rc = "parsing" /\ Item(0) \in ItemSet /\ Item(0).is = "def"
        /\ Len(sem) \in DOMAIN sem /\ sem[Len(sem)] = Item(0)
    <3>1. /\ sem \in Seq(ItemSet) /\ Len(sem) \in Nat /\ 0 < Len(sem) /\ rc = "parsing"
          /\ Item(0) = sem[Len(sem) - 0] /\ Item(0) \in ItemSet /\ Item(0).is = "def"
      BY <1>2, StackItem
    <3> QED
      BY <3>1
  <2>2. Top = Item(0)
    BY <2>1, AboveOf
  <2>3. Top.c \in Nat /\ Builds(Top) = {Top.c} \ {0} /\ Holds(Top) = {}
    BY <2>1, <2>2, ItemFields, KindHolds
  <2>4. it \in ItemSet /\ Builds(it) = {Top.c} \ {0}
    BY <2>3 DEF ItemSet, Builds
  <2>5. Builds(it) \subseteq Building
    BY <2>1, <2>2, <2>3, <2>4 DEF Building
  <2> HIDE DEF it
  <2>6. 1 \in 0..Len(sem) /\ HeldAbove(sem, 1) = {} /\ BuiltAbove(sem, 1) = Builds(it)
    BY <2>1, <2>3, <2>4, AboveOf
  <2>7. sem' = Append(Below(1), it) /\ UNCHANGED <<heap, freed, listed, client>> /\ rc' = rc
    BY <1>2 DEF it
  <2> QED
    BY <2>1, <2>4, <2>5, <2>6, <2>7, SameLeave
<1> QED
  BY <1>1, <1>2 DEF Colon

LEMMA EndArgumentLeave ==
  ASSUME OwnInv, OwnStep, LiveInv, LiveInv', LeaveInv, EndArgument
  PROVE  LeaveInv'
<1>1. /\ rc = "parsing" /\ sem # <<>> /\ Top.q \in Nat \ {0} /\ Holds(Top) = {Top.q}
      /\ Top.is = "query" /\ IsItem(1, "call")
  BY TopQuery DEF EndArgument
<1>2. /\ 1 < Len(sem) /\ Item(1) \in ItemSet /\ Item(1).is = "call"
  BY <1>1, StackItem
<1>3. /\ Item(1).args \in Seq(Nat)
      /\ Holds(Item(1)) = {Item(1).args[k] : k \in DOMAIN Item(1).args}
  BY <1>2, ItemFields
<1> DEFINE low == Item(1).args
           args == <<Top.q>> \o low
           it == [is |-> "call", args |-> args]
<1>4. args \in Seq(Nat) /\ {Top.q} \cup Holds(Item(1)) \subseteq {args[k] : k \in DOMAIN args}
  <2>1. <<Top.q>> \in Seq(Nat) /\ Len(<<Top.q>>) = 1 /\ <<Top.q>>[1] = Top.q
    BY <1>1
  <2>2. /\ args \in Seq(Nat) /\ DOMAIN args = 1..(1 + Len(low))
        /\ Len(low) \in Nat /\ DOMAIN low = 1..Len(low)
        /\ \A k \in DOMAIN args : args[k] = IF k <= 1 THEN Top.q ELSE low[k - 1]
    BY <1>3, <2>1
  <2> HIDE DEF args
  <2>3. 1 \in DOMAIN args /\ args[1] = Top.q
    BY <2>2
  <2>4. ASSUME NEW k \in DOMAIN low
        PROVE  k + 1 \in DOMAIN args /\ args[k + 1] = low[k]
    <3>1. k \in Nat \ {0} /\ k + 1 \in 1..(1 + Len(low)) /\ ~(k + 1 <= 1) /\ (k + 1) - 1 = k
      BY <2>2, <2>4
    <3> QED
      BY <2>2, <3>1
  <2> QED
    BY <1>3, <2>2, <2>3, <2>4
<1> HIDE DEF args, low
<1>5. it \in ItemSet /\ Holds(it) = {args[k] : k \in DOMAIN args} /\ Builds(it) = {}
  BY <1>4 DEF ItemSet, Holds, Builds
<1> HIDE DEF it
<1>6. /\ heap' = heap /\ sem' = Append(Below(2), it) /\ rc' = rc
      /\ UNCHANGED <<freed, listed, client>>
  <2>1. heap' = heap \o <<>> /\ sem' = Append(Below(2), it) /\ rc' = rc
        /\ UNCHANGED <<freed, listed, client>>
    BY DEF EndArgument, Reduce, it, args, low
  <2> QED
    BY <2>1 DEF OwnInv, HeapInv
<1>7. 2 \in 0..Len(sem) /\ HeldAbove(sem, 2) \subseteq Holds(it) /\ BuiltAbove(sem, 2) = {}
  BY <1>1, <1>2, <1>4, <1>5, AboveOf, KindHolds
<1> QED
  BY <1>1, <1>5, <1>6, <1>7, SameLeave

(* The queries of a fold are destroyed, those of an operation taken over.  *)
LEMMA EndCallLeave ==
  ASSUME OwnInv, OwnStep, LiveInv, LiveInv', LeaveInv, EndCall, rc' = "parsing"
  PROVE  LeaveInv'
<1>1. /\ sem \in Seq(ItemSet) /\ Len(sem) \in Nat /\ 0 < Len(sem) /\ rc = "parsing"
      /\ Item(0) \in ItemSet /\ Item(0).is = "call"
  BY StackItem DEF EndCall
<1>2. Top = Item(0) /\ sem # <<>>
  BY <1>1, AboveOf
<1> DEFINE data == Top.args
<1>3. Holds(Top) = {data[k] : k \in DOMAIN data}
  BY <1>1, <1>2, ItemFields
<1>4. ~Stop("error")
  BY DEF Stop, Leave
<1>5. /\ heap' = heap \o Wrapped(Attr("function", TRUE, FALSE, 0, data, Self))
      /\ sem' = Append(Below(1), Query(WrappedId, FALSE))
      /\ UNCHANGED <<freed, listed, rc, client>>
  BY <1>4 DEF EndCall, Reduce
<1>6. /\ 1 \in 0..Len(sem) /\ HeldAbove(sem, 1) = {data[k] : k \in DOMAIN data}
      /\ BuiltAbove(sem, 1) = {}
  BY <1>1, <1>2, <1>3, AboveOf, KindHolds
<1> HIDE DEF data
<1> QED
  BY <1>1, <1>5, <1>6, WrappedLeave

LEMMA OperationLeave ==
  ASSUME OwnInv, OwnStep, LiveInv, LiveInv', LeaveInv, rc = "parsing", rc' = "parsing",
         NEW n \in 0..Len(sem), NEW args \in Seq(ItemSet),
         HeldAbove(sem, n) = {args[k].q : k \in DOMAIN args}, BuiltAbove(sem, n) = {},
         Operation(Below(n), args)
  PROVE  LeaveInv'
<1> DEFINE qs == Operands(args)
           collection == Range(qs) # {q \in Range(qs) : FullyScalar(q)}
           S == HeldAbove(sem, n)
<1>1. DOMAIN qs = DOMAIN args /\ \A k \in DOMAIN args : qs[k] = args[k].q
  BY DEF Operands
<1>2. S = {qs[k] : k \in DOMAIN qs} /\ Range(qs) = S /\ S \subseteq Held
  BY <1>1, HeldAboveHeld DEF Range
<1>3. ~Fail
  BY DEF Fail, Stop, Leave
<1>4. \/ /\ heap' = heap \o Wrapped(Attr("op", TRUE, collection, 0, qs, Self))
         /\ sem' = Append(Below(n), Query(WrappedId, FALSE))
         /\ UNCHANGED <<freed, listed, rc, client>>
      \/ /\ heap' = heap \o Wrapped(Attr("static", TRUE, FALSE, 0, <<>>, Self))
         /\ freed' = freed \cup Closure(Range(qs))
         /\ sem' = Append(Below(n), Query(WrappedId, FALSE))
         /\ UNCHANGED <<listed, rc, client>>
  BY <1>3 DEF Operation, Reduce
<1>5. CASE /\ heap' = heap \o Wrapped(Attr("op", TRUE, collection, 0, qs, Self))
           /\ sem' = Append(Below(n), Query(WrappedId, FALSE))
           /\ UNCHANGED <<freed, listed, rc, client>>
  <2> HIDE DEF qs, collection
  <2>1. HeldAbove(sem, n) \subseteq {qs[k] : k \in DOMAIN qs} \cup freed'
    BY <1>2
  <2> QED
    BY <1>5, <2>1, WrappedLeave
<1>6. CASE /\ heap' = heap \o Wrapped(Attr("static", TRUE, FALSE, 0, <<>>, Self))
           /\ freed' = freed \cup Closure(Range(qs))
           /\ sem' = Append(Below(n), Query(WrappedId, FALSE))
           /\ UNCHANGED <<listed, rc, client>>
  <2> DEFINE none == <<>>
  <2>1. S \subseteq DOMAIN heap
    BY <1>2, HeldBuilding DEF IsQuery
  <2>2. S \subseteq Closure(S)
    BY <2>1, ClosureFacts
  <2>3. HeldAbove(sem, n) \subseteq {none[k] : k \in DOMAIN none} \cup freed'
    BY <1>2, <1>6, <2>2
  <2>4. \E T : T \subseteq Held /\ freed' = freed \cup Closure(T)
    BY <1>2, <1>6
  <2>5. heap' = heap \o Wrapped(Attr("static", TRUE, FALSE, 0, none, Self))
    BY <1>6
  <2> HIDE DEF none, S
  <2> QED
    BY <1>6, <2>3, <2>4, <2>5, WrappedLeave
<1> QED
  BY <1>4, <1>5, <1>6

LEMMA OperationsLeave ==
  ASSUME OwnInv, OwnStep, LiveInv, LiveInv', LeaveInv, Unary \/ EndOperation, rc' = "parsing"
  PROVE  LeaveInv'
<1>1. /\ rc = "parsing" /\ sem # <<>> /\ Top \in ItemSet /\ Holds(Top) = {Top.q}
      /\ Top.is = "query"
  BY TopQuery DEF Unary, EndOperation
<1>2. CASE Unary
  <2> DEFINE args == <<Top>>
  <2>1. args \in Seq(ItemSet) /\ DOMAIN args = {1} /\ args[1] = Top
    BY <1>1
  <2>2. Operation(Below(1), args)
    BY <1>2 DEF Unary
  <2> HIDE DEF args
  <2>3. /\ 1 \in 0..Len(sem) /\ HeldAbove(sem, 1) = {args[k].q : k \in DOMAIN args}
        /\ BuiltAbove(sem, 1) = {}
    BY <1>1, <2>1, AboveOf, KindHolds
  <2> QED
    BY <1>1, <2>1, <2>2, <2>3, OperationLeave
<1>3. CASE EndOperation
  <2> DEFINE args == <<Item(2), Top>>
  <2>1. IsItem(1, "op") /\ Operation(Below(3), args)
    BY <1>3 DEF EndOperation
  <2>2. IsItem(2, "query") /\ Item(1).is = "op"
    BY <2>1, ItemBelow DEF IsItem
  <2>3. 2 < Len(sem) /\ Item(2) \in ItemSet /\ ItemRefs(heap, Item(2)) /\ Item(2).is = "query"
    BY <2>2, StackItem
  <2>4. Holds(Item(2)) = {Item(2).q}
    BY <2>3, ItemFields DEF ItemRefs
  <2>5. args \in Seq(ItemSet) /\ DOMAIN args = {1, 2} /\ args[1] = Item(2) /\ args[2] = Top
    BY <1>1, <2>3
  <2> HIDE DEF args
  <2>6. 3 \in 0..Len(sem) /\ BuiltAbove(sem, 3) = {}
    BY <1>1, <2>2, <2>3, AboveOf, KindHolds
  <2>7. HeldAbove(sem, 3) = {args[k].q : k \in DOMAIN args}
    <3>1. HeldAbove(sem, 3) = {Top.q, Item(2).q}
      BY <1>1, <2>2, <2>3, <2>4, AboveOf, KindHolds
    <3> QED
      BY <2>5, <3>1
  <2> QED
    BY <1>1, <2>1, <2>5, <2>6, <2>7, OperationLeave
<1> QED
  BY <1>2, <1>3

(* A chain with a node more claims the node's attribute, if it owns it.    *)
LEMMA LinkClaims ==
  ASSUME NEW hp \in Seq(Object), NEW q, IsQuery(hp, q), NEW a, NEW owned \in BOOLEAN
  PROVE  LET hq == [hp EXCEPT ![q].links = Append(@, [attr |-> a, owned |-> owned])]
         IN /\ \E obj : hq = [hp EXCEPT ![q] = obj]
            /\ DOMAIN hq = DOMAIN hp /\ hq[q].kind = "query"
            /\ \A o \in DOMAIN hp : o # q => hq[o] = hp[o]
            /\ Claims(hq, q) = Claims(hp, q) \cup (IF owned THEN {a} ELSE {})
<1> DEFINE link == [attr |-> a, owned |-> owned]
           L == hp[q].links
           M == Append(L, link)
           obj == [hp[q] EXCEPT !.links = M]
           hq == [hp EXCEPT ![q] = obj]
<1>1. /\ q \in DOMAIN hp /\ hp[q] \in QueryObject /\ hp[q].kind = "query"
  BY ObjectKinds DEF IsQuery
<1>2. [hp EXCEPT ![q].links = Append(@, link)] = hq
  BY <1>1
<1>3. obj.kind = "query" /\ obj.links = M /\ L \in Seq([attr : Nat, owned : BOOLEAN])
  BY <1>1 DEF QueryObject
<1>4. hq[q] = obj /\ DOMAIN hq = DOMAIN hp /\ \A o \in DOMAIN hp : o # q => hq[o] = hp[o]
  BY <1>1
<1>5. /\ DOMAIN M = DOMAIN L \cup {Len(L) + 1} /\ Len(L) + 1 \notin DOMAIN L
      /\ \A k \in DOMAIN L : M[k] = L[k]
      /\ M[Len(L) + 1] = link
  <2> DEFINE R == [attr : Nat, owned : BOOLEAN]
  <2> HIDE DEF R, L, link
  <2> QED
    BY <1>3 DEF R
<1>6. link.attr = a /\ link.owned = owned
  OBVIOUS
<1>7. Claims(hp, q) = {L[k].attr : k \in {j \in DOMAIN L : L[j].owned}}
  BY <1>1 DEF Claims
<1> HIDE DEF obj, M, L, link, hq
<1>8. Claims(hq, q) = {M[k].attr : k \in {j \in DOMAIN M : M[j].owned}}
  BY <1>3, <1>4 DEF Claims
<1>9. {M[k].attr : k \in {j \in DOMAIN M : M[j].owned}}
        = {L[k].attr : k \in {j \in DOMAIN L : L[j].owned}} \cup (IF owned THEN {a} ELSE {})
  BY <1>5, <1>6
<1>10. Claims(hq, q) = Claims(hp, q) \cup (IF owned THEN {a} ELSE {})
  BY <1>7, <1>8, <1>9
<1>11. \E e : hq = [hp EXCEPT ![q] = e]
  BY DEF hq
<1> QED
  BY <1>2, <1>3, <1>4, <1>10, <1>11 DEF link

LEMMA ExtendLeave ==
  ASSUME OwnInv, OwnStep, LiveInv, LiveInv', LeaveInv, Extend, rc' = "parsing"
  PROVE  LeaveInv'
<1>1. /\ rc = "parsing" /\ heap \in Seq(Object) /\ IsQuery(heap, Top.q)
  BY TopQuery DEF Extend, Path, OwnInv, HeapInv
<1>2. PICK a : /\ heap' = [heap EXCEPT ![Top.q].links = Append(@, [attr |-> a, owned |-> FALSE])]
               /\ UNCHANGED <<freed, listed, sem, client>>
  <2>1. ~Fail
    BY DEF Fail, Stop, Leave
  <2> QED
    BY <2>1 DEF Extend, parser
<1>3. FALSE \in BOOLEAN
  OBVIOUS
<1> DEFINE hq == heap'
<1>4. /\ DOMAIN hq = DOMAIN heap
      /\ \A o \in DOMAIN heap : o # Top.q => hq[o] = heap[o]
      /\ Claims(hq, Top.q) = Claims(heap, Top.q)
  <2>1. LET hr == [heap EXCEPT ![Top.q].links = Append(@, [attr |-> a, owned |-> FALSE])]
        IN /\ DOMAIN hr = DOMAIN heap
           /\ \A o \in DOMAIN heap : o # Top.q => hr[o] = heap[o]
           /\ Claims(hr, Top.q) = Claims(heap, Top.q) \cup (IF FALSE THEN {a} ELSE {})
    BY <1>1, <1>3, LinkClaims
  <2> QED
    BY <1>2, <2>1
<1>5. Held' = Held /\ Building' = Building
  BY <1>2 DEF Held, Building
<1>6. Grew(heap, hq, Held' \cup Building', Held', Range(listed'))
  <2>1. \A o \in DOMAIN heap : Claims(hq, o) = Claims(heap, o)
    BY <1>4, ClaimsKept
  <2> QED
    BY <1>4, <2>1 DEF Grew
<1>7. /\ Range(listed) \subseteq Range(listed') /\ Range(listed') \subseteq Range(listed) \cup {Self}
      /\ Building' \subseteq Range(listed')
  BY <1>1, <1>2, <1>5 DEF LeaveInv, Rooted
<1>8. freed \subseteq freed' /\ \A o \in freed' : o \in DOMAIN heap /\ Claims(heap, o) \subseteq freed'
  <2>1. {} \subseteq Held
    OBVIOUS
  <2> QED
    BY <1>1, <1>2, <2>1, FreedStays
<1>9. Settles
  BY <1>4, <1>5, <1>6, <1>7, <1>8 DEF Settles, hq
<1> QED
  BY <1>1, <1>2, <1>9, LeaveParsed

(* The number of a new object.                                             *)
LEMMA SelfIs ==
  OwnInv => /\ heap \in Seq(Object) /\ HeapInv(heap) /\ Self \in Nat \ {0}
            /\ Self = Len(heap) + 1 /\ Self \notin DOMAIN heap
BY DEF OwnInv, HeapInv, Self

LEMMA StartLeave ==
  ASSUME OwnInv, OwnStep, LiveInv, LiveInv', LeaveInv, rc' = "parsing",
         Complete, IsItem(1, "name"), IsItem(2, "open"),
         NEW n \in Names \cup {0}, NEW bind \in BOOLEAN,
         StartCompound(Below(2), n, Top.q, bind)
  PROVE  LeaveInv'
<1> DEFINE q == Top.q
           name == IF n = 0 THEN 1 ELSE n
           obj == Compound(Scope.compound, [m \in {name} |-> Self + 1])
           def == Definition(Self + 1, q, bind)
           it == [is |-> "def", c |-> Self, named |-> n # 0]
           hq == heap'
<1>1. /\ rc = "parsing" /\ sem # <<>> /\ q \in Nat \ {0} /\ Holds(Top) = {q}
      /\ Top.is = "query" /\ IsQuery(heap, q)
  BY TopQuery
<1>2. 2 \in 0..Len(sem) /\ HeldAbove(sem, 2) = {q} /\ BuiltAbove(sem, 2) = {}
  <2>1. 1 < Len(sem) /\ Item(1).is = "name"
    BY DEF IsItem
  <2> QED
    BY <1>1, <2>1, AboveOf, KindHolds
<1>3. /\ heap' = heap \o <<obj, def>> /\ sem' = Append(Below(2), it)
      /\ UNCHANGED <<freed, client>> /\ rc' = rc /\ listed' = Append(listed, Self)
  <2>1. ~Stop("error")
    BY DEF Stop, Leave
  <2> QED
    BY <2>1 DEF StartCompound
<1>4. /\ heap \in Seq(Object) /\ HeapInv(heap) /\ Self \in Nat \ {0}
      /\ Self = Len(heap) + 1 /\ Self \notin DOMAIN heap /\ Self + 1 = Len(heap) + 2
  BY SelfIs
<1>5. Stands(def, q, Self + 1)
  <2>1. Self + 1 \in Nat
    BY <1>4
  <2> QED
    BY <1>1, <1>4, <2>1, DefinitionTyped
<1>6. /\ it \in ItemSet /\ Holds(it) = {} /\ Builds(it) = {Self}
  <2>1. it \in ItemSet /\ it.is = "def" /\ it.c = Self
    BY <1>4 DEF ItemSet
  <2> HIDE DEF it
  <2> QED
    BY <1>4, <2>1 DEF Holds, Builds
<1>7. obj.kind = "compound" /\ {obj.attrs[m] : m \in DOMAIN obj.attrs} = {Self + 1}
  BY DEF Compound
<1>8. def.kind = "attr" /\ {def.data[k] : k \in DOMAIN def.data} = {q}
  <2>1. def.kind = "attr" /\ def.data = <<q>>
    BY <1>5 DEF Stands, AttrObject
  <2>2. DOMAIN <<q>> = {1} /\ <<q>>[1] = q
    OBVIOUS
  <2> HIDE DEF def, q
  <2> QED
    BY <2>1, <2>2
<1> HIDE DEF obj, def, it, q, hq
<1>9. /\ DOMAIN hq = DOMAIN heap \cup {Self, Self + 1}
      /\ \A k \in DOMAIN heap : hq[k] = heap[k]
      /\ hq[Self] = obj /\ hq[Self + 1] = def
  <2>1. LET t == heap \o <<obj, def>>
        IN /\ DOMAIN t = DOMAIN heap \cup {Len(heap) + 1, Len(heap) + 2}
           /\ \A k \in DOMAIN heap : t[k] = heap[k]
           /\ t[Len(heap) + 1] = obj /\ t[Len(heap) + 2] = def
    BY <1>4, AddedTwo
  <2> QED
    BY <1>3, <1>4, <2>1 DEF hq
<1>10. Claims(hq, Self) = {Self + 1} /\ Claims(hq, Self + 1) = {q}
  BY <1>7, <1>8, <1>9 DEF Claims
<1>11. ~Unclaimed(hq, Self + 1) /\ ~Unclaimed(hq, q)
  BY <1>9, <1>10 DEF Unclaimed
<1>12. \A o \in DOMAIN heap : Claims(hq, o) = Claims(heap, o)
  BY <1>9, ClaimsKept
<1>13. Range(listed') = Range(listed) \cup {Self}
  BY <1>3, <1>4, ListLonger
<1>14. Grew(heap, hq, Holds(it) \cup Builds(it), Holds(it), Range(listed'))
  BY <1>7, <1>8, <1>9, <1>11, <1>12, <1>13 DEF Grew
<1>15. \A c \in (BuiltAbove(sem, 2) \cup (DOMAIN hq \ DOMAIN heap)) \ Builds(it) :
         BoundIn(hq, c) = {} \/ ~Unbuilt(hq, c) \/ hq[c].kind # "compound"
  BY <1>2, <1>6, <1>8, <1>9
<1>16. Reduces(2, it)
  BY <1>1, <1>2, <1>3, <1>6, <1>11, <1>13, <1>14, <1>15 DEF Reduces, hq
<1> QED
  BY <1>16, LeaveReduced

(* An element changed and one added.                                       *)
LEMMA ChangedAdded ==
  ASSUME NEW E, NEW s \in Seq(E), NEW i \in DOMAIN s, NEW e, NEW b
  PROVE  LET t == [s EXCEPT ![i] = e] \o <<b>>
         IN /\ DOMAIN t = DOMAIN s \cup {Len(s) + 1} /\ Len(s) + 1 \notin DOMAIN s
            /\ \A k \in DOMAIN s : k # i => t[k] = s[k]
            /\ t[i] = e /\ t[Len(s) + 1] = b
<1> DEFINE F == E \cup {e}
           s1 == [s EXCEPT ![i] = e]
<1>1. Len(s) \in Nat /\ DOMAIN s = 1..Len(s)
  OBVIOUS
<1>2. /\ s1 \in Seq(F) /\ Len(s1) = Len(s) /\ s1[i] = e /\ DOMAIN s1 = DOMAIN s
      /\ \A k \in DOMAIN s : k # i => s1[k] = s[k]
  <2>1. s \in Seq(F)
    OBVIOUS
  <2>2. e \in F
    OBVIOUS
  <2> HIDE DEF F
  <2> QED
    BY <1>1, <2>1, <2>2
<1> HIDE DEF s1, F
<1>3. LET t == s1 \o <<b>>
      IN /\ DOMAIN t = DOMAIN s1 \cup {Len(s1) + 1} /\ Len(s1) + 1 \notin DOMAIN s1
         /\ \A k \in DOMAIN s1 : t[k] = s1[k]
         /\ t[Len(s1) + 1] = b
  BY <1>2, AddedOne
<1> QED
  BY <1>2, <1>3 DEF s1

LEMMA AppendLeave ==
  ASSUME OwnInv, OwnStep, LiveInv, LiveInv', LeaveInv, rc' = "parsing",
         Complete, IsItem(1, "name"), IsItem(2, "def"),
         NEW n \in Names \cup {0}, NEW bind \in BOOLEAN,
         AppendAttribute(Below(2), n, Top.q, bind)
  PROVE  LeaveInv'
<1> DEFINE q == Top.q
           it == Item(2)
           c == it.c
           name == IF n = 0 THEN Scope.pos ELSE n
           obj == [heap[c] EXCEPT !.attrs = Extended(@, name, Self)]
           def == Definition(Self, q, bind)
           hq == heap'
<1>1. /\ rc = "parsing" /\ sem # <<>> /\ q \in Nat \ {0} /\ Holds(Top) = {q}
      /\ Top.is = "query" /\ IsQuery(heap, q)
  BY TopQuery
<1>2. /\ Len(sem) > 2 /\ sem \in Seq(ItemSet) /\ it \in ItemSet /\ it.is = "def"
      /\ ItemRefs(heap, it) /\ Last(Below(2)) = it /\ Item(1).is = "name"
      /\ it = sem[Len(sem) - 2] /\ Len(sem) - 2 \in DOMAIN sem
  <2>1. /\ sem \in Seq(ItemSet) /\ 2 < Len(sem) /\ Len(sem) \in Nat /\ it \in ItemSet /\ it.is = "def"
        /\ ItemRefs(heap, it) /\ it = sem[Len(sem) - 2] /\ Len(sem) - 2 \in DOMAIN sem
    BY StackItem
  <2>2. Last(Below(2)) = it
    BY DefinitionItems
  <2> QED
    BY <2>1, <2>2 DEF IsItem
<1>3. Holds(it) = {} /\ c \in Nat \ {0} /\ Builds(it) = {c} /\ IsCompoundObject(heap, c)
  <2>1. c \in Nat /\ Builds(it) = {c} \ {0} /\ Holds(it) = {}
    BY <1>2, ItemFields, KindHolds
  <2>2. c # 0
    BY <1>2 DEF ItemRefs
  <2> QED
    BY <1>2, <2>1, <2>2 DEF ItemRefs
<1>4. 3 \in 0..Len(sem) /\ HeldAbove(sem, 3) = {q} /\ BuiltAbove(sem, 3) = Builds(it)
  BY <1>1, <1>2, <1>3, AboveOf, KindHolds
<1>5. /\ heap' = [heap EXCEPT ![c].attrs = Extended(@, name, Self)] \o <<def>>
      /\ name \notin DOMAIN heap[c].attrs
      /\ sem' = Below(2) /\ UNCHANGED <<freed, listed, client>> /\ rc' = rc
  <2>1. ~Stop("error")
    BY DEF Stop, Leave
  <2> QED
    BY <1>2, <2>1 DEF AppendAttribute
<1>6. sem' = Append(Below(3), it)
  BY <1>2, <1>5, BelowIs
<1>7. /\ heap \in Seq(Object) /\ HeapInv(heap) /\ Self \in Nat \ {0}
      /\ Self = Len(heap) + 1 /\ Self \notin DOMAIN heap
  BY SelfIs
<1>8. Stands(def, q, Self)
  BY <1>1, <1>7, DefinitionTyped
<1>9. def.kind = "attr" /\ {def.data[k] : k \in DOMAIN def.data} = {q}
  <2>1. def.kind = "attr" /\ def.data = <<q>>
    BY <1>8 DEF Stands, AttrObject
  <2>2. DOMAIN <<q>> = {1} /\ <<q>>[1] = q
    OBVIOUS
  <2> HIDE DEF def, q
  <2> QED
    BY <2>1, <2>2
<1>10. /\ c \in DOMAIN heap /\ heap[c].kind = "compound"
       /\ obj.kind = "compound" /\ obj.attrs = Extended(heap[c].attrs, name, Self)
       /\ [heap EXCEPT ![c].attrs = Extended(@, name, Self)] = [heap EXCEPT ![c] = obj]
  <2>1. c \in DOMAIN heap /\ heap[c] \in CompoundObject /\ heap[c].kind = "compound"
    BY <1>3, <1>7, ObjectKinds DEF IsCompoundObject
  <2> HIDE DEF c, name
  <2> QED
    BY <2>1 DEF CompoundObject
<1>11. Self \in {obj.attrs[m] : m \in DOMAIN obj.attrs}
  BY <1>5, <1>10 DEF Extended
<1>12. hq = [heap EXCEPT ![c] = obj] \o <<def>>
  BY <1>5, <1>10
<1> HIDE DEF obj, def, it, q, hq, name
<1>13. /\ DOMAIN hq = DOMAIN heap \cup {Self}
       /\ \A k \in DOMAIN heap : k # c => hq[k] = heap[k]
       /\ hq[c] = obj /\ hq[Self] = def
  <2> HIDE DEF c
  <2>1. LET t == [heap EXCEPT ![c] = obj] \o <<def>>
        IN /\ DOMAIN t = DOMAIN heap \cup {Len(heap) + 1}
           /\ \A k \in DOMAIN heap : k # c => t[k] = heap[k]
           /\ t[c] = obj /\ t[Len(heap) + 1] = def
    BY <1>7, <1>10, ChangedAdded
  <2> QED
    BY <1>7, <1>12, <2>1
<1> HIDE DEF c
<1>14. Self \in Claims(hq, c) /\ Claims(hq, Self) = {q}
  BY <1>9, <1>10, <1>11, <1>13 DEF Claims
<1>15. ~Unclaimed(hq, Self) /\ ~Unclaimed(hq, q)
  BY <1>10, <1>13, <1>14 DEF Unclaimed
<1>16. \A o \in DOMAIN heap \ {c} : Claims(hq, o) = Claims(heap, o)
  BY <1>13, ClaimsKept
<1>17. Grew(heap, hq, Holds(it) \cup Builds(it), Holds(it), Range(listed'))
  BY <1>3, <1>9, <1>13, <1>15, <1>16 DEF Grew
<1>18. Builds(it) \subseteq Range(listed')
  <2>1. Builds(it) \subseteq Building
    BY <1>2 DEF Building
  <2> QED
    BY <1>1, <1>5, <2>1 DEF LeaveInv, Rooted
<1>19. \A d \in (BuiltAbove(sem, 3) \cup (DOMAIN hq \ DOMAIN heap)) \ Builds(it) :
         BoundIn(hq, d) = {} \/ ~Unbuilt(hq, d) \/ hq[d].kind # "compound"
  BY <1>4, <1>9, <1>13
<1>20. Reduces(3, it)
  BY <1>1, <1>2, <1>4, <1>5, <1>6, <1>15, <1>17, <1>18, <1>19 DEF Reduces, hq
<1> QED
  BY <1>20, LeaveReduced

(* The end of a scope: its attribute claims the filter, belongs to a chain *)
(* and iterates over the compound when that has bound attributes.          *)
LEMMA CloseLeave ==
  ASSUME OwnInv, OwnStep, LiveInv, LiveInv', LeaveInv, rc = "parsing", rc' = "parsing",
         NEW n \in 0..Len(sem), NEW hp, HeapInv(hp),
         \A o \in DOMAIN heap : o \in DOMAIN hp /\ hp[o] = heap[o],
         NEW open \in ItemSet, open.is = "open", open.q # 0 => IsQuery(heap, open.q),
         NEW c \in Nat \ {0}, IsCompoundObject(hp, c),
         \A o \in DOMAIN hp \ DOMAIN heap : o = c /\ c \in Range(listed'),
         NEW f \in Nat, f # open.q \/ f = 0,
         HeldAbove(sem, n) \subseteq {open.q, f} \ {0}, BuiltAbove(sem, n) \subseteq {c},
         listed' = listed \/ listed' = Append(listed, Self), freed' = freed,
         NEW sc, Close(Below(n), open, c, f, hp, sc)
  PROVE  LeaveInv'
<1> DEFINE id == Len(hp) + 1
           bound == IsBound(hp, c)
           filter == IF f = 0 THEN <<>> ELSE <<f>>
           attr == Attr(IF bound THEN "product" ELSE "scope", FALSE, bound, c, filter, id)
           on == open.q # 0
           top == IF on THEN open.q ELSE id + 1
           it == Query(top, TRUE)
           hq == heap'
           one == [hp EXCEPT ![open.q].links = Append(@, [attr |-> id, owned |-> TRUE])]
           chain == Chain(id, TRUE)
<1>1. /\ heap' = IF on THEN one \o <<attr>> ELSE hp \o <<attr, chain>>
      /\ sem' = Append(Below(n), it) /\ rc' = rc /\ UNCHANGED client
  <2>1. ~Stop("error") /\ ~Stop("aborted")
    BY DEF Stop, Leave
  <2> QED
    BY <2>1 DEF Close
<1>2. /\ attr.kind = "attr" /\ attr.data = filter
      /\ attr.type = c /\ attr.sort = IF bound THEN "product" ELSE "scope"
  BY DEF Attr
<1>3. hp \in Seq(Object) /\ id \in Nat \ {0} /\ id = Len(hp) + 1 /\ id + 1 = Len(hp) + 2 /\ id \notin DOMAIN hp
  BY DEF HeapInv
<1>4. {filter[k] : k \in DOMAIN filter} = {f} \ {0}
  <2>1. CASE f = 0
    <3>1. filter = <<>> /\ DOMAIN <<>> = {}
      BY <2>1
    <3> HIDE DEF filter
    <3> QED
      BY <2>1, <3>1
  <2>2. CASE f # 0
    <3>1. filter = <<f>> /\ DOMAIN <<f>> = {1} /\ <<f>>[1] = f
      BY <2>2
    <3> HIDE DEF filter
    <3> QED
      BY <2>2, <3>1
  <2> QED
    BY <2>1, <2>2
<1>5. /\ chain.kind = "query" /\ chain.links[1].attr = id
      /\ chain.links[1].owned /\ DOMAIN chain.links = {1}
  <2> HIDE DEF id
  <2> QED
    BY <1>3, ChainObject
<1>6. on => IsQuery(hp, open.q) /\ open.q \in Nat \ {0}
  BY ItemFields DEF IsQuery
<1>7. top \in Nat \ {0} /\ TRUE \in BOOLEAN
  BY <1>3, <1>6
<1> HIDE DEF top, attr, filter, chain
<1>8. it \in ItemSet /\ Holds(it) = {top} /\ Builds(it) = {}
  BY <1>7, QueryHolds
<1> HIDE DEF it
  (* The new heap. *)
<1>9. ASSUME on
      PROVE  /\ DOMAIN hq = DOMAIN hp \cup {id}
             /\ \A o \in DOMAIN hp : o # open.q => hq[o] = hp[o]
             /\ hq[id] = attr /\ id \in Claims(hq, top) /\ top \in DOMAIN hp
             /\ hq[open.q].kind = "query"
  <2> HIDE DEF id
  <2>1. PICK e : one = [hp EXCEPT ![open.q] = e]
    BY <1>3, <1>6, <1>7, <1>9, LinkClaims
  <2>6. /\ DOMAIN one = DOMAIN hp /\ one[open.q].kind = "query"
        /\ id \in Claims(one, open.q)
    <3>1. PICK q, a, owned : q = open.q /\ a = id /\ owned = TRUE
      OBVIOUS
    <3>2. IsQuery(hp, q) /\ hp \in Seq(Object) /\ owned \in BOOLEAN
      BY <1>3, <1>6, <1>7, <1>9, <3>1
    <3>3. LET hr == [hp EXCEPT ![q].links = Append(@, [attr |-> a, owned |-> owned])]
          IN /\ DOMAIN hr = DOMAIN hp /\ hr[q].kind = "query"
             /\ Claims(hr, q) = Claims(hp, q) \cup (IF owned THEN {a} ELSE {})
      BY ONLY <3>2, LinkClaims, SMTT(60)
    <3> HIDE DEF on
    <3> QED
      BY <3>1, <3>3
  <2>2. open.q \in DOMAIN hp
    BY <1>6, <1>9 DEF IsQuery
  <2> HIDE DEF one
  <2>3. LET t == [hp EXCEPT ![open.q] = e] \o <<attr>>
        IN /\ DOMAIN t = DOMAIN hp \cup {Len(hp) + 1}
           /\ \A k \in DOMAIN hp : k # open.q => t[k] = hp[k]
           /\ t[open.q] = e /\ t[Len(hp) + 1] = attr
    BY <1>3, <2>2, ChangedAdded
  <2>4. hq = [hp EXCEPT ![open.q] = e] \o <<attr>>
    BY <1>1, <1>9, <2>1
  <2>5. /\ DOMAIN hq = DOMAIN hp \cup {id}
        /\ \A k \in DOMAIN hp : k # open.q => hq[k] = hp[k]
        /\ hq[open.q] = e /\ hq[id] = attr
    BY <1>3, <2>3, <2>4
  <2> HIDE DEF hq
  <2>7. one[open.q] = e
    BY <2>1, <2>2, <1>3
  <2>8. Claims(hq, open.q) = Claims(one, open.q)
    BY <2>5, <2>7, ClaimsKept
  <2> QED
    BY <1>9, <2>2, <2>5, <2>6, <2>7, <2>8 DEF top
<1>10. ASSUME ~on
       PROVE  /\ DOMAIN hq = DOMAIN hp \cup {id, id + 1}
              /\ \A o \in DOMAIN hp : hq[o] = hp[o]
              /\ hq[id] = attr /\ top = id + 1 /\ id \in Claims(hq, top)
              /\ hq[top].kind = "query"
  <2>1. LET t == hp \o <<attr, chain>>
        IN /\ DOMAIN t = DOMAIN hp \cup {Len(hp) + 1, Len(hp) + 2}
           /\ \A k \in DOMAIN hp : t[k] = hp[k]
           /\ t[Len(hp) + 1] = attr /\ t[Len(hp) + 2] = chain
    BY <1>3, AddedTwo
  <2>2. hq = hp \o <<attr, chain>>
    BY <1>1, <1>10
  <2> HIDE DEF hq, id
  <2>3. /\ DOMAIN hq = DOMAIN hp \cup {id, id + 1}
        /\ \A o \in DOMAIN hp : hq[o] = hp[o]
        /\ hq[id] = attr /\ hq[id + 1] = chain
    BY <1>3, <2>1, <2>2
  <2>4. id \in Claims(hq, id + 1)
    BY <1>5, <2>3 DEF Claims
  <2> QED
    BY <1>5, <1>10, <2>3, <2>4 DEF top
<1> HIDE DEF hq, id, on, one
<1>11. /\ DOMAIN hp \subseteq DOMAIN hq /\ id \in DOMAIN hq /\ top \in DOMAIN hq
       /\ DOMAIN hq \subseteq DOMAIN hp \cup {id, top}
       /\ hq[id] = attr /\ id \in Claims(hq, top) /\ hq[top].kind = "query"
       /\ \A o \in DOMAIN hp : o # top => hq[o] = hp[o]
       /\ top \in DOMAIN hp => on /\ top = open.q
  <2>1. CASE on
    <3>1. top = open.q
      BY <2>1 DEF top
    <3> QED
      BY <1>9, <2>1, <3>1
  <2>2. CASE ~on
    <3>1. id + 1 \notin DOMAIN hp
      BY <1>3
    <3> QED
      BY <1>10, <2>2, <3>1
  <2> QED
    BY <2>1, <2>2
<1>12. /\ ~Unclaimed(hq, id)
       /\ f # 0 => ~Unclaimed(hq, f)
  <2>1. f # 0 => f \in Claims(hq, id)
    BY <1>2, <1>4, <1>11 DEF Claims
  <2> QED
    BY <1>11, <2>1 DEF Unclaimed
<1>13. \A o \in DOMAIN heap \ {top} : Claims(hq, o) = Claims(heap, o)
  BY <1>11, ClaimsKept
<1>14. c # top /\ hq[c] = hp[c] /\ c \in DOMAIN hp /\ hp[c].kind = "compound"
  <2>1. c \in DOMAIN hp /\ hp[c].kind = "compound"
    BY DEF IsCompoundObject
  <2>2. top \in DOMAIN hp => hp[top].kind = "query"
    BY <1>6, <1>11 DEF IsQuery
  <2>3. c # top
    BY <2>1, <2>2
  <2> QED
    BY <1>11, <2>1, <2>3
<1>15. Grew(heap, hq, Holds(it) \cup Builds(it), Holds(it), Range(listed'))
  BY <1>2, <1>8, <1>11, <1>12, <1>13, <1>14 DEF Grew
<1>16. BoundIn(hq, c) = {} \/ ~Unbuilt(hq, c)
  <2>1. CASE bound
    BY <1>2, <1>11, <2>1 DEF Unbuilt, IsProduct, IsAttr
  <2>2. CASE ~bound
    <3> SUFFICES ASSUME NEW b \in BoundIn(hq, c) PROVE FALSE
      OBVIOUS
    <3>1. b \in Claims(hq, c) /\ IsAttr(hq, b) /\ hq[b].sort = "bound"
      BY DEF BoundIn
    <3>2. b \in Claims(hp, c)
      BY <1>14, <3>1, ClaimsKept
    <3>3. b \in DOMAIN hp
      BY <1>14, <3>2, ClaimsThere
    <3>4. b # top
      BY <1>11, <3>1 DEF IsAttr
    <3>5. hp[b].sort = "bound"
      BY <1>11, <3>1, <3>3, <3>4
    <3>6. b \in Range(hp[c].attrs)
      BY <1>14, <3>2 DEF Claims, Range
    <3> QED
      BY <2>2, <3>5, <3>6 DEF IsBound
  <2> QED
    BY <2>1, <2>2
<1>17. \A d \in (BuiltAbove(sem, n) \cup (DOMAIN hq \ DOMAIN heap)) \ Builds(it) :
         BoundIn(hq, d) = {} \/ ~Unbuilt(hq, d) \/ hq[d].kind # "compound"
  BY <1>2, <1>11, <1>16
<1>18. \A o \in HeldAbove(sem, n) \ Holds(it) : ~Unclaimed(hq, o) \/ o \in freed'
  <2> SUFFICES ASSUME NEW o \in HeldAbove(sem, n) \ Holds(it) PROVE ~Unclaimed(hq, o)
    OBVIOUS
  <2>1. o # 0 /\ (o = open.q \/ o = f)
    OBVIOUS
  <2>2. o = open.q => o = top
    BY <2>1 DEF top, on
  <2> QED
    BY <1>8, <1>12, <2>1, <2>2
<1>19. Reduces(n, it)
  BY <1>1, <1>8, <1>15, <1>17, <1>18 DEF Reduces, hq
<1> QED
  BY <1>19, LeaveReduced

(* The queries that an opening brace refers to.                            *)
LEMMA OpenRefs ==
  ASSUME NEW open \in ItemSet, open.is = "open", ItemRefs(heap, open)
  PROVE  open.q \in Nat /\ Holds(open) = {open.q} \ {0} /\ (open.q # 0 => IsQuery(heap, open.q))
<1>1. open.q \in Nat /\ Holds(open) = {open.q} \ {0}
  BY ItemFields
<1> QED
  BY <1>1 DEF ItemRefs

LEMMA CloseScopeLeave ==
  ASSUME OwnInv, OwnStep, LiveInv, LiveInv', LeaveInv, rc' = "parsing", CloseScope
  PROVE  LeaveInv'
<1>0. HeapInv(heap) /\ freed' = freed /\ heap \in Seq(Object)
  BY DEF OwnInv, HeapInv, CloseScope
<1>1. CASE /\ IsItem(0, "def") /\ listed' = listed
           /\ Close(Below(2), Item(1), Top.c, 0, heap, scopes)
  <2> DEFINE open == Item(1)
             c == Top.c
  <2>1. /\ 2 \in 0..Len(sem) /\ sem \in Seq(ItemSet) /\ rc = "parsing"
        /\ Item(0) \in ItemSet /\ Item(0).is = "def" /\ ItemRefs(heap, Item(0))
        /\ open \in ItemSet /\ open.is = "open" /\ ItemRefs(heap, open)
    <3>1. 0 \in {0, 1} /\ "def" \in {"def", "colon"} /\ 0 + 1 = 1 /\ 0 + 2 = 2
      OBVIOUS
    <3> QED
      BY <1>1, <3>1, OpenBelow
  <2>2. /\ Top = Item(0) /\ HeldAbove(sem, 2) = Holds(Top) \cup Holds(open)
        /\ BuiltAbove(sem, 2) = Builds(Top) \cup Builds(open)
    BY <2>1, AboveOf
  <2>3. Holds(Top) = {} /\ Builds(open) = {}
    BY <2>1, <2>2, KindHolds
  <2>4. open.q \in Nat /\ Holds(open) = {open.q} \ {0} /\ (open.q # 0 => IsQuery(heap, open.q))
    BY <2>1, OpenRefs
  <2>5. Builds(Top) = {c} /\ c # 0 /\ IsCompoundObject(heap, c) /\ c \in Nat
    <3>1. Top.c \in Nat /\ Builds(Top) = {Top.c} \ {0}
      BY <2>1, <2>2, ItemFields
    <3> QED
      BY <2>1, <2>2, <3>1 DEF ItemRefs
  <2>6. Close(Below(2), open, c, 0, heap, scopes)
    BY <1>1
  <2>7. /\ 0 \in Nat /\ \A o \in DOMAIN heap : o \in DOMAIN heap /\ heap[o] = heap[o]
        /\ \A o \in DOMAIN heap \ DOMAIN heap : o = c /\ c \in Range(listed')
    OBVIOUS
  <2> HIDE DEF open, c
  <2>8. HeldAbove(sem, 2) \subseteq {open.q, 0} \ {0} /\ BuiltAbove(sem, 2) \subseteq {c}
    BY <2>2, <2>3, <2>4, <2>5
  <2> QED
    BY <1>0, <1>1, <2>1, <2>4, <2>5, <2>6, <2>7, <2>8, CloseLeave
<1>2. ASSUME Complete, IsItem(1, "colon")
      PROVE  /\ 3 \in 0..Len(sem) /\ rc = "parsing"
             /\ Item(1) \in ItemSet /\ Item(1).is = "colon" /\ ItemRefs(heap, Item(1))
             /\ Item(2) \in ItemSet /\ Item(2).is = "open"
             /\ Item(2).q # 0 => IsQuery(heap, Item(2).q)
             /\ Top.q \in Nat \ {0} /\ Top.q # Item(2).q
             /\ HeldAbove(sem, 3) \subseteq {Item(2).q, Top.q} \ {0}
             /\ BuiltAbove(sem, 3) \subseteq {Item(1).c} \ {0}
  <2>1. /\ 3 \in 0..Len(sem) /\ sem \in Seq(ItemSet) /\ rc = "parsing"
        /\ Item(1) \in ItemSet /\ Item(1).is = "colon" /\ ItemRefs(heap, Item(1))
        /\ Item(2) \in ItemSet /\ Item(2).is = "open" /\ ItemRefs(heap, Item(2))
        /\ Apart(Item(2), Item(0))
    <3>1. 1 \in {0, 1} /\ "colon" \in {"def", "colon"} /\ 1 + 1 = 2 /\ 1 + 2 = 3
      OBVIOUS
    <3> QED
      BY <1>2, <3>1, OpenBelow
  <2>2. /\ Top.q \in Nat \ {0} /\ Holds(Top) = {Top.q} /\ Top.is = "query" /\ sem # <<>>
    BY <1>2, TopQuery
  <2>3. Len(sem) > 2
    BY <2>1
  <2>4. /\ Top = Item(0)
        /\ HeldAbove(sem, 3) = Holds(Top) \cup Holds(Item(1)) \cup Holds(Item(2))
        /\ BuiltAbove(sem, 3) = Builds(Top) \cup Builds(Item(1)) \cup Builds(Item(2))
    BY <2>2, <2>3, AboveOf
  <2>5. Holds(Item(1)) = {} /\ Builds(Item(2)) = {} /\ Builds(Top) = {}
    BY <2>1, <2>2, KindHolds
  <2>6. /\ Item(2).q \in Nat /\ Holds(Item(2)) = {Item(2).q} \ {0}
        /\ (Item(2).q # 0 => IsQuery(heap, Item(2).q))
    BY <2>1, OpenRefs
  <2>7. Builds(Item(1)) = {Item(1).c} \ {0}
    BY <2>1, ItemFields
  <2>8. Top.q # Item(2).q
    BY <2>1, <2>2, <2>4, <2>6 DEF Apart
  <2> QED
    BY <2>1, <2>2, <2>4, <2>5, <2>6, <2>7, <2>8
<1>3. CASE /\ Complete /\ IsItem(1, "colon") /\ Item(1).c # 0 /\ listed' = listed
           /\ Close(Below(3), Item(2), Item(1).c, Top.q, heap, Popped)
  <2> DEFINE open == Item(2)
             c == Item(1).c
             q == Top.q
  <2>1. /\ 3 \in 0..Len(sem) /\ rc = "parsing"
        /\ open \in ItemSet /\ open.is = "open" /\ (open.q # 0 => IsQuery(heap, open.q))
        /\ q \in Nat /\ q # open.q
        /\ HeldAbove(sem, 3) \subseteq {open.q, q} \ {0}
        /\ BuiltAbove(sem, 3) \subseteq {c}
    BY <1>2, <1>3
  <2>2. c \in Nat \ {0} /\ IsCompoundObject(heap, c)
    <3>1. Item(1).c \in Nat /\ Builds(Item(1)) = {Item(1).c} \ {0}
      BY <1>2, <1>3, ItemFields
    <3> QED
      BY <1>2, <1>3, <3>1 DEF ItemRefs
  <2>3. Close(Below(3), open, c, q, heap, Popped)
    BY <1>3
  <2>4. /\ \A o \in DOMAIN heap : o \in DOMAIN heap /\ heap[o] = heap[o]
        /\ \A o \in DOMAIN heap \ DOMAIN heap : o = c /\ c \in Range(listed')
    OBVIOUS
  <2> HIDE DEF open, c, q
  <2> QED
    BY <1>0, <1>3, <2>1, <2>2, <2>3, <2>4, CloseLeave
<1>4. CASE /\ Complete /\ IsItem(1, "colon") /\ Item(1).c = 0
           /\ listed' = Append(listed, Self)
           /\ Close(Below(3), Item(2), Self, Top.q,
                    Append(heap, Compound(Scope.compound, <<>>)), scopes)
  <2> DEFINE open == Item(2)
             q == Top.q
             hp == Append(heap, Compound(Scope.compound, <<>>))
  <2>1. /\ 3 \in 0..Len(sem) /\ rc = "parsing"
        /\ open \in ItemSet /\ open.is = "open" /\ (open.q # 0 => IsQuery(heap, open.q))
        /\ q \in Nat /\ q # open.q
        /\ HeldAbove(sem, 3) \subseteq {open.q, q} \ {0}
        /\ BuiltAbove(sem, 3) \subseteq {Self}
    BY <1>2, <1>4
  <2>2. /\ HeapInv(hp) /\ IsCompoundObject(hp, Self) /\ Self \in Nat \ {0}
        /\ DOMAIN hp = DOMAIN heap \cup {Self} /\ \A o \in DOMAIN heap : hp[o] = heap[o]
    <3>1. IsCompoundObject(heap, Scope.compound)
      BY <1>2, <1>4, ScopeTyped
    <3> QED
      BY <1>0, <3>1, GrowByCompound DEF Self
  <2>3. Self \in Range(listed')
    BY <1>4, <2>2, ListLonger
  <2>4. Close(Below(3), open, Self, q, hp, scopes)
    BY <1>4
  <2> HIDE DEF open, hp, q
  <2>5. /\ \A o \in DOMAIN heap : o \in DOMAIN hp /\ hp[o] = heap[o]
        /\ \A o \in DOMAIN hp \ DOMAIN heap : o = Self /\ Self \in Range(listed')
    BY <2>2, <2>3
  <2>6. PICK c : c = Self
    OBVIOUS
  <2>7. /\ c \in Nat \ {0} /\ IsCompoundObject(hp, c) /\ BuiltAbove(sem, 3) \subseteq {c}
        /\ \A o \in DOMAIN hp \ DOMAIN heap : o = c /\ c \in Range(listed')
        /\ Close(Below(3), open, c, q, hp, scopes)
    BY <2>1, <2>2, <2>4, <2>5, <2>6
  <2> QED
    BY <1>0, <1>4, <2>1, <2>2, <2>5, <2>7, CloseLeave
<1> QED
  BY <1>1, <1>3, <1>4 DEF CloseScope

LEMMA EndDefinitionLeave ==
  ASSUME OwnInv, OwnStep, LiveInv, LiveInv', LeaveInv, rc' = "parsing", EndDefinition
  PROVE  LeaveInv'
<1>1. Complete /\ IsItem(1, "name")
  BY DEF EndDefinition
<1>2. /\ Item(1).n \in Names \cup {0} /\ Item(1).bind \in BOOLEAN
      /\ IsItem(2, "open") \/ IsItem(2, "def")
  BY <1>1, DefinitionItems
<1>3. CASE IsItem(2, "open")
  BY <1>1, <1>2, <1>3, StartLeave DEF EndDefinition
<1>4. CASE IsItem(2, "def")
  <2>1. ~IsItem(2, "open")
    BY <1>4 DEF IsItem
  <2> QED
    BY <1>1, <1>2, <1>4, <2>1, AppendLeave DEF EndDefinition
<1> QED
  BY <1>2, <1>3, <1>4

(* The client gets the query, which no one else holds.                     *)
LEMMA AcceptLeave ==
  ASSUME OwnInv, LiveInv, LeaveInv, Accept
  PROVE  LeaveInv'
<1>1. /\ rc = "parsing" /\ sem # <<>> /\ Holds(Top) = {Top.q} /\ Top.is = "query"
      /\ sem \in Seq(ItemSet) /\ Top = sem[Len(sem)] /\ Len(sem) = 1 /\ Top.q # 0
  BY TopQuery DEF Accept
<1>2. DOMAIN sem = {1}
  BY <1>1
<1>3. Held = {Top.q} /\ Building = {}
  BY <1>1, <1>2, KindHolds DEF Held, Building
<1>4. /\ sem' = <<>> /\ result' = Top.q
      /\ UNCHANGED <<heap, freed, listed, iterated, context>>
  BY DEF Accept, Leave
<1>5. DOMAIN sem' = {}
  BY <1>4
<1>6. Held' = {} /\ Building' = {}
  BY <1>5 DEF Held, Building
<1>7. /\ context = "live" /\ Top.q \notin freed
      /\ Rooted /\ GivenThere(heap) /\ Ranked(heap) /\ Destroyed(heap, iterated, freed)
  BY <1>1, <1>3 DEF LiveInv, LeaveInv
<1>8. result = 0 /\ 0 \notin DOMAIN heap
  BY TopQuery DEF Accept, OwnInv, HeapInv
<1>9. /\ Top.q = result' /\ result' \notin freed' /\ context' = "live"
      /\ heap' = heap /\ freed' = freed /\ listed' = listed
  BY <1>4, <1>7
<1>10. \A o \in DOMAIN heap \ 1..3 :
         /\ heap[o].kind = "attr" => ~Unclaimed(heap, o)
         /\ heap[o].kind = "query" => ~Unclaimed(heap, o) \/ o \in Held' \cup freed \cup {result'}
         /\ heap[o].kind = "compound" => o \in Range(listed) \cup freed
  BY <1>3, <1>6, <1>7, <1>8, <1>9 DEF Rooted
<1>11. /\ \A c \in DOMAIN heap :
            heap[c].kind = "compound" /\ BoundIn(heap, c) # {} => ~Unbuilt(heap, c) \/ c \in Building'
       /\ 1 \notin Range(listed) /\ Building' \subseteq Range(listed)
  BY <1>3, <1>6, <1>7 DEF Rooted
<1>12. (result # 0 => context = "live" /\ result \notin freed)' /\ (context = "gone" => listed = <<>>)'
  BY <1>9
<1>13. Rooted'
  BY <1>9, <1>10, <1>11, <1>12 DEF Rooted
<1> QED
  BY <1>4, <1>7, <1>13 DEF LeaveInv

(* What the client and the context do leaves everything rooted, when what  *)
(* they let go of is destroyed.                                            *)
LEMMA ClientRooted ==
  ASSUME OwnInv, Rooted, rc = "ok", heap' = heap, sem' = sem, freed \subseteq freed',
         result' \in {0, result}, result' # result => result \in freed',
         Range(listed') \subseteq Range(listed),
         Range(listed) \subseteq Range(listed') \cup freed',
         result' # 0 => context' = "live" /\ result' \notin freed',
         context' = "gone" => listed' = <<>>
  PROVE  Rooted'
<1>1. sem = <<>>
  BY DEF OwnInv, ClientInv
<1>2. DOMAIN sem = {} /\ DOMAIN sem' = {}
  BY <1>1
<1>3. Held = {} /\ Held' = {} /\ Building = {} /\ Building' = {}
  BY <1>2 DEF Held, Building
<1>4. \A o \in DOMAIN heap \ 1..3 :
        /\ heap[o].kind = "attr" => ~Unclaimed(heap, o)
        /\ heap[o].kind = "query" => ~Unclaimed(heap, o) \/ o \in Held' \cup freed' \cup {result'}
        /\ heap[o].kind = "compound" => o \in Range(listed') \cup freed'
  BY <1>3 DEF Rooted
<1>5. /\ \A c \in DOMAIN heap :
           heap[c].kind = "compound" /\ BoundIn(heap, c) # {} => ~Unbuilt(heap, c) \/ c \in Building'
      /\ 1 \notin Range(listed') /\ Building' \subseteq Range(listed')
  BY <1>3 DEF Rooted
<1> QED
  BY <1>4, <1>5 DEF Rooted

(* An evaluation comes across live objects only.                           *)
LEMMA ReachedLive ==
  ASSUME OwnInv, LiveInv, LeaveInv, rc = "ok", result # 0
  PROVE  Reached \subseteq DOMAIN heap \ freed
<1> DEFINE f == [o \in DOMAIN heap |-> Uses(o)]
           C == DOMAIN heap \ freed
<1>1. /\ HeapInv(heap) /\ IsQuery(heap, result) /\ result \notin freed /\ context = "live"
      /\ Destroyed(heap, iterated, freed)
  BY DEF OwnInv, ClientInv, LeaveInv, Rooted
<1>2. Safe(heap, freed, TRUE)
  BY <1>1 DEF LiveInv
<1>3. IsFiniteSet(DOMAIN f)
  <2>1. DOMAIN f = 1..Len(heap) /\ Len(heap) \in Nat
    BY <1>1 DEF HeapInv
  <2> QED
    BY <2>1, FS_Interval
<1>4. ASSUME NEW o \in C PROVE Uses(o) \subseteq C
  <2>1. Uses(o) \subseteq DOMAIN heap
    BY UsesThere
  <2>2. Mentions(heap[o], TRUE) \cap freed = {}
    BY <1>2 DEF Safe
  <2>3. heap[o].kind = "query" => {l.attr : l \in Range(heap[o].links)} \subseteq Mentions(heap[o], TRUE)
    BY DEF Mentions, Range
  <2>4. OwnedBy(o) \cap freed = {}
    <3>1. CASE heap[o].kind = "compound"
      BY <2>2, <3>1 DEF OwnedBy, Mentions, Range
    <3>2. CASE heap[o].kind # "compound"
      BY <1>1, <3>2, OwnedIs DEF OwnsIs, Destroyed
    <3> QED
      BY <3>1, <3>2
  <2> QED
    BY <2>1, <2>2, <2>3, <2>4 DEF Uses
<1>5. {result} \subseteq C
  BY <1>1 DEF IsQuery
<1>6. \A o \in C : f[o] \subseteq C
  BY <1>4
<1>7. Reached = Reach(f, {result})
  BY DEF Reached
<1> HIDE DEF f, C
<1>8. Reached \subseteq C
  BY <1>3, <1>5, <1>6, <1>7, ReachWithin
<1> QED
  BY <1>8 DEF C

(* An iterator destroys what is bound to its compound with its attribute:  *)
(* both are there when it is made.                                         *)
LEMMA IterateLeave ==
  ASSUME OwnInv, LiveInv, LeaveInv, Iterate
  PROVE  LeaveInv'
<1>1. PICK p \in Reached : /\ heap[p].kind = "attr" /\ heap[p].sort = "product"
                           /\ iterated' = iterated \cup {p}
  BY DEF Iterate
<1>2. /\ result # 0 /\ rc = "ok"
      /\ UNCHANGED <<heap, freed, listed, parser, rc, result, context>>
  BY DEF Iterate, OwnInv, ClientInv
<1>3. /\ HeapInv(heap) /\ \A a \in iterated : IsProduct(heap, a)
      /\ Rooted /\ GivenThere(heap) /\ Ranked(heap) /\ Destroyed(heap, iterated, freed)
  BY <1>2 DEF OwnInv, ClientInv, LeaveInv
<1>4. p \in DOMAIN heap \ freed /\ IsProduct(heap, p)
  BY <1>1, <1>2, ReachedLive DEF IsProduct, IsAttr
<1> DEFINE I == iterated \cup {p}
           B == BoundTo(heap, heap[p].type)
<1>5. \A o : Owns(heap, I, o) = Owns(heap, iterated, o) \cup (IF p \in Claims(heap, o) THEN B ELSE {})
  <2> TAKE o
  <2> DEFINE A == Claims(heap, o) \cap iterated
  <2>1. Claims(heap, o) \cap I = A \cup (IF p \in Claims(heap, o) THEN {p} ELSE {})
    OBVIOUS
  <2> HIDE DEF I
  <2>2. UNION {BoundTo(heap, heap[a].type) : a \in Claims(heap, o) \cap I} =
          (UNION {BoundTo(heap, heap[a].type) : a \in A}) \cup (IF p \in Claims(heap, o) THEN B ELSE {})
    BY <2>1
  <2> QED
    BY <2>2 DEF Owns
<1>6. B \cap freed = {}
  <2>1. Safe(heap, freed, TRUE)
    BY <1>2, <1>3 DEF LiveInv, Rooted
  <2>2. heap[p].type # 0 /\ IsCompoundObject(heap, heap[p].type)
    BY <1>3, <1>4 DEF HeapInv, Refs, AttrRefs, IsProduct, IsAttr
  <2>3. heap[p].type \notin freed
    BY <1>1, <1>4, <2>1, <2>2 DEF Safe, Mentions
  <2>4. ASSUME NEW b \in BoundIn(heap, heap[p].type) PROVE Claims(heap, b) \cap freed = {}
    <3>1. b \in Claims(heap, heap[p].type) /\ IsAttr(heap, b)
      BY DEF BoundIn
    <3>2. b \in Mentions(heap[heap[p].type], TRUE)
      BY <2>2, <3>1 DEF Claims, Mentions, IsCompoundObject
    <3>3. b \in DOMAIN heap \ freed
      BY <2>1, <2>2, <2>3, <3>1, <3>2 DEF Safe, IsCompoundObject, IsAttr
    <3>4. Claims(heap, b) \subseteq Mentions(heap[b], TRUE)
      BY <3>1 DEF Claims, Mentions, IsAttr
    <3> QED
      BY <2>1, <3>3, <3>4 DEF Safe
  <2> QED
    BY <2>4 DEF BoundTo
<1>7. ASSUME NEW o \in freed PROVE Owns(heap, I, o) \subseteq freed
  <2>1. Owns(heap, iterated, o) \subseteq freed /\ o \in DOMAIN heap
    BY <1>3 DEF Destroyed
  <2>2. p \in Claims(heap, o) => p \in Owns(heap, iterated, o)
    <3> SUFFICES ASSUME p \in Claims(heap, o) PROVE p \in Owns(heap, iterated, o)
      OBVIOUS
    <3>1. heap[o].kind = "query"
      BY <1>3, <1>4, <2>1, ProductInChain
    <3> QED
      BY <3>1 DEF Owns, IsAttr
  <2> QED
    BY <1>4, <1>5, <2>1, <2>2
<1>8. \A o \in DOMAIN heap \ freed : heap[o].kind # "compound" => Owns(heap, I, o) \cap freed = {}
  BY <1>3, <1>5, <1>6 DEF Destroyed
<1>9. Destroyed(heap, I, freed)
  BY <1>3, <1>7, <1>8 DEF Destroyed
<1>10. Rooted'
  <2>1. /\ heap' = heap /\ sem' = sem /\ freed' = freed /\ result' = result /\ listed' = listed
        /\ context' = context
    BY <1>2 DEF parser
  <2> QED
    BY <1>2, <1>3, <2>1, ClientRooted DEF Rooted
<1> QED
  BY <1>1, <1>2, <1>3, <1>9, <1>10 DEF LeaveInv

(* The client destroys its query.                                          *)
LEMMA DestroyQueryLeave ==
  ASSUME OwnInv, LiveInv, LeaveInv, DestroyQuery
  PROVE  LeaveInv'
<1>1. /\ result # 0 /\ rc = "ok" /\ result' = 0 /\ freed' = freed \cup Closure({result})
      /\ UNCHANGED <<heap, listed, parser, rc, iterated, context>>
  BY DEF DestroyQuery, OwnInv, ClientInv
<1>2. /\ IsQuery(heap, result) /\ Unclaimed(heap, result)
      /\ Rooted /\ GivenThere(heap) /\ Ranked(heap) /\ Destroyed(heap, iterated, freed)
  BY <1>1 DEF OwnInv, ClientInv, LeaveInv
<1> DEFINE S == {result}
<1>3. result \notin 1..3
  BY <1>2 DEF GivenThere, IsQuery, IsAttr
<1>4. /\ S \subseteq DOMAIN heap \ 1..3 /\ S \subseteq DOMAIN heap
      /\ \A o \in S, p \in DOMAIN heap : o \in Claims(heap, p) => heap[p].kind = "compound"
  BY <1>2, <1>3 DEF IsQuery, Unclaimed
<1>5. freed' = freed \cup Closure(S)
  BY <1>1
<1> HIDE DEF S
<1>6. Destroyed(heap, iterated, freed')
  BY <1>2, <1>4, <1>5, DestroyedMore
<1>7. S \subseteq freed'
  BY <1>4, <1>5, ClosureFacts
<1>8. Rooted'
  <2>1. /\ heap' = heap /\ sem' = sem /\ freed \subseteq freed' /\ result' = 0
        /\ listed' = listed /\ context' = context /\ result \in freed'
    BY <1>1, <1>5, <1>7 DEF parser, S
  <2> QED
    BY <1>1, <1>2, <2>1, ClientRooted DEF Rooted
<1> QED
  BY <1>1, <1>2, <1>6, <1>8 DEF LeaveInv

(* The compound that is destroyed next.                                    *)
LEMMA LastListed ==
  ASSUME OwnInv, Rooted, GivenThere(heap), listed # <<>>
  PROVE  LET c == Last(listed)
         IN /\ IsCompoundObject(heap, c) /\ c \notin 1..3 /\ c \in Range(listed)
            /\ Claims(heap, c) = Range(heap[c].attrs)
            /\ Range(Front(listed)) \subseteq Range(listed)
            /\ Range(listed) = Range(Front(listed)) \cup {c}
<1> DEFINE c == Last(listed)
           l == Front(listed)
<1>1. /\ DOMAIN l = 1..(Len(listed) - 1) /\ DOMAIN listed = 1..Len(listed)
      /\ Len(listed) \in Nat \ {0} /\ \A i \in DOMAIN l : l[i] = listed[i]
  BY FrontOf DEF OwnInv, ListInv
<1>2. c = listed[Len(listed)]
  BY DEF Last
<1>3. Len(listed) \in DOMAIN listed
  BY <1>1
<1>4. IsCompoundObject(heap, c) /\ c \in Range(listed)
  BY <1>2, <1>3 DEF OwnInv, ListInv, Range
<1>5. Claims(heap, c) = Range(heap[c].attrs)
  BY <1>4 DEF Claims, Range, IsCompoundObject
<1>6. c # 1
  BY <1>4 DEF Rooted
<1>7. c # 2 /\ c # 3
  BY <1>4 DEF GivenThere, IsAttr, IsCompoundObject
<1> HIDE DEF c, l
<1>8. \A i \in DOMAIN listed : i = Len(listed) \/ i \in DOMAIN l
  BY <1>1
<1>9. Range(listed) = Range(l) \cup {c}
  <2>1. \A i \in DOMAIN l : i \in DOMAIN listed
    BY <1>1
  <2> QED
    BY <1>1, <1>2, <1>3, <1>8, <2>1 DEF Range
<1> QED
  BY <1>4, <1>5, <1>6, <1>7, <1>9 DEF c, l

(* Nothing is destroyed.                                                   *)
LEMMA CorruptLeave ==
  ASSUME OwnInv, LiveInv, LeaveInv, context = "unwinding", Corrupt
  PROVE  LeaveInv'
<1>1. /\ context' = "corrupt" /\ rc' = rc /\ rc # "parsing"
      /\ heap' = heap /\ sem' = sem /\ freed' = freed /\ listed' = listed /\ result' = result
      /\ iterated' = iterated
  BY DEF Corrupt, LiveInv, parser
<1>2. SUFFICES ASSUME rc = "ok" PROVE LeaveInv'
  BY <1>1 DEF LeaveInv
<1>3. Rooted /\ GivenThere(heap) /\ Ranked(heap) /\ Destroyed(heap, iterated, freed)
  BY <1>2 DEF LeaveInv
<1>4. result = 0
  BY <1>3 DEF Rooted
<1>5. Rooted'
  BY <1>1, <1>2, <1>3, <1>4, ClientRooted
<1> QED
  BY <1>1, <1>3, <1>5 DEF LeaveInv

(* The context destroys an attribute of a virtual compound.                *)
LEMMA UnwindAttributeLeave ==
  ASSUME OwnInv, LiveInv, LeaveInv, UnwindAttribute
  PROVE  LeaveInv'
<1>1. /\ context = "unwinding" /\ listed # <<>>
      /\ \E a \in Range(heap[Last(listed)].attrs) \ freed :
           \/ Corrupt
           \/ /\ freed' = freed \cup Closure({a})
              /\ UNCHANGED <<heap, listed, parser, rc, client>>
  BY DEF UnwindAttribute
<1>2. PICK a \in Range(heap[Last(listed)].attrs) \ freed :
        \/ Corrupt
        \/ /\ freed' = freed \cup Closure({a})
           /\ UNCHANGED <<heap, listed, parser, rc, client>>
  BY <1>1
<1>3. CASE Corrupt
  BY <1>1, <1>3, CorruptLeave
<1>4. CASE freed' = freed \cup Closure({a}) /\ UNCHANGED <<heap, listed, parser, rc, client>>
  <2> DEFINE S == {a}
             c == Last(listed)
  <2>1. /\ rc' = rc /\ rc # "parsing" /\ heap' = heap /\ sem' = sem /\ listed' = listed
        /\ result' = result /\ iterated' = iterated /\ context' = context
        /\ freed' = freed \cup Closure(S)
    BY <1>1, <1>4 DEF LiveInv, parser, client
  <2>2. SUFFICES ASSUME rc = "ok" PROVE LeaveInv'
    BY <2>1 DEF LeaveInv
  <2>3. /\ Rooted /\ GivenThere(heap) /\ Ranked(heap) /\ Destroyed(heap, iterated, freed)
        /\ HeapInv(heap)
    BY <2>2 DEF LeaveInv, OwnInv
  <2>4. /\ IsCompoundObject(heap, c) /\ c \notin 1..3 /\ a \in Claims(heap, c)
    BY <1>1, <1>2, <2>3, LastListed
  <2> HIDE DEF c
  <2>5. /\ a \in DOMAIN heap /\ heap[a].kind \in {"query", "attr"}
        /\ \A p \in DOMAIN heap : a \in Claims(heap, p) => p = c
    BY <2>3, <2>4, ClaimKinds DEF HeapInv, IsCompoundObject
  <2>6. a \notin 1..3
    <3>1. a # 1
      BY <2>3, <2>5 DEF GivenThere
    <3>2. ASSUME a \in {2, 3} PROVE FALSE
      <4>1. a \in Claims(heap, 1) /\ 1 \in DOMAIN heap
        BY <2>3, <3>2 DEF GivenThere
      <4> QED
        BY <2>4, <2>5, <4>1
    <3> QED
      BY <3>1, <3>2
  <2>7. /\ S \subseteq DOMAIN heap \ 1..3
        /\ \A o \in S, p \in DOMAIN heap : o \in Claims(heap, p) => heap[p].kind = "compound"
    BY <2>4, <2>5, <2>6 DEF IsCompoundObject
  <2> HIDE DEF S
  <2>8. Destroyed(heap, iterated, freed')
    BY <2>1, <2>3, <2>7, DestroyedMore
  <2>9. result = 0
    BY <1>1, <2>3 DEF Rooted
  <2>10. Rooted'
    <3>1. freed \subseteq freed' /\ context' # "gone"
      BY <1>1, <2>1
    <3> QED
      BY <2>1, <2>2, <2>3, <2>9, <3>1, ClientRooted
  <2> QED
    BY <2>1, <2>3, <2>8, <2>10 DEF LeaveInv
<1> QED
  BY <1>2, <1>3, <1>4

(* ... and the compound, when its attributes are.                          *)
LEMMA UnwindCompoundLeave ==
  ASSUME OwnInv, LiveInv, LeaveInv, UnwindCompound
  PROVE  LeaveInv'
<1> DEFINE c == Last(listed)
<1>1. context = "unwinding" /\ listed # <<>>
  BY DEF UnwindCompound
<1>2. CASE Corrupt
  BY <1>1, <1>2, CorruptLeave
<1>3. CASE /\ Range(heap[c].attrs) \subseteq freed
           /\ freed' = freed \cup {c} /\ listed' = Front(listed)
           /\ UNCHANGED <<heap, parser, rc, client>>
  <2>1. /\ rc' = rc /\ rc # "parsing" /\ heap' = heap /\ sem' = sem
        /\ result' = result /\ iterated' = iterated /\ context' = context
        /\ freed' = freed \cup {c} /\ listed' = Front(listed) /\ Range(heap[c].attrs) \subseteq freed
    BY <1>1, <1>3 DEF LiveInv, parser, client
  <2>2. SUFFICES ASSUME rc = "ok" PROVE LeaveInv'
    BY <2>1 DEF LeaveInv
  <2>3. /\ Rooted /\ GivenThere(heap) /\ Ranked(heap) /\ Destroyed(heap, iterated, freed)
        /\ HeapInv(heap) /\ \A a \in iterated : IsProduct(heap, a)
    BY <2>2 DEF LeaveInv, OwnInv, ClientInv
  <2>4. /\ IsCompoundObject(heap, c) /\ c \notin 1..3 /\ Claims(heap, c) \subseteq freed
        /\ Range(listed') \subseteq Range(listed) /\ Range(listed) = Range(listed') \cup {c}
    BY <1>1, <2>1, <2>3, LastListed
  <2> HIDE DEF c
  <2>5. c \in DOMAIN heap /\ heap[c].kind = "compound"
    BY <2>4 DEF IsCompoundObject
  <2>6. Owns(heap, iterated, c) \subseteq freed
    <3>1. ASSUME NEW a \in Claims(heap, c) \cap iterated PROVE FALSE
      BY <2>3, <2>5, ProductInChain
    <3> QED
      BY <2>4, <3>1 DEF Owns
  <2>7. \A p \in DOMAIN heap : c \notin Owns(heap, iterated, p) /\ c \notin Claims(heap, p)
    BY <2>3, <2>5, OwnsClaims, ClaimKinds
  <2>8. Destroyed(heap, iterated, freed \cup {c})
    <3>1. freed \cup {c} \subseteq DOMAIN heap \ 1..3
      BY <2>3, <2>4, <2>5 DEF Destroyed
    <3>2. \A o \in freed \cup {c} : Owns(heap, iterated, o) \subseteq freed \cup {c}
      BY <2>3, <2>6 DEF Destroyed
    <3>3. \A p \in DOMAIN heap \ (freed \cup {c}) : heap[p].kind # "compound" =>
            Owns(heap, iterated, p) \cap (freed \cup {c}) = {}
      BY <2>3, <2>7 DEF Destroyed
    <3>4. \A b \in DOMAIN heap : /\ IsAttr(heap, b) /\ heap[b].sort = "bound"
                                /\ Claims(heap, b) \cap (freed \cup {c}) # {}
                                => \E a \in iterated : b \in Claims(heap, heap[a].type)
      BY <2>3, <2>7 DEF Destroyed
    <3> QED
      BY <3>1, <3>2, <3>3, <3>4 DEF Destroyed
  <2>9. result = 0
    BY <1>1, <2>3 DEF Rooted
  <2>10. Rooted'
    <3>1. freed \subseteq freed' /\ context' # "gone"
          /\ Range(listed) \subseteq Range(listed') \cup freed'
      BY <1>1, <2>1, <2>4
    <3> QED
      BY <2>1, <2>2, <2>3, <2>4, <2>9, <3>1, ClientRooted
  <2> QED
    BY <2>1, <2>3, <2>8, <2>10 DEF LeaveInv
<1> QED
  BY <1>2, <1>3 DEF UnwindCompound

(* The context is about to be destroyed, or is.                            *)
LEMMA ContextLeave ==
  ASSUME OwnInv, LiveInv, LeaveInv, DestroyContext \/ ContextGone
  PROVE  LeaveInv'
<1>1. /\ UNCHANGED <<heap, freed, listed, parser, rc, result, iterated>>
      /\ \/ context' = "unwinding" /\ result = 0
         \/ context = "unwinding" /\ listed = <<>> /\ context' = "gone"
      /\ rc # "parsing"
  BY DEF DestroyContext, ContextGone, LiveInv
<1>2. SUFFICES ASSUME rc = "ok" PROVE LeaveInv'
  BY <1>1 DEF LeaveInv
<1>3. Rooted /\ GivenThere(heap) /\ Ranked(heap) /\ Destroyed(heap, iterated, freed)
  BY <1>2 DEF LeaveInv
<1>4. /\ result = 0 /\ (context' = "gone" => listed = <<>>)
      /\ result' = 0 /\ freed \subseteq freed'
  BY <1>1, <1>3 DEF Rooted
<1>5. heap' = heap /\ freed' = freed /\ sem' = sem /\ listed' = listed /\ result' = result
  BY <1>1 DEF parser
<1>6. Rooted'
  BY <1>2, <1>3, <1>4, <1>5, ClientRooted
<1> QED
  BY <1>1, <1>3, <1>6 DEF LeaveInv

(* A reduction other than that of the whole expression goes on or ends the *)
(* compilation.                                                            *)
LEMMA ParseGoesOn ==
  ASSUME OwnInv, Parse, ~Accept
  PROVE  rc = "parsing" /\ rc' \in {"parsing", "error", "aborted"}
<1> DEFINE Codes == {"parsing", "error", "aborted"}
<1>1. \A code : Stop(code) => rc' = code
  BY DEF Stop, Leave
<1>2. Fail => rc' = "error"
  BY <1>1 DEF Fail
<1>3. \A low, it, objects : Reduce(low, it, objects) => rc' = rc
  BY DEF Reduce
<1>4. \A it : Shift(it) => rc' = rc
  BY DEF Shift
<1>5. SyntaxError => rc = "parsing" /\ rc' \in Codes
  BY <1>2 DEF SyntaxError
<1>6. \A n \in Nat : \A is : IsItem(n, is) => rc = "parsing"
  BY ItemParsing
<1>7. Complete => rc = "parsing"
  BY <1>6 DEF Complete
<1>8. Starts => rc = "parsing"
  BY DEF Starts
<1>9. Literal \/ Member \/ Call \/ Open => rc = "parsing" /\ rc' \in Codes
  BY <1>2, <1>3, <1>4, <1>8 DEF Literal, Member, Call, Open
<1>10. Extend \/ OpenOn => rc = "parsing" /\ rc' \in Codes
  BY <1>2, <1>7 DEF Extend, OpenOn, Path
<1>11. \A low, args : Operation(low, args) => rc' = rc \/ rc' = "error"
  BY <1>2, <1>3 DEF Operation
<1>12. Operator \/ Unary \/ EndOperation \/ EndArgument => rc = "parsing" /\ rc' \in Codes
  BY <1>3, <1>4, <1>7, <1>11 DEF Operator, Unary, EndOperation, EndArgument
<1>13. EndCall \/ Colon => rc = "parsing" /\ rc' \in Codes
  BY <1>1, <1>3, <1>4, <1>6 DEF EndCall, Colon
<1>14. (\E n \in Names \cup {0}, bind \in BOOLEAN : Name(n, bind)) => rc = "parsing" /\ rc' \in Codes
  BY <1>4, <1>6 DEF Name
<1>15. \A low, n, q, bind : StartCompound(low, n, q, bind) => rc' = rc \/ rc' = "error"
  BY <1>1 DEF StartCompound
<1>16. \A low, n, q, bind : AppendAttribute(low, n, q, bind) => rc' = rc \/ rc' = "error"
  BY <1>1 DEF AppendAttribute
<1>17. EndDefinition => rc = "parsing" /\ rc' \in Codes
  BY <1>7, <1>15, <1>16 DEF EndDefinition
<1>18. ASSUME NEW low, NEW open, NEW c, NEW f, NEW hp, NEW sc, Close(low, open, c, f, hp, sc)
       PROVE  rc' = rc \/ rc' \in {"error", "aborted"}
  <2>1. Stop("aborted") \/ Stop("error") \/ UNCHANGED <<overflow, rc, client>>
    BY <1>18, Zenon DEF Close
  <2> QED
    BY <1>1, <2>1
<1>19. CloseScope => rc = "parsing" /\ rc' \in Codes
  BY <1>6, <1>7, <1>18 DEF CloseScope
<1> HIDE DEF Codes
<1>20. rc = "parsing" /\ rc' \in Codes
  BY <1>5, <1>9, <1>10, <1>12, <1>13, <1>14, <1>17, <1>19 DEF Parse
<1> QED
  BY <1>20 DEF Codes

(* Every step.                                                             *)
LEMMA LeaveNext ==
  ASSUME OwnInv, OwnStep, LiveInv, LiveInv', LeaveInv, [Next]_vars
  PROVE  LeaveInv'
<1>1. CASE Accept
  BY <1>1, AcceptLeave
<1>2. CASE Parse /\ ~Accept
  <2>1. rc = "parsing" /\ rc' \in {"parsing", "error", "aborted"}
    BY <1>2, ParseGoesOn
  <2>2. SUFFICES ASSUME rc' = "parsing" PROVE LeaveInv'
    BY <2>1 DEF LeaveInv
  <2>3. CASE SyntaxError
    BY <2>2, <2>3 DEF SyntaxError, Fail, Stop, Leave
  <2>4. CASE Literal \/ Member \/ Extend
    BY <2>2, <2>4, LiteralLeave, MemberLeave, ExtendLeave
  <2>5. CASE Unary \/ EndOperation
    BY <2>2, <2>5, OperationsLeave
  <2>6. CASE Operator \/ Call \/ Open \/ \E n \in Names \cup {0}, bind \in BOOLEAN : Name(n, bind)
    BY <2>6, TokenLeave
  <2>7. CASE EndArgument \/ EndCall
    BY <2>2, <2>7, EndArgumentLeave, EndCallLeave
  <2>8. CASE OpenOn \/ Colon \/ CloseScope
    BY <2>2, <2>8, OpenOnLeave, ColonLeave, CloseScopeLeave
  <2>9. CASE EndDefinition
    BY <2>2, <2>9, EndDefinitionLeave
  <2> QED
    BY <1>2, <2>3, <2>4, <2>5, <2>6, <2>7, <2>8, <2>9 DEF Parse
<1>3. CASE Iterate \/ DestroyQuery
  BY <1>3, IterateLeave, DestroyQueryLeave
<1>4. CASE DestroyContext \/ ContextGone
  BY <1>4, ContextLeave
<1>5. CASE UnwindAttribute \/ UnwindCompound
  BY <1>5, UnwindAttributeLeave, UnwindCompoundLeave
<1>6. CASE UNCHANGED vars
  BY <1>6 DEF vars, LeaveInv, Rooted, Held, Building
<1> QED
  BY <1>1, <1>2, <1>3, <1>4, <1>5, <1>6 DEF Next

(* The root compound with its attributes is all there is at the start.     *)
LEMMA LeaveInit == Init => LeaveInv
<1> SUFFICES ASSUME Init PROVE LeaveInv
  OBVIOUS
<1>1. /\ heap = Given /\ freed = {} /\ listed = <<>> /\ sem = <<>> /\ result = 0
      /\ iterated = {} /\ context = "live"
  BY DEF Init
<1> DEFINE attrs == [n \in {x, h} |-> IF n = x THEN 2 ELSE 3]
           c == Compound(0, attrs)
           a == Attr("member", TRUE, FALSE, 0, <<>>, 2)
           b == Attr("member", FALSE, TRUE, 1, <<>>, 3)
<1>2. Given = <<c, a, b>>
  BY DEF Given
<1>3. c.kind = "compound" /\ c.attrs = attrs
  BY DEF Compound
<1>4. /\ a.kind = "attr" /\ a.sort = "member" /\ DOMAIN a.data = {}
      /\ b.kind = "attr" /\ b.sort = "member" /\ DOMAIN b.data = {}
  BY DEF Attr
<1>5. {attrs[n] : n \in DOMAIN attrs} = {2, 3}
  BY NamesAssumption
<1> HIDE DEF a, b, c, attrs
<1>6. /\ DOMAIN heap = 1..3 /\ DOMAIN heap = {1, 2, 3}
      /\ heap[1] = c /\ heap[2] = a /\ heap[3] = b
  BY <1>1, <1>2
<1>7. Claims(heap, 1) = {2, 3} /\ Claims(heap, 2) = {} /\ Claims(heap, 3) = {}
  BY <1>3, <1>4, <1>5, <1>6 DEF Claims
<1>8. GivenThere(heap)
  <2>1. \A o \in {2, 3} : IsAttr(heap, o) /\ heap[o].sort = "member" /\ Claims(heap, o) = {}
    BY <1>4, <1>6, <1>7 DEF IsAttr
  <2> QED
    BY <1>3, <1>6, <1>7, <2>1 DEF GivenThere
<1>9. \A o \in DOMAIN heap : ~IsProduct(heap, o) /\ ~(IsAttr(heap, o) /\ heap[o].sort = "bound")
  BY <1>3, <1>4, <1>6 DEF IsProduct, IsAttr
<1>10. Ranked(heap)
  <2> DEFINE r == [o \in DOMAIN heap |-> IF o = 1 THEN 1 ELSE 0]
  <2>1. r \in [DOMAIN heap -> 0..1] /\ 1 \in Nat
    OBVIOUS
  <2>2. r[1] = 1 /\ r[2] = 0 /\ r[3] = 0
    BY <1>6
  <2> HIDE DEF r
  <2>3. \A p \in DOMAIN heap : \A o \in Claims(heap, p) : r[o] < r[p]
    BY <1>6, <1>7, <2>2
  <2>4. Ranking(heap, r)
    BY <1>9, <2>3 DEF Ranking
  <2> QED
    BY <2>1, <2>4 DEF Ranked
<1>11. Destroyed(heap, iterated, freed)
  BY <1>1 DEF Destroyed
<1>12. Rooted
  <2>1. \A d : BoundIn(heap, d) = {}
    BY <1>9 DEF BoundIn, IsAttr
  <2>2. DOMAIN listed = {} /\ DOMAIN sem = {}
    BY <1>1
  <2>3. Range(listed) = {} /\ Building = {}
    BY <2>2 DEF Range, Building
  <2> QED
    BY <1>1, <1>6, <2>1, <2>3 DEF Rooted
<1> QED
  BY <1>8, <1>10, <1>11, <1>12 DEF LeaveInv

(* When the client has destroyed its query and the context, nothing of     *)
(* what the compiler made is left, except for the queries bound to         *)
(* compounds over which no iterator was ever made (bound-value.c:328):     *)
(* for every expression that compiles, and whatever was evaluated.         *)
THEOREM LeavesNothingHolds == Spec => []LeavesNothing
<1>1. OwnInv /\ [Next]_vars => OwnStep /\ OwnInv'
  BY OwnNext DEF OwnStep
<1>2. OwnInv /\ LiveInv /\ [Next]_vars => LiveInv'
  BY <1>1, LiveNext
<1>3. OwnInv /\ LiveInv /\ LeaveInv /\ [Next]_vars => LeaveInv'
  BY <1>1, <1>2, LeaveNext
<1> QED
  BY <1>1, <1>2, <1>3, OwnInit, LiveInit, LeaveInit, LeaveInvLeavesNothing, PTL DEF Spec
=============================================================================
