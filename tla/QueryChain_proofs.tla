-------------------------- MODULE QueryChain_proofs --------------------------
(***************************************************************************)
(* Proofs about the chain engine, for every chain length, every bound on   *)
(* the elements and every set of events: that it keeps to its types, that  *)
(* its iterators describe one position in the data, and that it delivers   *)
(* what QueryEnumeration promises.                                         *)
(***************************************************************************)
EXTENDS QueryChain, TLAPS

(***************************************************************************)
(* Lemmas about the naming of data.                                        *)
(***************************************************************************)

(* The root datum of event e. *)
Root(e) == [j \in 0..N |-> IF j = 0 THEN e ELSE 0]

(* The root datum of an event is an owner the first link accepts. *)
LEMMA RootIsOwner ==
  ASSUME NEW e \in Events
  PROVE  Root(e) \in Owner(1)
<1>. USE NAssumption, MaxFanAssumption DEF Root
<1>1. Root(e) \in [0..N -> Events \cup 0..MaxFan]
  OBVIOUS
<1>2. Root(e)[0] = e
  OBVIOUS
<1>3. \A i \in 1..N : Root(e)[i] = 0
  OBVIOUS
<1>. HIDE DEF Root
<1>4. \A i \in 1..N : Root(e)[i] \in 0..MaxFan
  BY <1>3
<1>5. Root(e) \in Path
  BY <1>1, <1>2, <1>4 DEF Path, Link
<1>. QED  BY <1>3, <1>5 DEF Owner

(* An element found on an owner of link i is a path, and an owner of the   *)
(* next link.                                                              *)
LEMMA ElementIsOwner ==
  ASSUME NEW i \in Link, NEW d \in Owner(i), NEW k \in 1..MaxFan
  PROVE  /\ Element(i, d, k) \in Path
         /\ i # N => /\ i + 1 \in Link
                     /\ Element(i, d, k) \in Owner(i + 1)
<1>. USE NAssumption, MaxFanAssumption DEF Link
<1>. DEFINE f == Element(i, d, k)
<1>1. d \in Path
  BY DEF Owner
<1>2. d \in [0..N -> Events \cup 0..MaxFan] /\ d[0] \in Events
  BY <1>1 DEF Path
<1>3. \A j \in 1..N : d[j] \in 0..MaxFan
  BY <1>1 DEF Path
<1>4. \A j \in 1..(i - 1) : d[j] # 0
  BY DEF Owner
<1>5. \A j \in i..N : d[j] = 0
  BY DEF Owner
<1>6. f \in [0..N -> Events \cup 0..MaxFan]
  BY <1>2 DEF Element
<1>7. \A j \in 0..N : f[j] = IF j = i THEN k ELSE d[j]
  BY <1>2 DEF Element
<1>. HIDE DEF f
<1>8. f[0] \in Events
  BY <1>2, <1>7
<1>9. \A j \in 1..N : f[j] \in 0..MaxFan
  BY <1>3, <1>7
<1>10. f \in Path
  BY <1>6, <1>8, <1>9 DEF Path
<1>11. \A j \in 1..i : f[j] # 0
  BY <1>4, <1>7
<1>12. \A j \in (i + 1)..N : f[j] = 0
  BY <1>5, <1>7
<1>13. ASSUME i # N
       PROVE  i + 1 \in Link /\ f \in Owner(i + 1)
  <2>1. i + 1 \in Link
    BY <1>13
  <2>2. (i + 1) - 1 = i
    OBVIOUS
  <2>. QED  BY <2>1, <2>2, <1>10, <1>11, <1>12 DEF Owner
<1>. QED  BY <1>10, <1>13 DEF f

(* Every owner is a datum whose number of elements is recorded. *)
LEMMA OwnerIsInner ==
  ASSUME NEW i \in Link, NEW d \in Owner(i)
  PROVE  d \in Inner /\ d \in Path
  BY DEF Inner, Owner

(* NULL is no datum. *)
LEMMA NULLIsNoPath == NULL \notin Path /\ NULL \notin Inner
<1>1. NULL \notin Path
  BY NULLAssumption DEF Path
<1>2. Inner \subseteq Path
  BY DEF Inner, Owner
<1>. QED  BY <1>1, <1>2
-----------------------------------------------------------------------------
(***************************************************************************)
(* What the steps of one link do to the types.                             *)
(***************************************************************************)

(* Resetting a link on an owner of it keeps the iterators well typed. *)
LEMMA ResetLinkEffect ==
  ASSUME IterTypes, NEW i \in Link, NEW d \in Owner(i), ResetLink(i, d)
  PROVE  /\ IterTypes'
         /\ own'[i] = d
         /\ \A j \in Link \ {i} : own'[j] = own[j]
         /\ at'[i] = 1
         /\ \A j \in 0..N \ {i} : at'[j] = at[j]
<1>. USE NAssumption, MaxFanAssumption
<1>0. i \in 0..N /\ i # 0
  BY DEF Link
<1>1. own'[i] = d /\ \A j \in Link \ {i} : own'[j] = own[j]
  BY DEF ResetLink, IterTypes
<1>2. at'[i] = 1 /\ \A j \in 0..N \ {i} : at'[j] = at[j]
  BY <1>0 DEF ResetLink, IterTypes
<1>3. own' \in [Link -> Inner \cup {NULL}]
  BY OwnerIsInner DEF ResetLink, IterTypes
<1>4. \A j \in Link : own'[j] # NULL => own'[j] \in Owner(j)
  BY <1>1 DEF IterTypes
<1>5. at' \in [0..N -> Nat]
  BY <1>0 DEF ResetLink, IterTypes
<1>6. at'[0] \in Events \cup {0}
  BY <1>0, <1>2 DEF IterTypes
<1>7. \A j \in Link : at'[j] <= MaxFan + 1
  <2>1. ASSUME NEW j \in Link, j # i PROVE at'[j] <= MaxFan + 1
    <3>1. j \in 0..N \ {i}
      BY <2>1 DEF Link
    <3>. QED  BY <3>1, <1>2 DEF IterTypes
  <2>2. at'[i] <= MaxFan + 1
    BY <1>2
  <2>. QED  BY <2>1, <2>2
<1>. QED  BY <1>1, <1>2, <1>3, <1>4, <1>5, <1>6, <1>7 DEF IterTypes

(* Advancing a link whose iterator exists keeps the iterators well typed;  *)
(* an element that is found is a datum the next link accepts.              *)
LEMMA YieldLinkEffect ==
  ASSUME LinkTypes, IterTypes, NEW i \in Link, own[i] # NULL,
         YieldLink(i), own' = own
  PROVE  /\ IterTypes'
         /\ at'[i] = IF YieldFinds(i) THEN at[i] + 1 ELSE data[own[i]] + 1
         /\ \A j \in 0..N \ {i} : at'[j] = at[j]
         /\ YieldFinds(i) => /\ at[i] + 1 \in 1..data[own[i]]
                             /\ Yielded(i) \in Path
                             /\ i # N => Yielded(i) \in Owner(i + 1)
<1>. USE NAssumption, MaxFanAssumption
<1>0. i \in 0..N /\ i # 0
  BY DEF Link
<1>1. own[i] \in Owner(i) /\ own[i] \in Inner
  BY OwnerIsInner DEF IterTypes
<1>2. data[own[i]] \in 0..MaxFan /\ at[i] \in Nat
  BY <1>0, <1>1 DEF LinkTypes, IterTypes
<1>. DEFINE k == IF YieldFinds(i) THEN at[i] + 1 ELSE data[own[i]] + 1
<1>3. at' = [at EXCEPT ![i] = k]
  BY DEF YieldLink
<1>4. YieldFinds(i) => at[i] + 1 \in 1..data[own[i]]
  BY <1>2 DEF YieldFinds
<1>5. k \in 1..(MaxFan + 1)
  BY <1>2, <1>4
<1>. HIDE DEF k
<1>6. at'[i] = k /\ \A j \in 0..N \ {i} : at'[j] = at[j]
  BY <1>0, <1>3 DEF IterTypes
<1>7. at' \in [0..N -> Nat]
  BY <1>0, <1>3, <1>5 DEF IterTypes
<1>8. at'[0] \in Events \cup {0}
  BY <1>0, <1>6 DEF IterTypes
<1>9. \A j \in Link : at'[j] <= MaxFan + 1
  <2>1. ASSUME NEW j \in Link, j # i PROVE at'[j] <= MaxFan + 1
    <3>1. j \in 0..N \ {i}
      BY <2>1 DEF Link
    <3>. QED  BY <3>1, <1>6 DEF IterTypes
  <2>2. at'[i] <= MaxFan + 1
    BY <1>5, <1>6
  <2>. QED  BY <2>1, <2>2
<1>10. IterTypes'
  BY <1>7, <1>8, <1>9 DEF IterTypes
<1>11. YieldFinds(i) => at[i] + 1 \in 1..MaxFan
  BY <1>2, <1>4
<1>12. YieldFinds(i) => /\ Yielded(i) \in Path
                        /\ i # N => Yielded(i) \in Owner(i + 1)
  BY <1>1, <1>11, ElementIsOwner DEF Yielded
<1>. QED  BY <1>4, <1>6, <1>10, <1>12 DEF k

(* Setting the key cell of a link keeps the keys well typed. *)
LEMMA SetKeyEffect ==
  ASSUME KeyTypes, NEW i \in Link, NEW cell \in 0..N, NEW k \in 0..(MaxFan + 1),
         SetKey(i, cell, k)
  PROVE  key' \in [Link -> 0..(MaxFan + 1)]
  BY DEF SetKey, KeyTypes
-----------------------------------------------------------------------------
(***************************************************************************)
(* Type correctness, with what the locals of a running call are good for.  *)
(***************************************************************************)
(* It holds before the first call. *)
LEMMA TypeInvInit == Init => TypeInv
<1>. SUFFICES ASSUME Init PROVE TypeInv
  OBVIOUS
<1>. USE NAssumption, MaxFanAssumption
<1>1. LinkTypes
  BY DEF Init, LinkTypes
<1>2. IterTypes
  BY DEF Init, IterTypes, Link
<1>3. KeyTypes
  <2>1. key \in [Link -> 0..(MaxFan + 1)] /\ ck \in 0..N
    BY DEF Init
  <2>2. keyed \in BOOLEAN
    BY DEF Init
  <2>. QED  BY <2>1, <2>2 DEF KeyTypes
<1>4. CallTypes
  <2>1. pc \in Loops /\ pc = "idle" /\ cq \in 0..N
    BY DEF Init, Loops
  <2>2. r \in Path \cup {NULL} /\ out \in Path \cup {NULL} /\ live \in BOOLEAN
    BY DEF Init
  <2>. QED  BY <2>1, <2>2 DEF CallTypes
<1>5. Locals /\ KeysInStep
  BY DEF Init, Locals, KeysInStep
<1>. QED  BY <1>1, <1>2, <1>3, <1>4, <1>5 DEF TypeInv, TypeOK

(* Starting on an event keeps it. *)
LEMMA TypeInvCallReset ==
  ASSUME TypeInv, NEW e \in Events, NEW withKey \in BOOLEAN, CallReset(e, withKey)
  PROVE  TypeInv'
<1>. USE NAssumption, MaxFanAssumption, EventsAssumption DEF TypeInv, TypeOK, CallReset
<1>1. LinkTypes'
  BY DEF LinkTypes, links
<1>2. IterTypes'
  <2>1. at' \in [0..N -> Nat] /\ at'[0] = e /\ \A i \in Link : at'[i] = at[i]
    BY DEF IterTypes, Link
  <2>. QED  BY <2>1 DEF IterTypes
<1>3. KeyTypes'
  BY DEF KeyTypes
<1>4. r' = Root(e) /\ r' \in Owner(1)
  BY RootIsOwner DEF Root
<1>5. r' \in Path
  BY <1>4 DEF Owner
<1>6. CallTypes'
  <2>1. pc' \in Loops /\ cq' \in 0..N /\ cq' \in Link
    BY DEF Loops, Link
  <2>2. out' \in Path \cup {NULL} /\ live' \in BOOLEAN
    OBVIOUS
  <2>. QED  BY <1>5, <2>1, <2>2 DEF CallTypes
<1>7. Locals'
  BY <1>4 DEF Locals
<1>8. KeysInStep'
  BY DEF KeysInStep
<1>. QED  BY <1>1, <1>2, <1>3, <1>6, <1>7, <1>8

(* Resetting the link at hand, common to the two descending loops. *)
LEMMA TypeInvDescend ==
  ASSUME TypeInv, ResetDescend \/ GetDescend
  PROVE  TypeInv'
<1>. USE NAssumption, MaxFanAssumption DEF TypeInv, TypeOK
<1>. DEFINE Desc == pc \in {"resetDescend", "getDescend"}
<1>1. /\ pc \in {"resetDescend", "getDescend"}
      /\ cq \in Link
      /\ r \in Owner(cq)
      /\ ResetLink(cq, r)
  BY DEF ResetDescend, GetDescend, Locals, CallTypes
<1>2. UNCHANGED <<kind, data, keyed>>
  BY DEF ResetDescend, GetDescend, links
<1>3. LinkTypes'
  BY <1>2 DEF LinkTypes
<1>4. /\ IterTypes'
      /\ own'[cq] = r
      /\ \A j \in Link \ {cq} : own'[j] = own[j]
  BY <1>1, ResetLinkEffect
<1>5. r \in Path /\ r # NULL /\ data[r] \in 0..MaxFan
  BY <1>1, OwnerIsInner, NULLIsNoPath DEF LinkTypes
<1>6. ck \in 0..N /\ ck = IF keyed THEN cq ELSE 0
  BY <1>1 DEF KeyTypes, KeysInStep
<1>7. \A i \in Link : own[i] # NULL => own'[i] # NULL
  BY <1>4, <1>5
<1>8. CASE /\ ResetFinds(r)
           /\ SetKey(cq, ck, 1)
           /\ cq = N
           /\ pc' = "idle" /\ cq' = 0 /\ ck' = 0 /\ r' = NULL
           /\ out' = Element(cq, r, 1)
           /\ IF pc = "resetDescend" THEN live' = TRUE ELSE live' = live
  <2>1. Element(cq, r, 1) \in Path
    BY <1>1, <1>5, <1>8, ElementIsOwner DEF ResetFinds
  <2>2. key' \in [Link -> 0..(MaxFan + 1)]
    BY <1>1, <1>6, <1>8, SetKeyEffect
  <2>3. KeyTypes'
    BY <1>2, <1>8, <2>2 DEF KeyTypes
  <2>4. CallTypes'
    <3>1. pc' \in Loops /\ pc' = "idle" /\ cq' \in 0..N
      BY <1>8 DEF Loops
    <3>2. live' \in BOOLEAN
      BY <1>8 DEF CallTypes
    <3>. QED  BY <1>8, <2>1, <3>1, <3>2 DEF CallTypes
  <2>5. live' => \A i \in Link : own'[i] # NULL
    <3>1. CASE pc = "resetDescend"
      <4>1. \A i \in 1..(cq - 1) : own[i] # NULL
        BY <3>1 DEF Locals
      <4>2. \A i \in Link : i # cq => own'[i] # NULL
        BY <1>7, <1>8, <4>1 DEF Link
      <4>. QED  BY <1>4, <1>5, <4>2
    <3>2. CASE pc # "resetDescend"
      BY <1>1, <1>7, <1>8, <3>2 DEF Locals
    <3>. QED  BY <3>1, <3>2
  <2>6. Locals'
    BY <1>8, <2>5 DEF Locals
  <2>7. KeysInStep'
    BY <1>8 DEF KeysInStep
  <2>. QED  BY <1>3, <1>4, <2>3, <2>4, <2>6, <2>7
<1>9. CASE /\ ResetFinds(r)
           /\ SetKey(cq, ck, 1)
           /\ cq # N
           /\ cq' = cq + 1 /\ ck' = KeysNext
           /\ r' = Element(cq, r, 1)
           /\ UNCHANGED <<pc, out, live>>
  <2>1. cq + 1 \in Link /\ r' \in Path /\ r' \in Owner(cq')
    BY <1>1, <1>5, <1>9, ElementIsOwner DEF ResetFinds
  <2>2. key' \in [Link -> 0..(MaxFan + 1)]
    BY <1>1, <1>6, <1>9, SetKeyEffect
  <2>3. ck' = (IF keyed' THEN cq' ELSE 0) /\ ck' \in 0..N
    BY <1>1, <1>2, <1>6, <1>9, <2>1 DEF KeysNext, Link
  <2>4. KeyTypes'
    BY <1>2, <2>2, <2>3 DEF KeyTypes
  <2>5. CallTypes'
    BY <1>9, <2>1 DEF CallTypes, Loops, Link
  <2>6. pc = "resetDescend" => \A i \in 1..(cq' - 1) : own'[i] # NULL
    <3>1. ASSUME pc = "resetDescend", NEW i \in 1..(cq' - 1)
          PROVE  own'[i] # NULL
      <4>1. i \in Link /\ (i = cq \/ i \in 1..(cq - 1))
        BY <1>1, <1>9 DEF Link
      <4>. QED  BY <1>4, <1>5, <1>7, <3>1, <4>1 DEF Locals
    <3>. QED  BY <3>1
  <2>7. Locals'
    BY <1>1, <1>7, <1>9, <2>1, <2>6 DEF Locals
  <2>8. KeysInStep'
    BY <1>1, <1>9, <2>3 DEF KeysInStep
  <2>. QED  BY <1>3, <1>4, <2>4, <2>5, <2>7, <2>8
<1>10. CASE /\ pc' = (IF pc = "resetDescend" THEN "resetClimb" ELSE "getYield")
            /\ r' = NULL
            /\ UNCHANGED <<cq, ck, key, out, live>>
  <2>1. KeyTypes'
    BY <1>2, <1>10 DEF KeyTypes
  <2>2. CallTypes'
    BY <1>1, <1>10 DEF CallTypes, Loops
  <2>3. \A i \in 1..(cq - 1) : i \in Link
    BY <1>1 DEF Link
  <2>4. Locals'
    BY <1>1, <1>7, <1>10, <2>3 DEF Locals
  <2>5. KeysInStep'
    BY <1>1, <1>2, <1>10 DEF KeysInStep
  <2>. QED  BY <1>3, <1>4, <2>1, <2>2, <2>4, <2>5
<1>11. CASE ResetDescend
  BY <1>8, <1>9, <1>10, <1>11 DEF ResetDescend, Return
<1>12. CASE GetDescend
  BY <1>8, <1>9, <1>10, <1>12 DEF GetDescend, Return
<1>. QED  BY <1>11, <1>12

(* Climbing to the parent of an empty link keeps it. *)
LEMMA TypeInvResetClimb ==
  ASSUME TypeInv, ResetClimb
  PROVE  TypeInv'
<1>. USE NAssumption, MaxFanAssumption DEF TypeInv, TypeOK
<1>1. pc = "resetClimb" /\ cq \in Link /\ UNCHANGED <<kind, data, own, keyed, live>>
  BY DEF ResetClimb, CallTypes, links
<1>2. LinkTypes'
  BY <1>1 DEF LinkTypes
<1>3. CASE cq = 1
  <2>1. UNCHANGED <<at, key>> /\ Return(NULL)
    BY <1>3 DEF ResetClimb
  <2>2. IterTypes'
    BY <1>1, <2>1 DEF IterTypes
  <2>3. KeyTypes'
    BY <1>1, <2>1 DEF KeyTypes, Return
  <2>4. CallTypes'
    BY <1>1, <2>1 DEF CallTypes, Loops, Return
  <2>5. Locals' /\ KeysInStep'
    BY <1>1, <2>1 DEF Locals, KeysInStep, Return
  <2>. QED  BY <1>2, <2>2, <2>3, <2>4, <2>5
<1>4. CASE cq # 1
  <2>. DEFINE p == cq - 1
  <2>1. p \in Link /\ p # N /\ p + 1 = cq
    BY <1>1, <1>4 DEF Link
  <2>2. own[p] # NULL
    BY <1>1, <1>4 DEF Locals, Link
  <2>3. YieldLink(p) /\ out' = out
    BY <1>4 DEF ResetClimb
  <2>4. /\ IterTypes'
        /\ YieldFinds(p) => /\ at[p] + 1 \in 1..data[own[p]]
                            /\ Yielded(p) \in Path
                            /\ Yielded(p) \in Owner(cq)
    BY <1>1, <2>1, <2>2, <2>3, YieldLinkEffect
  <2>5. ck = (IF keyed THEN cq ELSE 0) /\ KeysPrev = (IF keyed THEN p ELSE 0)
    BY <1>1, <1>4 DEF KeysInStep, KeysPrev, Link
  <2>6. own[p] \in Inner /\ data[own[p]] \in 0..MaxFan
    BY <2>1, <2>2, OwnerIsInner DEF IterTypes, LinkTypes
  <2>7. CASE /\ YieldFinds(p)
             /\ SetKey(p, KeysPrev, at[p] + 1)
             /\ r' = Yielded(p)
             /\ pc' = "resetDescend"
             /\ UNCHANGED <<cq, ck>>
    <3>1. at[p] + 1 \in 0..(MaxFan + 1) /\ KeysPrev \in 0..N
      BY <2>1, <2>4, <2>5, <2>6, <2>7 DEF Link
    <3>2. key' \in [Link -> 0..(MaxFan + 1)]
      BY <2>1, <2>7, <3>1, SetKeyEffect
    <3>3. KeyTypes'
      BY <1>1, <2>7, <3>2 DEF KeyTypes
    <3>4. CallTypes'
      BY <1>1, <2>3, <2>4, <2>7 DEF CallTypes, Loops
    <3>5. Locals'
      BY <1>1, <2>4, <2>7 DEF Locals
    <3>6. KeysInStep'
      BY <1>1, <2>5, <2>7 DEF KeysInStep
    <3>. QED  BY <1>2, <2>4, <3>3, <3>4, <3>5, <3>6
  <2>8. CASE cq' = p /\ ck' = KeysPrev /\ UNCHANGED <<key, r, pc>>
    <3>1. ck' \in 0..N
      BY <2>1, <2>5, <2>8 DEF Link
    <3>2. KeyTypes'
      BY <1>1, <2>8, <3>1 DEF KeyTypes
    <3>3. cq' \in 0..N /\ cq' \in Link
      BY <2>1, <2>8 DEF Link
    <3>4. CallTypes'
      BY <1>1, <2>3, <2>8, <3>3 DEF CallTypes
    <3>5. \A i \in 1..(p - 1) : i \in 1..(cq - 1)
      BY <1>1 DEF Link
    <3>6. Locals'
      BY <1>1, <2>8, <3>5 DEF Locals
    <3>7. KeysInStep'
      BY <1>1, <2>5, <2>8 DEF KeysInStep
    <3>. QED  BY <1>2, <2>4, <3>2, <3>4, <3>6, <3>7
  <2>. QED  BY <1>4, <2>7, <2>8 DEF ResetClimb
<1>. QED  BY <1>3, <1>4

(* Asking for the next result keeps it. *)
LEMMA TypeInvCallGet ==
  ASSUME TypeInv, CallGet
  PROVE  TypeInv'
<1>. USE NAssumption DEF TypeInv, TypeOK, CallGet
<1>1. LinkTypes' /\ IterTypes'
  BY DEF LinkTypes, IterTypes, links
<1>2. KeyTypes'
  BY DEF KeyTypes
<1>3. CallTypes'
  BY DEF CallTypes, Loops, Link
<1>4. Locals' /\ KeysInStep'
  BY DEF Locals, KeysInStep
<1>. QED  BY <1>1, <1>2, <1>3, <1>4

(* Backtracking keeps it. *)
LEMMA TypeInvGetYield ==
  ASSUME TypeInv, GetYield
  PROVE  TypeInv'
<1>. USE NAssumption, MaxFanAssumption DEF TypeInv, TypeOK
<1>1. /\ pc = "getYield" /\ cq \in Link /\ live
      /\ YieldLink(cq)
      /\ UNCHANGED <<kind, data, own, keyed, live>>
  BY DEF GetYield, CallTypes, Locals, links
<1>2. LinkTypes'
  BY <1>1 DEF LinkTypes
<1>3. \A i \in Link : own[i] # NULL /\ own'[i] # NULL
  BY <1>1 DEF Locals
<1>4. /\ IterTypes'
      /\ YieldFinds(cq) => /\ at[cq] + 1 \in 1..data[own[cq]]
                           /\ Yielded(cq) \in Path
                           /\ cq # N => Yielded(cq) \in Owner(cq + 1)
  BY <1>1, <1>3, YieldLinkEffect
<1>5. ck = (IF keyed THEN cq ELSE 0) /\ ck \in 0..N
  BY <1>1 DEF KeysInStep, KeyTypes
<1>6. own[cq] \in Inner /\ data[own[cq]] \in 0..MaxFan
  BY <1>1, <1>3, OwnerIsInner DEF IterTypes, LinkTypes
<1>7. CASE YieldFinds(cq) /\ SetKey(cq, ck, at[cq] + 1)
  <2>1. at[cq] + 1 \in 0..(MaxFan + 1)
    BY <1>4, <1>6, <1>7
  <2>2. key' \in [Link -> 0..(MaxFan + 1)]
    BY <1>1, <1>5, <1>7, <2>1, SetKeyEffect
  <2>3. CASE cq = N
    <3>1. Return(Yielded(cq))
      BY <1>7, <2>3 DEF GetYield
    <3>2. KeyTypes'
      BY <1>1, <2>2, <3>1 DEF KeyTypes, Return
    <3>3. CallTypes'
      BY <1>1, <1>4, <1>7, <3>1 DEF CallTypes, Loops, Return
    <3>4. Locals' /\ KeysInStep'
      BY <1>1, <1>3, <3>1 DEF Locals, KeysInStep, Return
    <3>. QED  BY <1>2, <1>4, <3>2, <3>3, <3>4
  <2>4. CASE cq # N
    <3>1. /\ pc' = "getDescend" /\ r' = Yielded(cq)
          /\ cq' = cq + 1 /\ ck' = KeysNext
          /\ UNCHANGED out
      BY <1>7, <2>4 DEF GetYield
    <3>2. cq' \in Link /\ cq' \in 0..N
      BY <1>1, <2>4, <3>1 DEF Link
    <3>3. ck' = (IF keyed' THEN cq' ELSE 0) /\ ck' \in 0..N
      BY <1>1, <1>5, <3>1, <3>2 DEF KeysNext, Link
    <3>4. KeyTypes'
      BY <1>1, <2>2, <3>3 DEF KeyTypes
    <3>5. CallTypes'
      BY <1>1, <1>4, <1>7, <3>1, <3>2 DEF CallTypes, Loops
    <3>6. Locals'
      BY <1>1, <1>3, <1>4, <1>7, <2>4, <3>1 DEF Locals
    <3>7. KeysInStep'
      BY <3>1, <3>3 DEF KeysInStep
    <3>. QED  BY <1>2, <1>4, <3>4, <3>5, <3>6, <3>7
  <2>. QED  BY <2>3, <2>4
<1>8. CASE ~YieldFinds(cq)
  <2>1. key' = key
    BY <1>8 DEF GetYield
  <2>2. CASE cq = 1
    <3>1. Return(NULL)
      BY <1>8, <2>2 DEF GetYield
    <3>2. KeyTypes'
      BY <1>1, <2>1, <3>1 DEF KeyTypes, Return
    <3>3. CallTypes'
      BY <1>1, <3>1 DEF CallTypes, Loops, Return
    <3>4. Locals' /\ KeysInStep'
      BY <1>1, <1>3, <3>1 DEF Locals, KeysInStep, Return
    <3>. QED  BY <1>2, <1>4, <3>2, <3>3, <3>4
  <2>3. CASE cq # 1
    <3>1. cq' = cq - 1 /\ ck' = KeysPrev /\ UNCHANGED <<pc, r, out>>
      BY <1>8, <2>3 DEF GetYield
    <3>2. cq' \in Link /\ cq' \in 0..N
      BY <1>1, <2>3, <3>1 DEF Link
    <3>3. ck' = (IF keyed' THEN cq' ELSE 0) /\ ck' \in 0..N
      BY <1>1, <1>5, <3>1, <3>2 DEF KeysPrev, Link
    <3>4. KeyTypes'
      BY <1>1, <2>1, <3>3 DEF KeyTypes
    <3>5. CallTypes'
      BY <1>1, <3>1, <3>2 DEF CallTypes
    <3>6. Locals'
      BY <1>1, <1>3, <3>1 DEF Locals
    <3>7. KeysInStep'
      BY <1>1, <3>1, <3>3 DEF KeysInStep
    <3>. QED  BY <1>2, <1>4, <3>4, <3>5, <3>6, <3>7
  <2>. QED  BY <2>2, <2>3
<1>. QED  BY <1>7, <1>8 DEF GetYield

(* In every state the program can reach, the state of the links, of the    *)
(* key list and of the running call is well formed: the datum at hand is   *)
(* one the link at hand accepts, every link that is asked to yield has an  *)
(* iterator, and the key cell at hand is that of the link at hand.         *)
THEOREM TypeCorrect == Spec => []TypeInv
<1>1. Init => TypeInv
  BY TypeInvInit
<1>2. TypeInv /\ [Next]_vars => TypeInv'
  <2>. SUFFICES ASSUME TypeInv, [Next]_vars PROVE TypeInv'
    OBVIOUS
  <2>1. ASSUME NEW e \in Events, NEW withKey \in BOOLEAN, CallReset(e, withKey)
        PROVE  TypeInv'
    BY <2>1, TypeInvCallReset
  <2>2. CASE CallGet
    BY <2>2, TypeInvCallGet
  <2>3. CASE ResetDescend \/ GetDescend
    BY <2>3, TypeInvDescend
  <2>4. CASE ResetClimb
    BY <2>4, TypeInvResetClimb
  <2>5. CASE GetYield
    BY <2>5, TypeInvGetYield
  <2>6. CASE UNCHANGED vars
    BY <2>6 DEF vars, TypeInv, TypeOK, LinkTypes, IterTypes, KeyTypes, CallTypes,
                Locals, KeysInStep
  <2>. QED  BY <2>1, <2>2, <2>3, <2>4, <2>5, <2>6 DEF Next, Step
<1>. QED  BY <1>1, <1>2, PTL DEF Spec

(* Its three parts, as the runs check them. *)
THEOREM TypesCorrect == Spec => []TypeOK
<1>1. TypeInv => TypeOK
  BY DEF TypeInv
<1>. QED  BY <1>1, TypeCorrect, PTL

(* A running call only uses data and iterators that are there. *)
THEOREM LocalsCorrect == Spec => []Locals
<1>1. TypeInv => Locals
  BY DEF TypeInv
<1>. QED  BY <1>1, TypeCorrect, PTL

(* The walk over the caller's key list never lags behind the links and     *)
(* never leaves the list.                                                  *)
THEOREM KeysStayInStep == Spec => []KeysInStep
<1>1. TypeInv => KeysInStep
  BY DEF TypeInv
<1>. QED  BY <1>1, TypeCorrect, PTL

-----------------------------------------------------------------------------
(***************************************************************************)
(* Proof that the iterators of the chain engine always describe one        *)
(* position in the data, and what follows for the keys the client reads    *)
(* and for the owners on which links are asked to yield.                   *)
(***************************************************************************)

(***************************************************************************)
(* Lemmas about prefixes.                                                  *)
(***************************************************************************)

(* A prefix depends on the choices it keeps only. *)
LEMMA PrefixLocal ==
  ASSUME NEW p, NEW q, NEW k \in 0..N, \A j \in 0..k : p[j] = q[j]
  PROVE  Prefix(p, k) = Prefix(q, k)
<1>1. \A j \in 0..N : j <= k => j \in 0..k
  BY NAssumption
<1>. QED  BY <1>1 DEF Prefix

(* One more choice makes the next prefix. *)
LEMMA PrefixStep ==
  ASSUME NEW p, NEW i \in Link
  PROVE  Element(i, Prefix(p, i - 1), p[i]) = Prefix(p, i)
<1>. DEFINE f == Prefix(p, i - 1)
            g == Element(i, f, p[i])
<1>1. f = [j \in 0..N |-> IF j <= i - 1 THEN p[j] ELSE 0]
  BY DEF Prefix
<1>2. g = [j \in 0..N |-> IF j = i THEN p[i] ELSE f[j]]
  BY <1>1 DEF Element
<1>3. \A j \in 0..N : g[j] = IF j <= i THEN p[j] ELSE 0
  <2>. SUFFICES ASSUME NEW j \in 0..N PROVE g[j] = IF j <= i THEN p[j] ELSE 0
    OBVIOUS
  <2>1. g[j] = IF j = i THEN p[i] ELSE IF j <= i - 1 THEN p[j] ELSE 0
    BY <1>1, <1>2
  <2>2. j \in Nat /\ i \in Nat /\ (j <= i <=> j = i \/ j <= i - 1)
    BY NAssumption DEF Link
  <2>. QED  BY <2>1, <2>2
<1>. HIDE DEF f
<1>4. g = [j \in 0..N |-> IF j <= i THEN p[j] ELSE 0]
  BY <1>2, <1>3
<1>. QED  BY <1>4 DEF g, f, Prefix

(* The prefix of no choice is the root datum of the event. *)
LEMMA PrefixRoot ==
  ASSUME NEW p
  PROVE  Prefix(p, 0) = Root(p[0])
<1>1. \A j \in 0..N : (j <= 0) <=> (j = 0)
  BY NAssumption
<1>. QED  BY <1>1 DEF Prefix, Root
-----------------------------------------------------------------------------
(***************************************************************************)
(* What the steps of one link do to the position.                          *)
(***************************************************************************)

(* A step that leaves the links and key cells up to k alone leaves the     *)
(* position they describe.                                                 *)
LEMMA PositionKept ==
  ASSUME NEW k \in 0..N, Position(k),
         UNCHANGED <<kind, data, keyed>>, at'[0] = at[0],
         \A i \in 1..k : own'[i] = own[i] /\ at'[i] = at[i] /\ key'[i] = key[i]
  PROVE  Position(k)'
<1>1. \A i \in 1..k : Prefix(at', i - 1) = Prefix(at, i - 1)
  <2>. SUFFICES ASSUME NEW i \in 1..k
                PROVE  Prefix(at', i - 1) = Prefix(at, i - 1)
    OBVIOUS
  <2>1. i - 1 \in 0..N /\ \A j \in 0..(i - 1) : j = 0 \/ j \in 1..k
    BY NAssumption
  <2>2. \A j \in 0..(i - 1) : at'[j] = at[j]
    BY <2>1
  <2>. QED  BY <2>1, <2>2, PrefixLocal
<1>2. Synced(k)'
  BY <1>1 DEF Position, Synced
<1>3. Standing(k)'
  BY <1>1 DEF Position, Standing
<1>4. KeyAt(k)'
  BY DEF Position, KeyAt
<1>. QED  BY <1>2, <1>3, <1>4 DEF Position

(* The position grows by link i when link i comes to stand on an element   *)
(* of the datum its parent is at and its key cell follows it.              *)
LEMMA PositionGrows ==
  ASSUME NEW i \in Link, Position(i - 1)',
         own'[i] = Prefix(at', i - 1),
         at'[i] \in 1..data'[own'[i]],
         (keyed /\ kind[i] = "collection" => key[i] = at[i])'
  PROVE  Position(i)'
<1>1. \A j \in 1..i : j = i \/ j \in 1..(i - 1)
  BY DEF Link
<1>2. Synced(i)'
  BY <1>1 DEF Position, Synced
<1>3. Standing(i)'
  BY <1>1 DEF Position, Standing
<1>4. KeyAt(i)'
  BY <1>1 DEF Position, KeyAt
<1>. QED  BY <1>2, <1>3, <1>4 DEF Position

(* A part of a position is a position. *)
LEMMA PositionShrinks ==
  ASSUME NEW k \in Nat, NEW l \in 0..k, Position(k)
  PROVE  Position(l)
<1>1. 1..l \subseteq 1..k
  OBVIOUS
<1>. QED  BY <1>1 DEF Position, Synced, Standing, KeyAt

(* Resetting link i on the datum that its parent is at, when something is  *)
(* found: link i joins the position and the datum it found is the prefix.  *)
LEMMA PositionReset ==
  ASSUME IterTypes, KeyTypes, NEW i \in Link, NEW d \in Owner(i), NEW cell,
         Position(i - 1), d = Prefix(at, i - 1), ResetLink(i, d),
         ResetFinds(d), data[d] \in Nat, SetKey(i, cell, 1),
         keyed => cell = i, UNCHANGED <<kind, data, keyed>>
  PROVE  Position(i)' /\ Element(i, d, 1) = Prefix(at', i) /\ at'[0] = at[0]
<1>1. /\ own'[i] = d
      /\ \A j \in Link \ {i} : own'[j] = own[j]
      /\ at'[i] = 1
      /\ \A j \in 0..N \ {i} : at'[j] = at[j]
  BY ResetLinkEffect
<1>2. i - 1 \in 0..N /\ at'[0] = at[0]
  BY <1>1, NAssumption DEF Link
<1>3. \A j \in 1..(i - 1) : own'[j] = own[j] /\ at'[j] = at[j] /\ key'[j] = key[j]
  <2>. SUFFICES ASSUME NEW j \in 1..(i - 1)
                PROVE  own'[j] = own[j] /\ at'[j] = at[j] /\ key'[j] = key[j]
    OBVIOUS
  <2>1. j \in Link /\ j # i /\ j \in 0..N
    BY NAssumption DEF Link
  <2>2. key'[j] = key[j]
    BY <2>1 DEF SetKey, KeyTypes
  <2>. QED  BY <1>1, <2>1, <2>2
<1>4. Position(i - 1)'
  BY <1>2, <1>3, PositionKept
<1>5. \A j \in 0..(i - 1) : at'[j] = at[j]
  <2>1. \A j \in 0..(i - 1) : j \in 0..N \ {i}
    BY NAssumption DEF Link
  <2>. QED  BY <1>1, <2>1
<1>6. Prefix(at', i - 1) = d
  BY <1>2, <1>5, PrefixLocal
<1>7. (keyed /\ kind[i] = "collection" => key[i] = at[i])'
  BY <1>1 DEF SetKey, KeyTypes
<1>8. at'[i] \in 1..data'[own'[i]]
  BY <1>1 DEF ResetFinds
<1>9. Position(i)'
  BY <1>1, <1>4, <1>6, <1>7, <1>8, PositionGrows
<1>10. Element(i, Prefix(at', i - 1), at'[i]) = Prefix(at', i)
  BY PrefixStep
<1>. QED  BY <1>1, <1>2, <1>6, <1>9, <1>10

(* Resetting link i, when nothing is found, leaves the links above it.     *)
LEMMA PositionResetEmpty ==
  ASSUME IterTypes, NEW i \in Link, NEW d \in Owner(i),
         Position(i - 1), d = Prefix(at, i - 1), ResetLink(i, d),
         UNCHANGED <<kind, data, keyed, key>>
  PROVE  /\ Position(i - 1)'
         /\ own'[i] = Prefix(at', i - 1)
         /\ at'[0] = at[0]
<1>1. /\ own'[i] = d
      /\ \A j \in Link \ {i} : own'[j] = own[j]
      /\ \A j \in 0..N \ {i} : at'[j] = at[j]
  BY ResetLinkEffect
<1>2. i - 1 \in 0..N /\ at'[0] = at[0]
  BY <1>1, NAssumption DEF Link
<1>3. \A j \in 1..(i - 1) : j \in Link \ {i} /\ j \in 0..N \ {i}
  BY NAssumption DEF Link
<1>4. Position(i - 1)'
  BY <1>1, <1>2, <1>3, PositionKept
<1>5. \A j \in 0..(i - 1) : at'[j] = at[j]
  <2>1. \A j \in 0..(i - 1) : j \in 0..N \ {i}
    BY NAssumption DEF Link
  <2>. QED  BY <1>1, <2>1
<1>6. Prefix(at', i - 1) = d
  BY <1>2, <1>5, PrefixLocal
<1>. QED  BY <1>1, <1>2, <1>4, <1>6

(* Advancing link i on the datum that its parent is at leaves the links    *)
(* above it, and when it finds an element it joins the position.           *)
LEMMA PositionYield ==
  ASSUME LinkTypes, IterTypes, KeyTypes, NEW i \in Link, own[i] # NULL,
         NEW cell, Position(i - 1), own[i] = Prefix(at, i - 1),
         YieldLink(i), keyed => cell = i,
         YieldFinds(i) => SetKey(i, cell, at[i] + 1),
         ~YieldFinds(i) => key' = key,
         UNCHANGED <<kind, data, keyed, own>>
  PROVE  /\ Position(i - 1)'
         /\ own'[i] = Prefix(at', i - 1)
         /\ at'[0] = at[0]
         /\ YieldFinds(i) => Position(i)' /\ Yielded(i) = Prefix(at', i)
         /\ ~YieldFinds(i) => at'[i] = data[own[i]] + 1
<1>1. /\ at'[i] = IF YieldFinds(i) THEN at[i] + 1 ELSE data[own[i]] + 1
      /\ \A j \in 0..N \ {i} : at'[j] = at[j]
      /\ YieldFinds(i) => at[i] + 1 \in 1..data[own[i]]
  BY YieldLinkEffect
<1>2. i - 1 \in 0..N /\ at'[0] = at[0]
  BY <1>1, NAssumption DEF Link
<1>3. \A j \in 1..(i - 1) : at'[j] = at[j] /\ key'[j] = key[j]
  <2>. SUFFICES ASSUME NEW j \in 1..(i - 1)
                PROVE  at'[j] = at[j] /\ key'[j] = key[j]
    OBVIOUS
  <2>1. j \in Link /\ j # i /\ j \in 0..N
    BY NAssumption DEF Link
  <2>2. CASE YieldFinds(i)
    <3>1. key'[j] = key[j]
      BY <2>1, <2>2 DEF SetKey, KeyTypes
    <3>. QED  BY <1>1, <2>1, <3>1
  <2>3. CASE ~YieldFinds(i)
    BY <1>1, <2>1, <2>3
  <2>. QED  BY <2>2, <2>3
<1>4. Position(i - 1)'
  BY <1>2, <1>3, PositionKept
<1>5. \A j \in 0..(i - 1) : at'[j] = at[j]
  <2>1. \A j \in 0..(i - 1) : j \in 0..N \ {i}
    BY NAssumption DEF Link
  <2>. QED  BY <1>1, <2>1
<1>6. Prefix(at', i - 1) = own[i]
  BY <1>2, <1>5, PrefixLocal
<1>7. ASSUME YieldFinds(i)
      PROVE  Position(i)' /\ Yielded(i) = Prefix(at', i)
  <2>1. at'[i] = at[i] + 1
    BY <1>1, <1>7
  <2>2. (keyed /\ kind[i] = "collection" => key[i] = at[i])'
    BY <1>7, <2>1 DEF SetKey, KeyTypes
  <2>3. at'[i] \in 1..data'[own'[i]]
    BY <1>1, <1>7, <2>1
  <2>4. Position(i)'
    BY <1>4, <1>6, <2>2, <2>3, PositionGrows
  <2>5. Element(i, Prefix(at', i - 1), at'[i]) = Prefix(at', i)
    BY PrefixStep
  <2>. QED  BY <1>6, <2>1, <2>4, <2>5 DEF Yielded
<1>. QED  BY <1>1, <1>2, <1>4, <1>6, <1>7
-----------------------------------------------------------------------------
(***************************************************************************)
(* The walk invariant.  A query that is being applied has no result yet.   *)
(***************************************************************************)
WalkInd == /\ WalkInv
           /\ pc \in {"resetDescend", "resetClimb"} => ~live

(* An invariant that holds and whose variables do not change still holds.  *)
LEMMA WalkStutter ==
  ASSUME WalkInd, UNCHANGED vars
  PROVE  WalkInd'
  BY DEF WalkInd, WalkInv, Position, Synced, Standing, KeyAt, Spent, Drained, vars

(* Before the first call nothing was walked. *)
LEMMA WalkInit == Init => WalkInd
  BY DEF Init, WalkInd, WalkInv

(* A new event starts a new walk, whatever the last one left behind. *)
LEMMA WalkCallReset ==
  ASSUME TypeInv, WalkInd, NEW e \in Events, NEW withKey \in BOOLEAN,
         CallReset(e, withKey)
  PROVE  WalkInd'
<1>. USE NAssumption DEF CallReset
<1>1. at'[0] = e
  BY DEF TypeInv, TypeOK, IterTypes
<1>2. r' = Root(e)
  BY DEF Root
<1>3. r' = Prefix(at', 0)
  BY <1>1, <1>2, PrefixRoot
<1>4. cq' - 1 = 0
  OBVIOUS
<1>5. Position(0)'
  BY DEF Position, Synced, Standing, KeyAt
<1>6. (Position(cq - 1) /\ r = Prefix(at, cq - 1))'
  BY <1>3, <1>4, <1>5
<1>7. pc' = "resetDescend" /\ out' = NULL /\ live' = FALSE
  OBVIOUS
<1>. QED  BY <1>1, <1>6, <1>7 DEF WalkInd, WalkInv

(* The step common to the two descending loops: what is reset is the link  *)
(* at hand, on the datum that its parent is at.                            *)
LEMMA WalkDescend ==
  ASSUME TypeInv, WalkInd, ResetDescend \/ GetDescend
  PROVE  WalkInd'
<1>. USE NAssumption
<1>0. cq \in Link
  BY DEF ResetDescend, GetDescend, TypeInv, TypeOK, CallTypes
<1>. PICK c \in Link : c = cq
  BY <1>0
<1>1. /\ pc \in {"resetDescend", "getDescend"}
      /\ r \in Owner(c)
      /\ ResetLink(c, r)
      /\ UNCHANGED <<kind, data, keyed>>
  BY DEF ResetDescend, GetDescend, TypeInv, TypeOK, Locals, CallTypes, links
<1>2. IterTypes /\ KeyTypes /\ LinkTypes /\ (keyed => ck = c)
  BY <1>1 DEF TypeInv, TypeOK, KeysInStep
<1>3. Position(c - 1) /\ r = Prefix(at, c - 1) /\ at[0] \in Events
  BY <1>1 DEF WalkInd, WalkInv
<1>4. r \in Inner /\ data[r] \in 0..MaxFan
  BY <1>1, <1>2, OwnerIsInner DEF LinkTypes
<1>5. ASSUME pc = "getDescend"
      PROVE  Spent(c + 1)'
  <2>1. Spent(c)
    BY <1>5 DEF WalkInd, WalkInv
  <2>2. \A j \in (c + 1)..N : j \in Link \ {c} /\ j \in 0..N \ {c} /\ j \in c..N
    BY DEF Link
  <2>3. \A j \in (c + 1)..N : own'[j] = own[j] /\ at'[j] = at[j]
    BY <1>1, <1>2, <2>2, ResetLinkEffect
  <2>. QED  BY <1>1, <2>1, <2>2, <2>3 DEF Spent
<1>6. ASSUME ResetFinds(r), SetKey(c, ck, 1)
      PROVE  /\ Position(c)'
             /\ Element(c, r, 1) = Prefix(at', c)
             /\ at'[0] = at[0]
  BY <1>1, <1>2, <1>3, <1>4, <1>6, MaxFanAssumption, PositionReset
<1>7. CASE /\ ResetFinds(r)
           /\ SetKey(c, ck, 1)
           /\ c = N
           /\ pc' = "idle" /\ out' = Element(c, r, 1)
           /\ live'
  <2>1. Position(N)' /\ out' = Prefix(at', N) /\ at'[0] \in Events
    BY <1>3, <1>6, <1>7
  <2>2. 1 \in 1..MaxFan
    BY <1>4, <1>7, MaxFanAssumption DEF ResetFinds
  <2>3. out' # NULL
    BY <1>1, <1>7, <2>2, ElementIsOwner, NULLIsNoPath
  <2>. QED  BY <1>7, <2>1, <2>3 DEF WalkInd, WalkInv
<1>8. CASE /\ ResetFinds(r)
           /\ SetKey(c, ck, 1)
           /\ cq' = c + 1
           /\ r' = Element(c, r, 1)
           /\ UNCHANGED <<pc, out, live>>
  <2>1. cq' - 1 = c
    BY <1>8 DEF Link
  <2>2. (Position(cq - 1) /\ r = Prefix(at, cq - 1) /\ at[0] \in Events)'
    BY <1>3, <1>6, <1>8, <2>1
  <2>3. pc = "getDescend" => Spent(cq)'
    BY <1>5, <1>8
  <2>. QED  BY <1>1, <1>8, <2>2, <2>3 DEF WalkInd, WalkInv
<1>9. CASE /\ pc' = (IF pc = "resetDescend" THEN "resetClimb" ELSE "getYield")
           /\ UNCHANGED <<cq, key, out, live>>
  <2>1. Position(c - 1)' /\ own'[c] = Prefix(at', c - 1) /\ at'[0] \in Events
    BY <1>1, <1>2, <1>3, <1>9, PositionResetEmpty
  <2>2. at'[c] >= 1
    BY <1>1, <1>2, ResetLinkEffect
  <2>3. pc = "getDescend" => Spent(c + 1)'
    BY <1>5
  <2>4. cq' = c
    BY <1>9
  <2>5. Position(cq - 1)' /\ (own[cq] = Prefix(at, cq - 1))' /\ (at[cq] >= 1)'
    BY <2>1, <2>2, <2>4
  <2>6. pc = "getDescend" => Spent(cq + 1)'
    BY <2>3, <2>4
  <2>. QED  BY <1>1, <1>9, <2>1, <2>5, <2>6 DEF WalkInd, WalkInv
<1>10. CASE ResetDescend
  BY <1>7, <1>8, <1>9, <1>10 DEF ResetDescend, Return
<1>11. CASE GetDescend
  <2>1. pc = "getDescend" /\ live
    BY <1>11 DEF GetDescend, TypeInv, Locals
  <2>. QED  BY <1>7, <1>8, <1>9, <1>11, <2>1 DEF GetDescend, Return
<1>. QED  BY <1>10, <1>11

(* Climbing: the parent of an empty link moves on, or is climbed over. *)
LEMMA WalkResetClimb ==
  ASSUME TypeInv, WalkInd, ResetClimb
  PROVE  WalkInd'
<1>. USE NAssumption
<1>1. /\ pc = "resetClimb" /\ cq \in Link /\ ~live
      /\ UNCHANGED <<kind, data, own, keyed, live>>
  BY DEF ResetClimb, TypeInv, TypeOK, CallTypes, links, WalkInd
<1>2. Position(cq - 1) /\ at[0] \in Events /\ out = NULL
  BY <1>1 DEF WalkInd, WalkInv
<1>3. CASE cq = 1
  BY <1>1, <1>2, <1>3 DEF ResetClimb, Return, WalkInd, WalkInv
<1>4. CASE cq # 1
  <2>1. cq - 1 \in Link
    BY <1>1, <1>4 DEF Link
  <2>. PICK p \in Link : p = cq - 1
    BY <2>1
  <2>2. IterTypes /\ KeyTypes /\ LinkTypes /\ own[p] # NULL
    BY <1>1, <2>1 DEF TypeInv, TypeOK, Locals, Link
  <2>3. KeysPrev = IF keyed THEN p ELSE 0
    BY <1>1, <1>4 DEF TypeInv, KeysInStep, KeysPrev, Link
  <2>4. /\ YieldLink(p) /\ out' = out
        /\ \/ /\ YieldFinds(p)
              /\ SetKey(p, KeysPrev, at[p] + 1)
              /\ r' = Yielded(p)
              /\ pc' = "resetDescend"
              /\ UNCHANGED <<cq, ck>>
           \/ /\ ~YieldFinds(p)
              /\ cq' = p /\ ck' = KeysPrev
              /\ UNCHANGED <<key, r, pc>>
    BY <1>4 DEF ResetClimb
  <2>5. p - 1 \in 0..(cq - 1) /\ p \in 1..(cq - 1) /\ cq - 1 \in Nat
    BY <1>1 DEF Link
  <2>6. Position(p - 1) /\ own[p] = Prefix(at, p - 1)
    BY <1>2, <2>5, PositionShrinks DEF Position, Synced
  <2>7. /\ Position(p - 1)'
        /\ at'[0] = at[0]
        /\ YieldFinds(p) => Position(p)' /\ Yielded(p) = Prefix(at', p)
    BY <1>1, <2>2, <2>3, <2>4, <2>6, PositionYield
  <2>8. CASE YieldFinds(p)
    <3>1. pc' = "resetDescend" /\ cq' - 1 = p /\ r' = Yielded(p)
      BY <2>4, <2>8
    <3>2. Position(cq - 1)' /\ (r = Prefix(at, cq - 1))'
      BY <2>7, <2>8, <3>1
    <3>. QED  BY <1>1, <1>2, <2>4, <2>7, <3>1, <3>2 DEF WalkInd, WalkInv
  <2>9. CASE ~YieldFinds(p)
    <3>1. pc' = "resetClimb" /\ cq' = p
      BY <1>1, <2>4, <2>9
    <3>2. Position(cq - 1)'
      BY <2>7, <3>1
    <3>. QED  BY <1>1, <1>2, <2>4, <2>7, <3>1, <3>2 DEF WalkInd, WalkInv
  <2>. QED  BY <2>8, <2>9
<1>. QED  BY <1>3, <1>4

(* Asking for more starts from the terminal link, which stands on the      *)
(* result delivered last, or finds every link depleted.                    *)
LEMMA WalkCallGet ==
  ASSUME TypeInv, WalkInd, CallGet
  PROVE  WalkInd'
<1>. USE NAssumption DEF CallGet
<1>1. at[0] \in Events /\ live
  BY DEF WalkInd, WalkInv
<1>2. CASE out = NULL
  <2>1. Drained
    BY <1>2 DEF WalkInd, WalkInv
  <2>2. Drained'
    BY <2>1 DEF Drained, Synced, Spent, links
  <2>. QED  BY <1>1, <2>2 DEF WalkInd, WalkInv
<1>3. CASE out # NULL
  <2>1. Position(N)
    BY <1>3 DEF WalkInd, WalkInv
  <2>2. N \in 1..N /\ N \in Nat /\ N - 1 \in 0..N
    OBVIOUS
  <2>3. Position(N - 1)
    BY <2>1, <2>2, PositionShrinks
  <2>4. own[N] = Prefix(at, N - 1) /\ at[N] >= 1
    BY <2>1, <2>2 DEF Position, Synced, Standing
  <2>5. Position(N - 1)'
    BY <2>3 DEF Position, Synced, Standing, KeyAt, links
  <2>6. Spent(N + 1)'
    BY DEF Spent
  <2>7. cq' = N /\ own' = own /\ at' = at
    OBVIOUS
  <2>8. Position(cq - 1)' /\ (own[cq] = Prefix(at, cq - 1))' /\ (at[cq] >= 1)'
        /\ Spent(cq + 1)'
    BY <2>4, <2>5, <2>6, <2>7
  <2>. QED  BY <1>1, <2>8 DEF WalkInd, WalkInv
<1>. QED  BY <1>2, <1>3

(* Backtracking: when all links are depleted nothing moves; otherwise the  *)
(* link at hand moves, and when it is depleted its parent is next, on the  *)
(* owner it has had since it was last reset.                               *)
LEMMA WalkGetYield ==
  ASSUME TypeInv, WalkInd, GetYield
  PROVE  WalkInd'
<1>. USE NAssumption
<1>0. cq \in Link
  BY DEF GetYield, TypeInv, TypeOK, CallTypes
<1>. PICK c \in Link : c = cq
  BY <1>0
<1>1. /\ pc = "getYield" /\ live /\ own[c] # NULL
      /\ YieldLink(c)
      /\ UNCHANGED <<kind, data, own, keyed, live>>
  BY DEF GetYield, TypeInv, Locals, links
<1>2. IterTypes /\ KeyTypes /\ LinkTypes /\ (keyed => ck = c)
  BY <1>1 DEF TypeInv, TypeOK, KeysInStep
<1>3. at[0] \in Events /\ out = NULL
  BY <1>1 DEF WalkInd, WalkInv
<1>4. own[c] \in Inner /\ data[own[c]] \in 0..MaxFan /\ at[c] \in Nat
  BY <1>1, <1>2, OwnerIsInner DEF IterTypes, LinkTypes, Link
<1>5. /\ at'[c] = IF YieldFinds(c) THEN at[c] + 1 ELSE data[own[c]] + 1
      /\ \A j \in 0..N \ {c} : at'[j] = at[j]
  BY <1>1, <1>2, YieldLinkEffect
<1>6. /\ YieldFinds(c) => SetKey(c, ck, at[c] + 1)
      /\ ~YieldFinds(c) => key' = key
  BY DEF GetYield
<1>7. \/ YieldFinds(c) /\ c = N /\ Return(Yielded(c))
      \/ YieldFinds(c) /\ c # N /\ pc' = "getDescend" /\ r' = Yielded(c)
                       /\ cq' = c + 1 /\ out' = out
      \/ ~YieldFinds(c) /\ c = 1 /\ Return(NULL)
      \/ ~YieldFinds(c) /\ c # 1 /\ cq' = c - 1 /\ UNCHANGED <<pc, r, out>>
  BY DEF GetYield
<1>8. CASE Drained
  <2>1. ~YieldFinds(c)
    BY <1>4, <1>8 DEF Drained, Spent, YieldFinds, Link
  <2>2. at'[c] = data[own[c]] + 1 /\ 0 \in 0..N \ {c}
    BY <1>5, <2>1 DEF Link
  <2>3. Spent(1)'
    <3>. SUFFICES ASSUME NEW j \in 1..N
                  PROVE  own[j] # NULL /\ at'[j] > data[own[j]]
      BY <1>1 DEF Spent
    <3>1. CASE j = c
      BY <1>1, <1>4, <2>2, <3>1
    <3>2. CASE j # c
      BY <1>5, <1>8, <3>2 DEF Drained, Spent
    <3>. QED  BY <3>1, <3>2
  <2>4. Synced(1)'
    <3>1. own[1] = Prefix(at, 0)
      BY <1>8 DEF Drained, Synced
    <3>2. Prefix(at', 0) = Prefix(at, 0)
      BY <1>5, <2>2, PrefixLocal
    <3>. QED  BY <1>1, <3>1, <3>2 DEF Synced
  <2>5. Drained' /\ at'[0] \in Events
    BY <1>3, <1>5, <2>2, <2>3, <2>4 DEF Drained
  <2>6. CASE c = 1
    BY <1>1, <1>7, <2>1, <2>5, <2>6 DEF Return, WalkInd, WalkInv
  <2>7. CASE c # 1
    BY <1>1, <1>3, <1>7, <2>1, <2>5, <2>7 DEF WalkInd, WalkInv
  <2>. QED  BY <2>6, <2>7
<1>9. CASE ~Drained
  <2>1. Position(c - 1) /\ own[c] = Prefix(at, c - 1) /\ Spent(c + 1)
    BY <1>1, <1>9 DEF WalkInd, WalkInv
  <2>2. /\ Position(c - 1)'
        /\ own'[c] = Prefix(at', c - 1)
        /\ at'[0] = at[0]
        /\ YieldFinds(c) => Position(c)' /\ Yielded(c) = Prefix(at', c)
    BY <1>1, <1>2, <1>6, <2>1, PositionYield
  <2>3. Spent(c + 1)'
    <3>1. \A j \in (c + 1)..N : j \in 0..N \ {c}
      BY DEF Link
    <3>. QED  BY <1>1, <1>5, <2>1, <3>1 DEF Spent
  <2>4. CASE YieldFinds(c) /\ c = N
    <3>1. pc' = "idle" /\ out' = Yielded(c)
      BY <1>7, <2>4 DEF Return
    <3>2. Position(N)' /\ out' = Prefix(at', N) /\ at'[0] \in Events
      BY <1>3, <2>2, <2>4, <3>1
    <3>3. Yielded(c) # NULL
      BY <1>1, <1>2, <2>4, YieldLinkEffect, NULLIsNoPath
    <3>. QED  BY <1>1, <3>1, <3>2, <3>3 DEF WalkInd, WalkInv
  <2>5. CASE YieldFinds(c) /\ c # N
    <3>1. pc' = "getDescend" /\ r' = Yielded(c) /\ cq' = c + 1 /\ out' = NULL
      BY <1>3, <1>7, <2>5
    <3>2. cq' - 1 = c
      BY <3>1 DEF Link
    <3>3. Position(cq - 1)' /\ (r = Prefix(at, cq - 1))' /\ Spent(cq)'
      BY <2>2, <2>3, <2>5, <3>1, <3>2
    <3>. QED  BY <1>1, <1>3, <2>2, <3>1, <3>3 DEF WalkInd, WalkInv
  <2>6. CASE ~YieldFinds(c)
    <3>1. Spent(c)'
      <4>. SUFFICES ASSUME NEW j \in c..N
                    PROVE  own[j] # NULL /\ at'[j] > data[own[j]]
        BY <1>1 DEF Spent
      <4>1. CASE j = c
        BY <1>1, <1>4, <1>5, <2>6, <4>1
      <4>2. CASE j # c
        <5>1. j \in (c + 1)..N
          BY <4>2 DEF Link
        <5>. QED  BY <1>1, <2>3, <5>1 DEF Spent
      <4>. QED  BY <4>1, <4>2
    <3>2. CASE c = 1
      <4>1. Drained'
        BY <2>2, <3>1, <3>2 DEF Drained, Synced
      <4>. QED  BY <1>1, <1>3, <1>7, <2>2, <2>6, <3>2, <4>1
                DEF Return, WalkInd, WalkInv
    <3>3. CASE c # 1
      <4>1. /\ pc' = "getYield" /\ cq' = c - 1 /\ out' = NULL
            /\ cq' + 1 = c
        BY <1>1, <1>3, <1>7, <2>6, <3>3 DEF Link
      <4>. PICK p \in Link : p = c - 1
        BY <3>3 DEF Link
      <4>2. p \in 1..(c - 1) /\ p - 1 \in 0..(c - 1) /\ c - 1 \in Nat /\ p \in 0..N \ {c}
        BY DEF Link
      <4>3. own'[p] = Prefix(at', p - 1) /\ at'[p] \in 1..data'[Prefix(at', p - 1)]
        BY <2>2, <4>2 DEF Position, Synced, Standing
      <4>4. at'[p] >= 1
        BY <4>3
      <4>5. Synced(p - 1)' /\ Standing(p - 1)' /\ KeyAt(p - 1)'
        <5>1. 1..(p - 1) \subseteq 1..(c - 1)
          BY <4>2
        <5>. QED  BY <2>2, <5>1 DEF Position, Synced, Standing, KeyAt
      <4>6. cq' = p
        BY <4>1
      <4>7. Position(cq - 1)' /\ (own[cq] = Prefix(at, cq - 1))' /\ (at[cq] >= 1)'
            /\ Spent(cq + 1)'
        BY <3>1, <4>1, <4>3, <4>4, <4>5, <4>6 DEF Position
      <4>. QED  BY <1>1, <1>3, <2>2, <4>1, <4>7 DEF WalkInd, WalkInv
    <3>. QED  BY <3>2, <3>3
  <2>. QED  BY <2>4, <2>5, <2>6
<1>. QED  BY <1>8, <1>9
-----------------------------------------------------------------------------
(* The walk invariant and the types hold in every state. *)
THEOREM WalkCorrect == Spec => [](TypeInv /\ WalkInd)
<1>1. Init => WalkInd
  BY WalkInit
<1>2. TypeInv /\ WalkInd /\ [Next]_vars => WalkInd'
  <2>. SUFFICES ASSUME TypeInv, WalkInd, [Next]_vars PROVE WalkInd'
    OBVIOUS
  <2>1. ASSUME NEW e \in Events, NEW withKey \in BOOLEAN, CallReset(e, withKey)
        PROVE  WalkInd'
    BY <2>1, WalkCallReset
  <2>2. CASE CallGet
    BY <2>2, WalkCallGet
  <2>3. CASE ResetDescend \/ GetDescend
    BY <2>3, WalkDescend
  <2>4. CASE ResetClimb
    BY <2>4, WalkResetClimb
  <2>5. CASE GetYield
    BY <2>5, WalkGetYield
  <2>6. CASE UNCHANGED vars
    BY <2>6, WalkStutter
  <2>. QED  BY <2>1, <2>2, <2>3, <2>4, <2>5, <2>6 DEF Next, Step
<1>. QED  BY <1>1, <1>2, TypeCorrect, PTL DEF Spec

(* Whatever loop the engine is in, the links above the one at hand stand   *)
(* on elements of one position in the data, with their key cells, and the  *)
(* links below it are spent.                                               *)
THEOREM WalksOnePosition == Spec => []WalkInv
<1>1. WalkInd => WalkInv
  BY DEF WalkInd
<1>. QED  BY <1>1, WalkCorrect, PTL

(* Every result that is delivered with keys is delivered with its own:     *)
(* no cell still names an element that was left.                           *)
THEOREM KeysNameResults == Spec => []KeyNamesResult
<1>1. TypeInv /\ WalkInd => KeyNamesResult
  <2>. SUFFICES ASSUME TypeInv, WalkInd, pc = "idle", out # NULL, keyed,
                       NEW i \in Link, kind[i] = "collection"
                PROVE  key[i] = out[i]
    BY DEF KeyNamesResult
  <2>1. Position(N) /\ out = Prefix(at, N)
    BY DEF WalkInd, WalkInv
  <2>2. i \in 0..N /\ i <= N
    BY NAssumption DEF Link
  <2>3. out[i] = at[i]
    BY <2>1, <2>2 DEF Prefix
  <2>4. key[i] = at[i]
    BY <2>1 DEF Position, KeyAt, Link
  <2>. QED  BY <2>3, <2>4
<1>. QED  BY <1>1, WalkCorrect, PTL

(* No link is asked to yield for a datum that its parent has left, unless  *)
(* all links are depleted.                                                 *)
THEOREM YieldsOnOwners == Spec => []YieldOnOwner
<1>1. TypeInv /\ WalkInd => YieldOnOwner
  <2>. SUFFICES ASSUME TypeInv, WalkInd PROVE YieldOnOwner
    OBVIOUS
  <2>1. ASSUME pc = "resetClimb" PROVE Synced(cq - 1)
    BY <2>1 DEF WalkInd, WalkInv, Position
  <2>2. ASSUME pc = "getYield" PROVE Synced(cq) \/ Spent(1)
    <3>1. cq \in Link /\ \A i \in 1..cq : i = cq \/ i \in 1..(cq - 1)
      BY <2>2 DEF TypeInv, TypeOK, CallTypes, Link
    <3>2. CASE Drained
      BY <3>2 DEF Drained
    <3>3. CASE Position(cq - 1) /\ own[cq] = Prefix(at, cq - 1)
      BY <3>1, <3>3 DEF Position, Synced
    <3>. QED  BY <2>2, <3>2, <3>3 DEF WalkInd, WalkInv
  <2>. QED  BY <2>1, <2>2 DEF YieldOnOwner
<1>. QED  BY <1>1, WalkCorrect, PTL

-----------------------------------------------------------------------------
(***************************************************************************)
(* Proof that the chain engine implements QueryEnumeration: every step of  *)
(* hdql_query_reset and hdql_query_get is a step of the enumeration of the *)
(* paths of the event, or leaves the set of paths to deliver alone.        *)
(***************************************************************************)

(* After and Under, for any data and any iterators. *)
AfterAt(d, a, k) == {q \in Leaves(d, a[0]) :
                       \E j \in 1..k : /\ q[j] > a[j]
                                       /\ \A i \in 1..(j - 1) : q[i] = a[i]}
UnderAt(d, a, k) == {q \in Leaves(d, a[0]) : \A i \in 1..k : q[i] = a[i]}

(* The paths under the first k - 1 choices that pass the m-th element.     *)
Passing(d, a, k, m) == {q \in UnderAt(d, a, k - 1) : q[k] > m}

(***************************************************************************)
(* Lemmas about the paths still to deliver.                                *)
(***************************************************************************)

(* Above the first link there is nothing to choose. *)
LEMMA AtTheRoot ==
  ASSUME NEW d, NEW a
  PROVE  AfterAt(d, a, 0) = {} /\ UnderAt(d, a, 0) = Leaves(d, a[0])
  BY DEF AfterAt, UnderAt

(* Only the choices kept matter. *)
LEMMA OnlyKeptChoices ==
  ASSUME NEW d, NEW a, NEW b, NEW k \in Nat, \A j \in 0..k : a[j] = b[j]
  PROVE  AfterAt(d, a, k) = AfterAt(d, b, k) /\ UnderAt(d, a, k) = UnderAt(d, b, k)
<1>1. a[0] = b[0] /\ \A j \in 1..k : a[j] = b[j]
  OBVIOUS
<1>2. \A j \in 1..k : \A i \in 1..(j - 1) : i \in 1..k
  OBVIOUS
<1>3. AfterAt(d, a, k) = AfterAt(d, b, k)
  BY <1>1, <1>2 DEF AfterAt
<1>4. UnderAt(d, a, k) = UnderAt(d, b, k)
  BY <1>1 DEF UnderAt
<1>. QED  BY <1>3, <1>4

(* The paths after the first k choices are those after the first k - 1,    *)
(* and those that pass the k-th element on its own datum.                  *)
LEMMA AfterSplits ==
  ASSUME NEW d, NEW a, NEW k \in Link
  PROVE  /\ AfterAt(d, a, k) = AfterAt(d, a, k - 1) \cup Passing(d, a, k, a[k])
         /\ UnderAt(d, a, k) = {q \in UnderAt(d, a, k - 1) : q[k] = a[k]}
<1>1. k \in Nat /\ \A j \in 1..k : j = k \/ j \in 1..(k - 1)
  BY DEF Link
<1>2. k \in 1..k /\ \A j \in 1..(k - 1) : j \in 1..k
  BY DEF Link
<1>3. ASSUME NEW q
      PROVE  q \in AfterAt(d, a, k) <=>
               \/ q \in AfterAt(d, a, k - 1)
               \/ q \in UnderAt(d, a, k - 1) /\ q[k] > a[k]
  BY <1>1, <1>2 DEF AfterAt, UnderAt
<1>4. ASSUME NEW q
      PROVE  q \in UnderAt(d, a, k) <=> q \in UnderAt(d, a, k - 1) /\ q[k] = a[k]
  BY <1>1, <1>2 DEF UnderAt
<1>. QED  BY <1>3, <1>4 DEF Passing

(* A path under the first k - 1 choices picks one of the elements found on *)
(* the datum these lead to.                                                *)
LEMMA UnderPicks ==
  ASSUME NEW d, NEW a, NEW k \in Link, NEW q \in UnderAt(d, a, k - 1)
  PROVE  q[k] \in 1..d[Prefix(a, k - 1)]
<1>1. q[0] = a[0] /\ \A j \in 1..(k - 1) : q[j] = a[j]
  BY DEF UnderAt, Leaves
<1>2. k - 1 \in 0..N /\ \A j \in 0..(k - 1) : j = 0 \/ j \in 1..(k - 1)
  BY NAssumption DEF Link
<1>3. Prefix(q, k - 1) = Prefix(a, k - 1)
  BY <1>1, <1>2, PrefixLocal
<1>4. q[k] \in 1..d[Prefix(q, k - 1)]
  BY DEF UnderAt, Leaves
<1>. QED  BY <1>3, <1>4

(* Link k moves from the element before m to m: the paths under m join the *)
(* paths after it to make those that were to come.                         *)
LEMMA MoveOn ==
  ASSUME NEW d, NEW a, NEW b, NEW k \in Link, \A j \in 0..(k - 1) : a[j] = b[j],
         NEW m \in Nat, b[k] = m + 1
  PROVE  AfterAt(d, b, k) \cup UnderAt(d, b, k) =
           AfterAt(d, a, k - 1) \cup Passing(d, a, k, m)
<1>1. k - 1 \in Nat
  BY DEF Link
<1>2. /\ AfterAt(d, b, k - 1) = AfterAt(d, a, k - 1)
      /\ UnderAt(d, b, k - 1) = UnderAt(d, a, k - 1)
  BY <1>1, OnlyKeptChoices
<1>3. ASSUME NEW q \in UnderAt(d, a, k - 1)
      PROVE  q[k] > m <=> q[k] > b[k] \/ q[k] = b[k]
  <2>1. q[k] \in Nat
    BY UnderPicks
  <2>. QED  BY <2>1
<1>. HIDE DEF Link
<1>. QED  BY <1>2, <1>3, AfterSplits DEF Passing

(* When link k is at its last element nothing on its datum is to come. *)
LEMMA NothingMore ==
  ASSUME NEW d, NEW a, NEW k \in Link, NEW m \in Nat,
         d[Prefix(a, k - 1)] \in Nat, m >= d[Prefix(a, k - 1)]
  PROVE  Passing(d, a, k, m) = {}
<1>1. ASSUME NEW q \in UnderAt(d, a, k - 1), q[k] > m
      PROVE  FALSE
  <2>1. q[k] \in 1..d[Prefix(a, k - 1)]
    BY UnderPicks
  <2>. QED  BY <1>1, <2>1
<1>. QED  BY <1>1 DEF Passing

(* When the first link is depleted nothing is to come at all. *)
LEMMA NothingAtAll ==
  ASSUME NEW d, NEW a, NEW k \in 0..N,
         d[Prefix(a, 0)] \in Nat, a[1] \in Nat, a[1] > d[Prefix(a, 0)]
  PROVE  AfterAt(d, a, k) = {}
<1>1. ASSUME NEW q \in AfterAt(d, a, k) PROVE FALSE
  <2>1. PICK j \in 1..k : /\ q[j] > a[j]
                          /\ \A i \in 1..(j - 1) : q[i] = a[i]
    BY DEF AfterAt
  <2>2. 1 \in Link /\ 1 - 1 = 0
    BY NAssumption DEF Link
  <2>3. q \in UnderAt(d, a, 0)
    BY DEF AfterAt, UnderAt
  <2>4. q[1] \in 1..d[Prefix(a, 0)]
    BY <2>2, <2>3, UnderPicks
  <2>5. CASE j = 1
    BY <2>1, <2>4, <2>5
  <2>6. CASE j # 1
    BY <2>1, <2>4, <2>6
  <2>. QED  BY <2>5, <2>6
<1>. QED  BY <1>1

(* The path that the iterators are at, when they stand on elements that    *)
(* exist, is the only one under all of them, and comes before all the      *)
(* paths that are after them.                                              *)
LEMMA FirstOfAll ==
  ASSUME NEW d, NEW a, NEW p \in Path, p = Prefix(a, N),
         \A i \in 1..N : a[i] \in 1..d[Prefix(a, i - 1)]
  PROVE  /\ UnderAt(d, a, N) = {p}
         /\ p \notin AfterAt(d, a, N)
         /\ \A q \in AfterAt(d, a, N) : Before(p, q)
<1>. USE NAssumption
<1>1. \A j \in 0..N : p[j] = a[j]
  <2>1. p = [j \in 0..N |-> IF j <= N THEN a[j] ELSE 0]
    BY DEF Prefix
  <2>2. \A j \in 0..N : j <= N
    OBVIOUS
  <2>. QED  BY <2>1, <2>2
<1>2. p \in UnderAt(d, a, N)
  <2>1. \A i \in 1..N : Prefix(p, i - 1) = Prefix(a, i - 1)
    <3>. SUFFICES ASSUME NEW i \in 1..N PROVE Prefix(p, i - 1) = Prefix(a, i - 1)
      OBVIOUS
    <3>1. i - 1 \in 0..N /\ \A j \in 0..(i - 1) : p[j] = a[j]
      BY <1>1
    <3>. QED  BY <3>1, PrefixLocal
  <2>2. \A i \in Link : p[i] \in 1..d[Prefix(p, i - 1)]
    BY <1>1, <2>1 DEF Link
  <2>3. p[0] = a[0] /\ \A i \in 1..N : p[i] = a[i]
    BY <1>1
  <2>. QED  BY <2>2, <2>3 DEF UnderAt, Leaves
<1>3. ASSUME NEW q \in UnderAt(d, a, N) PROVE q = p
  <2>1. q \in Path /\ q[0] = a[0] /\ \A j \in 1..N : q[j] = a[j]
    BY DEF UnderAt, Leaves
  <2>2. \A j \in 0..N : q[j] = p[j]
    BY <1>1, <2>1
  <2>3. q = [j \in 0..N |-> q[j]] /\ p = [j \in 0..N |-> p[j]]
    BY <2>1 DEF Path
  <2>. QED  BY <2>2, <2>3
<1>4. ASSUME NEW q \in AfterAt(d, a, N)
      PROVE  Before(p, q) /\ q # p
  <2>1. PICK j \in 1..N : /\ q[j] > a[j]
                          /\ \A i \in 1..(j - 1) : q[i] = a[i]
    BY DEF AfterAt
  <2>2. p[j] = a[j] /\ \A i \in 1..(j - 1) : p[i] = q[i]
    BY <1>1, <2>1
  <2>3. p[j] \in Nat /\ q[j] \in Nat
    <3>1. q \in Path
      BY DEF AfterAt, Leaves
    <3>. QED  BY <3>1, MaxFanAssumption DEF Path, Link
  <2>. QED  BY <2>1, <2>2, <2>3 DEF Before, Link
<1>. QED  BY <1>2, <1>3, <1>4
-----------------------------------------------------------------------------
(***************************************************************************)
(* The engine's own invariant, with the promise of a scalar: it finds at   *)
(* most one element, so it is right not to be asked for a second one.      *)
(***************************************************************************)
RefInv == TypeInv /\ WalkInd /\ ScalarsFit

(* It holds in every state. *)
THEOREM RefInvCorrect == Spec => []RefInv
<1>1. Init => ScalarsFit
  BY DEF Init
<1>2. ScalarsFit /\ [Next]_vars => ScalarsFit'
  <2>1. [Next]_vars => UNCHANGED <<kind, data>>
    BY DEF Next, Step, CallReset, CallGet, ResetDescend, ResetClimb, GetYield,
           GetDescend, vars, links
  <2>. QED  BY <2>1 DEF ScalarsFit
<1>. QED  BY <1>1, <1>2, WalkCorrect, PTL DEF Spec, RefInv

(* A link that yields nothing is at its last element or beyond. *)
LEMMA YieldsNothing ==
  ASSUME RefInv, NEW i \in Link, own[i] # NULL, at[i] >= 1, ~YieldFinds(i)
  PROVE  /\ data[own[i]] \in Nat /\ at[i] \in Nat
         /\ at[i] >= data[own[i]]
<1>1. own[i] \in Owner(i) /\ own[i] \in Inner
  BY OwnerIsInner DEF RefInv, TypeInv, TypeOK, IterTypes
<1>2. data[own[i]] \in Nat /\ at[i] \in Nat
  BY <1>1, MaxFanAssumption, NAssumption
     DEF RefInv, TypeInv, TypeOK, IterTypes, LinkTypes, Link
<1>3. kind[i] = "scalar" \/ kind[i] = "collection"
  BY DEF RefInv, TypeInv, TypeOK, LinkTypes, Kinds
<1>4. kind[i] = "scalar" => data[own[i]] <= 1
  BY <1>1 DEF RefInv, ScalarsFit
<1>. QED  BY <1>2, <1>3, <1>4 DEF YieldFinds
-----------------------------------------------------------------------------
(***************************************************************************)
(* The steps.                                                              *)
(***************************************************************************)

(* After and Under are what the engine's iterators make of them. *)
LEMMA AfterNow ==
  /\ \A k : After(k) = AfterAt(data, at, k) /\ Under(k) = UnderAt(data, at, k)
  /\ \A k : After(k)' = AfterAt(data', at', k) /\ Under(k)' = UnderAt(data', at', k)
  BY DEF After, Under, AfterAt, UnderAt

(* A link that is reset on the datum its parent is at, and finds an        *)
(* element, leaves the paths to deliver what they were; one that finds     *)
(* nothing had none under it.                                              *)
LEMMA ResetKeepsRest ==
  ASSUME RefInv, pc \in {"resetDescend", "getDescend"},
         NEW c \in Link, c = cq, ResetLink(c, r), UNCHANGED data
  PROVE  /\ ResetFinds(r) => AfterAt(data, at', c) \cup UnderAt(data, at', c) = Rest
         /\ ~ResetFinds(r) => /\ AfterAt(data, at', c - 1) = Rest
                              /\ AfterAt(data, at', c) = Rest
<1>1. r \in Owner(c) /\ r = Prefix(at, c - 1) /\ r \in Inner
  BY OwnerIsInner DEF RefInv, TypeInv, Locals, WalkInd, WalkInv
<1>2. data[Prefix(at, c - 1)] \in Nat /\ data[r] \in Nat
  BY <1>1, MaxFanAssumption DEF RefInv, TypeInv, TypeOK, LinkTypes
<1>3. at'[c] = 1 /\ \A j \in 0..N \ {c} : at'[j] = at[j]
  BY <1>1, ResetLinkEffect DEF RefInv, TypeInv, TypeOK
<1>4. Rest = AfterAt(data, at, c - 1) \cup UnderAt(data, at, c - 1)
  BY AfterNow DEF Rest
<1>5. c - 1 \in Nat /\ \A j \in 0..(c - 1) : at[j] = at'[j]
  <2>1. c - 1 \in Nat /\ \A j \in 0..(c - 1) : j \in 0..N \ {c}
    BY NAssumption DEF Link
  <2>. QED  BY <1>3, <2>1
<1>6. ASSUME NEW q \in UnderAt(data, at, c - 1) PROVE q[c] > 0
  <2>1. q[c] \in 1..data[Prefix(at, c - 1)]
    BY UnderPicks
  <2>. QED  BY <1>2, <2>1
<1>7. AfterAt(data, at', c) \cup UnderAt(data, at', c) =
        AfterAt(data, at, c - 1) \cup Passing(data, at, c, 0)
  <2>. PICK m \in Nat : m = 0
    OBVIOUS
  <2>1. at'[c] = m + 1 /\ \A j \in 0..(c - 1) : at[j] = at'[j]
    BY <1>3, <1>5
  <2>2. AfterAt(data, at', c) \cup UnderAt(data, at', c) =
          AfterAt(data, at, c - 1) \cup Passing(data, at, c, m)
    BY <2>1, MoveOn
  <2>. QED  BY <2>2
<1>8. AfterAt(data, at', c) \cup UnderAt(data, at', c) = Rest
  BY <1>4, <1>6, <1>7 DEF Passing
<1>9. ASSUME ~ResetFinds(r)
      PROVE  AfterAt(data, at', c - 1) = Rest /\ AfterAt(data, at', c) = Rest
  <2>1. data[Prefix(at, c - 1)] <= 0
    BY <1>1, <1>2, <1>9 DEF ResetFinds
  <2>2. Passing(data, at, c, 0) = {}
    <3>1. 0 \in Nat /\ 0 >= data[Prefix(at, c - 1)]
      BY <1>2, <2>1
    <3>. QED  BY <1>2, <3>1, NothingMore
  <2>3. UnderAt(data, at, c - 1) = {}
    BY <1>6, <2>2 DEF Passing
  <2>4. AfterAt(data, at', c - 1) = AfterAt(data, at, c - 1)
    BY <1>5, OnlyKeptChoices
  <2>5. UnderAt(data, at', c - 1) = UnderAt(data, at, c - 1)
    BY <1>5, OnlyKeptChoices
  <2>6. AfterAt(data, at', c) = AfterAt(data, at', c - 1)
    BY <2>3, <2>5, AfterSplits DEF Passing
  <2>. QED  BY <1>4, <2>3, <2>4, <2>6
<1>. QED  BY <1>8, <1>9

(* A link that yields on the datum its parent is at, and finds an element, *)
(* leaves the paths to deliver what they were; one that finds nothing had  *)
(* none to come.                                                           *)
LEMMA YieldKeepsRest ==
  ASSUME RefInv, NEW c \in Link, own[c] # NULL, own[c] = Prefix(at, c - 1),
         at[c] >= 1, YieldLink(c), UNCHANGED <<data, own>>
  PROVE  /\ YieldFinds(c) => AfterAt(data, at', c) \cup UnderAt(data, at', c)
                               = AfterAt(data, at, c)
         /\ ~YieldFinds(c) => AfterAt(data, at', c - 1) = AfterAt(data, at, c)
<1>1. /\ at'[c] = IF YieldFinds(c) THEN at[c] + 1 ELSE data[own[c]] + 1
      /\ \A j \in 0..N \ {c} : at'[j] = at[j]
  BY YieldLinkEffect DEF RefInv, TypeInv, TypeOK
<1>2. c - 1 \in Nat /\ \A j \in 0..(c - 1) : at[j] = at'[j]
  <2>1. c - 1 \in Nat /\ \A j \in 0..(c - 1) : j \in 0..N \ {c}
    BY NAssumption DEF Link
  <2>. QED  BY <1>1, <2>1
<1>3. at[c] \in Nat
  BY NAssumption DEF RefInv, TypeInv, TypeOK, IterTypes, Link
<1>4. AfterAt(data, at, c) = AfterAt(data, at, c - 1) \cup Passing(data, at, c, at[c])
  BY AfterSplits
<1>5. ASSUME YieldFinds(c)
      PROVE  AfterAt(data, at', c) \cup UnderAt(data, at', c) = AfterAt(data, at, c)
  <2>1. at'[c] = at[c] + 1
    BY <1>1, <1>5
  <2>2. PICK m \in Nat : m = at[c]
    BY <1>3
  <2>3. at'[c] = m + 1 /\ \A j \in 0..(c - 1) : at[j] = at'[j]
    BY <1>2, <2>1, <2>2
  <2>4. AfterAt(data, at', c) \cup UnderAt(data, at', c) =
          AfterAt(data, at, c - 1) \cup Passing(data, at, c, m)
    BY <2>3, MoveOn
  <2>. QED  BY <1>4, <2>2, <2>4
<1>6. ASSUME ~YieldFinds(c)
      PROVE  AfterAt(data, at', c - 1) = AfterAt(data, at, c)
  <2>1. data[Prefix(at, c - 1)] \in Nat /\ at[c] >= data[Prefix(at, c - 1)]
    BY <1>6, YieldsNothing
  <2>2. Passing(data, at, c, at[c]) = {}
    BY <1>3, <2>1, NothingMore
  <2>3. AfterAt(data, at', c - 1) = AfterAt(data, at, c - 1)
    BY <1>2, OnlyKeptChoices
  <2>. QED  BY <1>4, <2>2, <2>3
<1>. QED  BY <1>5, <1>6

(* A call that returns d while d, of what was to come, is where the        *)
(* iterators are, answers with the first path and leaves the others.       *)
LEMMA Delivers ==
  ASSUME RefInv', pc # "idle", pc' = "idle", out' # NULL,
         Rest = AfterAt(data, at', N) \cup UnderAt(data, at', N),
         UNCHANGED data
  PROVE  Enum!AnswerPath
<1>1. out' = Prefix(at', N) /\ Position(N)'
  BY DEF RefInv, WalkInd, WalkInv
<1>2. out' \in Path
  BY DEF RefInv, TypeInv, TypeOK, CallTypes
<1>3. \A i \in 1..N : at'[i] \in 1..data[Prefix(at', i - 1)]
  BY <1>1 DEF Position, Standing
<1>4. /\ UnderAt(data, at', N) = {out'}
      /\ out' \notin AfterAt(data, at', N)
      /\ \A q \in AfterAt(data, at', N) : Before(out', q)
  BY <1>1, <1>2, <1>3, FirstOfAll
<1>5. Rest' = AfterAt(data, at', N)
  BY AfterNow DEF Rest
<1>6. out' \in Rest /\ Rest' = Rest \ {out'}
  BY <1>4, <1>5
<1>7. \A q \in Rest \ {out'} : Enum!Before(out', q)
  BY <1>4 DEF Before, Enum!Before, Link, Enum!Link
<1>8. Enum!IsFirst(out', Rest)
  BY <1>6, <1>7 DEF Enum!IsFirst
<1>. QED  BY <1>6, <1>8 DEF Enum!AnswerPath

(* A call that returns NULL when nothing was to come answers that.         *)
LEMMA FindsNothing ==
  ASSUME pc # "idle", pc' = "idle", out' = NULL, Rest = {}, UNCHANGED data
  PROVE  Enum!AnswerEmpty
<1>1. Rest' = {}
  BY DEF Rest
<1>. QED  BY <1>1 DEF Enum!AnswerEmpty

(* A step inside a call that leaves the paths to deliver alone is none of  *)
(* the caller's business.                                                  *)
LEMMA StaysInside ==
  ASSUME pc # "idle", pc' # "idle", UNCHANGED <<data, out>>, Rest' = Rest
  PROVE  UNCHANGED Enum!vars
<1>1. (pc # "idle")' = (pc # "idle")
  OBVIOUS
<1>. QED  BY <1>1 DEF Enum!vars
-----------------------------------------------------------------------------
(* The client's calls are those of the enumeration. *)
LEMMA CallResetBegins ==
  ASSUME RefInv, NEW e \in Events, NEW withKey \in BOOLEAN, CallReset(e, withKey)
  PROVE  Enum!Begin(e)
<1>. USE DEF CallReset, links
<1>1. at'[0] = e
  BY NAssumption DEF RefInv, TypeInv, TypeOK, IterTypes
<1>2. cq' - 1 = 0 /\ pc' = "resetDescend"
  OBVIOUS
<1>3. Rest' = AfterAt(data', at', 0) \cup UnderAt(data', at', 0)
  BY <1>2, AfterNow DEF Rest
<1>4. Rest' = Leaves(data, e)
  BY <1>1, <1>3, AtTheRoot
<1>5. Enum!Leaves(data, e) = Leaves(data, e)
  BY DEF Leaves, Enum!Leaves, Path, Enum!Path, Link, Enum!Link, Prefix, Enum!Prefix
<1>6. (pc # "idle") = FALSE /\ (pc # "idle")' = TRUE /\ out' = NULL /\ data' = data
  OBVIOUS
<1>. QED  BY <1>4, <1>5, <1>6 DEF Enum!Begin

(* The next result is asked for when every path is known to be delivered, *)
(* or from the one delivered last.                                         *)
LEMMA CallGetAsks ==
  ASSUME RefInv, CallGet
  PROVE  Enum!More
<1>. USE DEF CallGet, links
<1>1. pc = "idle" /\ live /\ pc' = "getYield" /\ cq' = N /\ at' = at /\ data' = data
  OBVIOUS
<1>2. Rest' = AfterAt(data, at, N)
  BY <1>1, AfterNow DEF Rest
<1>3. Rest = IF out = NULL THEN {} ELSE AfterAt(data, at, N)
  BY <1>1, AfterNow DEF Rest
<1>4. ASSUME out = NULL
      PROVE  AfterAt(data, at, N) = {}
  <2>1. Drained
    BY <1>1, <1>4 DEF RefInv, WalkInd, WalkInv
  <2>2. N \in 0..N /\ 1 \in 1..N /\ 1 \in Link /\ 1 \in 0..N /\ 1 - 1 = 0
    BY NAssumption DEF Link
  <2>3. own[1] = Prefix(at, 0) /\ own[1] # NULL /\ at[1] > data[own[1]]
    BY <2>1, <2>2 DEF Drained, Synced, Spent
  <2>4. own[1] \in Inner
    BY <2>2, <2>3, OwnerIsInner DEF RefInv, TypeInv, TypeOK, IterTypes
  <2>5. data[own[1]] \in Nat /\ at[1] \in Nat
    BY <2>2, <2>4, MaxFanAssumption DEF RefInv, TypeInv, TypeOK, IterTypes, LinkTypes
  <2>. QED  BY <2>2, <2>3, <2>5, NothingAtAll
<1>5. Rest' = Rest
  BY <1>2, <1>3, <1>4
<1>6. (pc # "idle") = FALSE /\ (pc # "idle")' = TRUE /\ out' = NULL
  OBVIOUS
<1>. QED  BY <1>1, <1>5, <1>6 DEF Enum!More

(* Descending delivers the path it completes, or goes on inside the call.  *)
LEMMA DescendAnswers ==
  ASSUME RefInv, RefInv', ResetDescend \/ GetDescend
  PROVE  Enum!AnswerPath \/ UNCHANGED Enum!vars
<1>0. cq \in Link
  BY DEF ResetDescend, GetDescend, RefInv, TypeInv, TypeOK, CallTypes
<1>. PICK c \in Link : c = cq
  BY <1>0
<1>1. pc \in {"resetDescend", "getDescend"} /\ ResetLink(c, r) /\ data' = data
  BY DEF ResetDescend, GetDescend, links
<1>2. /\ ResetFinds(r) => AfterAt(data, at', c) \cup UnderAt(data, at', c) = Rest
      /\ ~ResetFinds(r) => /\ AfterAt(data, at', c - 1) = Rest
                           /\ AfterAt(data, at', c) = Rest
  BY <1>1, ResetKeepsRest
<1>3. CASE ResetFinds(r) /\ c = N /\ Return(Element(c, r, 1))
  <2>1. /\ r \in Owner(c) /\ r \in Inner /\ data[r] \in 0..MaxFan
    BY <1>1, OwnerIsInner DEF RefInv, TypeInv, TypeOK, Locals, LinkTypes
  <2>2. 1 \in 1..MaxFan
    BY <1>3, <2>1, MaxFanAssumption DEF ResetFinds
  <2>3. Element(c, r, 1) # NULL
    BY <2>1, <2>2, ElementIsOwner, NULLIsNoPath
  <2>. QED  BY <1>1, <1>2, <1>3, <2>3, Delivers DEF Return
<1>4. CASE /\ ResetFinds(r) /\ cq' = c + 1
           /\ UNCHANGED <<pc, out>>
  <2>1. cq' - 1 = c
    BY <1>4 DEF Link
  <2>2. Rest' = AfterAt(data, at', c) \cup UnderAt(data, at', c)
    BY <1>1, <1>4, <2>1, AfterNow DEF Rest
  <2>. QED  BY <1>1, <1>2, <1>4, <2>2, StaysInside
<1>5. CASE /\ ~ResetFinds(r) /\ UNCHANGED <<cq, out>>
           /\ pc' = "resetClimb" \/ pc' = "getYield"
  <2>1. cq' = c
    BY <1>5
  <2>2. pc' = "resetClimb" => Rest' = AfterAt(data, at', c - 1)
    BY <1>1, <2>1, AfterNow DEF Rest
  <2>3. pc' = "getYield" => Rest' = AfterAt(data, at', c)
    BY <1>1, <2>1, AfterNow DEF Rest
  <2>4. Rest' = Rest /\ pc' # "idle" /\ pc # "idle"
    BY <1>1, <1>2, <1>5, <2>2, <2>3
  <2>. QED  BY <1>1, <1>5, <2>4, StaysInside
<1>6. CASE ResetDescend
  BY <1>3, <1>4, <1>5, <1>6 DEF ResetDescend
<1>7. CASE GetDescend
  BY <1>3, <1>4, <1>5, <1>7 DEF GetDescend
<1>. QED  BY <1>6, <1>7

(* Climbing goes on inside the call, or finds that the event has no path.  *)
LEMMA ClimbAnswers ==
  ASSUME RefInv, ResetClimb
  PROVE  Enum!AnswerEmpty \/ UNCHANGED Enum!vars
<1>1. pc = "resetClimb" /\ cq \in Link /\ UNCHANGED <<data, own>>
  BY DEF ResetClimb, RefInv, TypeInv, TypeOK, CallTypes, links
<1>2. Rest = AfterAt(data, at, cq - 1)
  BY <1>1, AfterNow DEF Rest
<1>3. CASE cq = 1
  <2>1. Rest = {}
    BY <1>2, <1>3, AtTheRoot
  <2>. QED  BY <1>1, <1>3, <2>1, FindsNothing DEF ResetClimb, Return
<1>4. CASE cq # 1
  <2>0. cq - 1 \in Link
    BY <1>1, <1>4, NAssumption DEF Link
  <2>. PICK p \in Link : p = cq - 1
    BY <2>0
  <2>1. /\ YieldLink(p) /\ out' = out
        /\ \/ YieldFinds(p) /\ pc' = "resetDescend" /\ cq' = cq
           \/ ~YieldFinds(p) /\ cq' = p /\ pc' = pc
    BY <1>4 DEF ResetClimb
  <2>2. p \in 1..(cq - 1)
    BY DEF Link
  <2>3. own[p] = Prefix(at, p - 1) /\ own[p] # NULL /\ at[p] >= 1
    <3>1. Position(cq - 1) /\ own[p] # NULL
      BY <1>1, <2>2 DEF RefInv, TypeInv, Locals, WalkInd, WalkInv
    <3>. QED  BY <2>2, <3>1 DEF Position, Synced, Standing
  <2>4. /\ YieldFinds(p) => AfterAt(data, at', p) \cup UnderAt(data, at', p)
                              = AfterAt(data, at, p)
        /\ ~YieldFinds(p) => AfterAt(data, at', p - 1) = AfterAt(data, at, p)
    BY <1>1, <2>1, <2>3, YieldKeepsRest
  <2>5. CASE YieldFinds(p)
    <3>1. pc' = "resetDescend" /\ cq' - 1 = p
      BY <2>1, <2>5
    <3>2. Rest' = AfterAt(data, at', p) \cup UnderAt(data, at', p)
      BY <1>1, <3>1, AfterNow DEF Rest
    <3>. QED  BY <1>1, <1>2, <2>1, <2>4, <2>5, <3>1, <3>2, StaysInside
  <2>6. CASE ~YieldFinds(p)
    <3>1. pc' = "resetClimb" /\ cq' - 1 = p - 1
      BY <1>1, <2>1, <2>6
    <3>2. Rest' = AfterAt(data, at', p - 1)
      BY <1>1, <3>1, AfterNow DEF Rest
    <3>. QED  BY <1>1, <1>2, <2>1, <2>4, <2>6, <3>1, <3>2, StaysInside
  <2>. QED  BY <2>5, <2>6
<1>. QED  BY <1>3, <1>4

(* Backtracking delivers the next element of the terminal link, goes on    *)
(* inside the call, or finds that every path was delivered.                *)
LEMMA YieldAnswers ==
  ASSUME RefInv, RefInv', GetYield
  PROVE  Enum!AnswerPath \/ Enum!AnswerEmpty \/ UNCHANGED Enum!vars
<1>0. cq \in Link
  BY DEF GetYield, RefInv, TypeInv, TypeOK, CallTypes
<1>. PICK c \in Link : c = cq
  BY <1>0
<1>1. /\ pc = "getYield" /\ own[c] # NULL /\ YieldLink(c)
      /\ UNCHANGED <<data, own>>
  BY DEF GetYield, RefInv, TypeInv, Locals, links
<1>2. Rest = AfterAt(data, at, c)
  BY <1>1, AfterNow DEF Rest
<1>3. \/ YieldFinds(c) /\ c = N /\ Return(Yielded(c))
      \/ YieldFinds(c) /\ pc' = "getDescend" /\ cq' = c + 1 /\ out' = out
      \/ ~YieldFinds(c) /\ c = 1 /\ Return(NULL)
      \/ ~YieldFinds(c) /\ c # 1 /\ cq' = c - 1 /\ UNCHANGED <<pc, out>>
  BY DEF GetYield
<1>4. ASSUME at[c] >= 1, own[c] = Prefix(at, c - 1)
      PROVE  Enum!AnswerPath \/ Enum!AnswerEmpty \/ UNCHANGED Enum!vars
  <2>1. /\ YieldFinds(c) => AfterAt(data, at', c) \cup UnderAt(data, at', c) = Rest
        /\ ~YieldFinds(c) => AfterAt(data, at', c - 1) = Rest
    BY <1>1, <1>2, <1>4, YieldKeepsRest
  <2>2. CASE YieldFinds(c) /\ c = N /\ Return(Yielded(c))
    <3>1. Yielded(c) # NULL
      BY <1>1, <2>2, YieldLinkEffect, NULLIsNoPath DEF RefInv, TypeInv, TypeOK
    <3>. QED  BY <1>1, <2>1, <2>2, <3>1, Delivers DEF Return
  <2>3. CASE YieldFinds(c) /\ pc' = "getDescend" /\ cq' = c + 1 /\ out' = out
    <3>1. cq' - 1 = c
      BY <2>3 DEF Link
    <3>2. Rest' = AfterAt(data, at', c) \cup UnderAt(data, at', c)
      BY <1>1, <2>3, <3>1, AfterNow DEF Rest
    <3>. QED  BY <1>1, <2>1, <2>3, <3>2, StaysInside
  <2>4. CASE ~YieldFinds(c) /\ c = 1 /\ Return(NULL)
    <3>1. Rest = {}
      BY <2>1, <2>4, AtTheRoot
    <3>. QED  BY <1>1, <2>4, <3>1, FindsNothing DEF Return
  <2>5. CASE ~YieldFinds(c) /\ c # 1 /\ cq' = c - 1 /\ UNCHANGED <<pc, out>>
    <3>1. Rest' = AfterAt(data, at', c - 1)
      BY <1>1, <2>5, AfterNow DEF Rest
    <3>. QED  BY <1>1, <2>1, <2>5, <3>1, StaysInside
  <2>. QED  BY <1>3, <2>2, <2>3, <2>4, <2>5
<1>5. CASE Drained
  <2>1. 1 \in 1..N /\ 1 \in Link /\ 1 \in 0..N /\ 1 - 1 = 0
    BY NAssumption DEF Link
  <2>2. own[1] = Prefix(at, 0) /\ own[1] # NULL /\ at[1] > data[own[1]]
    BY <1>5, <2>1 DEF Drained, Synced, Spent
  <2>3. own[1] \in Inner
    BY <2>1, <2>2, OwnerIsInner DEF RefInv, TypeInv, TypeOK, IterTypes
  <2>4. data[own[1]] \in Nat /\ at[1] \in Nat
    BY <2>1, <2>3, MaxFanAssumption DEF RefInv, TypeInv, TypeOK, IterTypes, LinkTypes
  <2>5. \A k \in 0..N : AfterAt(data, at, k) = {}
    BY <2>2, <2>4, NothingAtAll
  <2>6. /\ at'[c] = IF YieldFinds(c) THEN at[c] + 1 ELSE data[own[c]] + 1
        /\ \A j \in 0..N \ {c} : at'[j] = at[j]
    BY <1>1, YieldLinkEffect DEF RefInv, TypeInv, TypeOK
  <2>7. own[c] \in Inner
    BY <1>1, OwnerIsInner DEF RefInv, TypeInv, TypeOK, IterTypes
  <2>8. at[c] > data[own[c]] /\ data[own[c]] \in Nat /\ at[c] \in Nat
    BY SMTT(30), <1>5, <2>7, MaxFanAssumption
       DEF Drained, Spent, RefInv, TypeInv, TypeOK, IterTypes, LinkTypes, Link
  <2>9. ~YieldFinds(c)
    BY <2>8 DEF YieldFinds
  <2>10. at'[0] = at[0]
    BY <2>6, NAssumption DEF Link
  <2>11. at'[1] \in Nat /\ at'[1] > data[own[1]]
    BY <2>1, <2>2, <2>4, <2>6, <2>8, <2>9
  <2>12. Prefix(at', 0) = own[1]
    BY <2>2, <2>10, PrefixLocal, NAssumption
  <2>13. c - 1 \in 0..N /\ c \in 0..N
    BY NAssumption DEF Link
  <2>14. AfterAt(data, at', c - 1) = {}
    BY <2>4, <2>11, <2>12, <2>13, NothingAtAll
  <2>15. Rest = {}
    BY <1>2, <2>5, <2>13
  <2>16. CASE c = 1 /\ Return(NULL)
    BY <1>1, <2>15, <2>16, FindsNothing DEF Return
  <2>17. CASE c # 1 /\ cq' = c - 1 /\ UNCHANGED <<pc, out>>
    <3>1. Rest' = AfterAt(data, at', c - 1)
      BY <1>1, <2>17, AfterNow DEF Rest
    <3>. QED  BY <1>1, <2>14, <2>15, <2>17, <3>1, StaysInside
  <2>. QED  BY <1>3, <2>9, <2>16, <2>17
<1>6. CASE ~Drained
  BY <1>1, <1>4, <1>6 DEF RefInv, WalkInd, WalkInv
<1>. QED  BY <1>5, <1>6
-----------------------------------------------------------------------------
(* Every behaviour of the engine, seen through the paths its iterators     *)
(* have still to deliver, is one of the enumeration: applied to an event   *)
(* the query delivers every path of it once, in depth-first order, and     *)
(* only then NULL.  (That every call returns is checked by TLC.)           *)
THEOREM ImplementsEnumeration == Spec => Enum!SafeSpec
<1>1. Init => Enum!Init
  <2>. SUFFICES ASSUME Init PROVE Enum!Init
    OBVIOUS
  <2>1. Enum!Inner = Inner
    BY DEF Inner, Enum!Inner, Owner, Enum!Owner, Path, Enum!Path, Link, Enum!Link
  <2>2. Rest = {} /\ (pc # "idle") = FALSE /\ out = NULL
    BY DEF Init, Rest
  <2>3. data \in [Inner -> 0..MaxFan]
    BY DEF Init
  <2>. QED  BY <2>1, <2>2, <2>3 DEF Enum!Init
<1>2. RefInv /\ RefInv' /\ [Next]_vars => [Enum!Next]_(Enum!vars)
  <2>. SUFFICES ASSUME RefInv, RefInv', [Next]_vars
                PROVE  Enum!Next \/ UNCHANGED Enum!vars
    OBVIOUS
  <2>1. ASSUME NEW e \in Events, NEW withKey \in BOOLEAN, CallReset(e, withKey)
        PROVE  Enum!Next
    BY <2>1, CallResetBegins DEF Enum!Next
  <2>2. CASE CallGet
    BY <2>2, CallGetAsks DEF Enum!Next
  <2>3. CASE ResetDescend \/ GetDescend
    BY <2>3, DescendAnswers DEF Enum!Next, Enum!Answer
  <2>4. CASE ResetClimb
    BY <2>4, ClimbAnswers DEF Enum!Next, Enum!Answer
  <2>5. CASE GetYield
    BY <2>5, YieldAnswers DEF Enum!Next, Enum!Answer
  <2>6. CASE UNCHANGED vars
    <3>1. Rest' = Rest /\ (pc # "idle")' = (pc # "idle")
      BY <2>6, AfterNow DEF vars, Rest
    <3>. QED  BY <2>6, <3>1 DEF vars, Enum!vars
  <2>. QED  BY <2>1, <2>2, <2>3, <2>4, <2>5, <2>6 DEF Next, Step
<1>. QED  BY <1>1, <1>2, RefInvCorrect, PTL DEF Spec, Enum!SafeSpec
==============================================================================
