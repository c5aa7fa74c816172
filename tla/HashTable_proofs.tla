--------------------------- MODULE HashTable_proofs ---------------------------
(***************************************************************************)
(* Proofs about the hash table, for any number of keys, values and buckets *)
(* and any hash: no extension misplaces or loses an entry, no memory is    *)
(* lost, hints and iterations can be trusted, and the table is a map.      *)
(*                                                                         *)
(* The argument: the buckets are a function of the set of the entries, of  *)
(* the hash and of the capacity (TableOf).  Every operation is shown to be *)
(* one on that set, and what the properties say follows from it.           *)
(***************************************************************************)
EXTENDS HashTable, FiniteSetTheorems, TLAPS

Mask(c) == 0..(2^c - 1)

(* The buckets that hold the entries S, in their places.                   *)
TableOf(h, c, S) == [b \in Mask(c) |-> {e \in S : h[e.key] % 2^c = b}]

OneOfAKey(S) == \A e, f \in S : e.key = f.key => e = f

Of(S, k) == {e \in S : e.key = k}

InPlace ==
  /\ hash \in [Keys -> Hashes]
  /\ capacity \in 0..MaxCap
  /\ Stored \subseteq Entry
  /\ bucket = TableOf(hash, capacity, Stored)
  /\ OneOfAKey(Stored)
  /\ IsFiniteSet(Stored)
-----------------------------------------------------------------------------
(***************************************************************************)
(* Lemmas about buckets.                                                   *)
(***************************************************************************)
LEMMA Places ==
  ASSUME NEW h \in [Keys -> Hashes], NEW c \in 0..MaxCap, NEW e \in Entry
  PROVE  h[e.key] % 2^c \in Mask(c)
<1>1. h[e.key] \in Nat
  BY HashAssumption DEF Entry
<1>2. 2^c \in Nat /\ 2^c > 0
  BY PowerAssumption
<1> QED
  BY <1>1, <1>2 DEF Mask

(* Nothing is lost, and nothing but the entries is in the buckets.         *)
LEMMA AllInPlace ==
  ASSUME NEW h \in [Keys -> Hashes], NEW c \in 0..MaxCap, NEW S \in SUBSET Entry
  PROVE  UNION {TableOf(h, c, S)[b] : b \in Mask(c)} = S
<1>1. ASSUME NEW e \in S PROVE \E b \in Mask(c) : e \in TableOf(h, c, S)[b]
  BY Places DEF TableOf
<1>2. \A b \in Mask(c) : TableOf(h, c, S)[b] \subseteq S
  BY DEF TableOf
<1> QED
  BY <1>1, <1>2

(* A lookup that searches one bucket finds what there is of a key.         *)
LEMMA Finds ==
  ASSUME NEW h \in [Keys -> Hashes], NEW c \in 0..MaxCap, NEW S \in SUBSET Entry,
         NEW k \in Keys
  PROVE  /\ h[k] % 2^c \in Mask(c)
         /\ Match(TableOf(h, c, S)[h[k] % 2^c], k) = Of(S, k)
<1>1. h[k] % 2^c \in Mask(c)
  <2>1. h[k] \in Nat
    BY HashAssumption
  <2>2. 2^c \in Nat /\ 2^c > 0
    BY PowerAssumption
  <2> QED
    BY <2>1, <2>2 DEF Mask
<1> QED
  BY <1>1 DEF Match, TableOf, Of

(* The entry of a key is stored in place of what there was of it.          *)
LEMMA Puts ==
  ASSUME NEW h \in [Keys -> Hashes], NEW c \in 0..MaxCap, NEW S \in SUBSET Entry,
         NEW k \in Keys, NEW v \in Values
  PROVE  LET T == TableOf(h, c, S)
             nb == h[k] % 2^c
         IN [T EXCEPT ![nb] = (@ \ Match(T[nb], k)) \cup {[key |-> k, value |-> v]}]
              = TableOf(h, c, (S \ Of(S, k)) \cup {[key |-> k, value |-> v]})
<1> DEFINE T == TableOf(h, c, S)
           nb == h[k] % 2^c
           new == [key |-> k, value |-> v]
           U == TableOf(h, c, (S \ Of(S, k)) \cup {new})
<1>1. nb \in Mask(c) /\ Match(T[nb], k) = Of(S, k)
  BY Finds
<1>2. new.key = k
  OBVIOUS
<1>3. \A b \in Mask(c) : U[b] = IF b = nb THEN (T[b] \ Of(S, k)) \cup {new} ELSE T[b]
  BY <1>1, <1>2 DEF TableOf, Of
<1>4. U = [b \in Mask(c) |-> IF b = nb THEN (T[b] \ Of(S, k)) \cup {new} ELSE T[b]]
  <2>1. U = [b \in Mask(c) |-> U[b]]
    BY DEF TableOf
  <2> QED
    BY <1>3, <2>1
<1>5. T = [b \in Mask(c) |-> T[b]]
  BY DEF TableOf
<1> HIDE DEF T, U, nb, new
<1>6. [T EXCEPT ![nb] = (@ \ Match(T[nb], k)) \cup {new}] = U
  BY <1>1, <1>4, <1>5
<1> QED
  BY <1>6 DEF T, U, nb, new

(* An entry is taken out of the bucket it is in.                           *)
LEMMA Takes ==
  ASSUME NEW h \in [Keys -> Hashes], NEW c \in 0..MaxCap, NEW S \in SUBSET Entry,
         NEW b \in Mask(c), NEW e \in TableOf(h, c, S)[b]
  PROVE  /\ e \in S
         /\ [TableOf(h, c, S) EXCEPT ![b] = @ \ {e}] = TableOf(h, c, S \ {e})
  BY DEF TableOf

(* An entry gives way to another of its key.                               *)
LEMMA Replaces ==
  ASSUME NEW h \in [Keys -> Hashes], NEW c \in 0..MaxCap, NEW S \in SUBSET Entry,
         NEW b \in Mask(c), NEW e \in TableOf(h, c, S)[b], NEW f, f.key = e.key
  PROVE  [TableOf(h, c, S) EXCEPT ![b] = (@ \ {e}) \cup {f}]
           = TableOf(h, c, (S \ {e}) \cup {f})
  BY DEF TableOf
-----------------------------------------------------------------------------
(***************************************************************************)
(* What each operation does to the set of the entries.                     *)
(***************************************************************************)
LEMMA Stays ==
  ASSUME InPlace, hash' = hash, capacity' \in 0..MaxCap, NEW S \in SUBSET Entry,
         OneOfAKey(S), IsFiniteSet(S), bucket' = TableOf(hash, capacity', S)
  PROVE  InPlace' /\ Stored' = S
<1>1. Stored' = S
  <2>1. Stored' = UNION {bucket'[b] : b \in Mask(capacity')}
    BY DEF Stored, Buckets, Mask
  <2> QED
    BY <2>1, AllInPlace DEF InPlace
<1>2. OneOfAKey(Stored)'
  BY <1>1 DEF OneOfAKey
<1> QED
  BY <1>1, <1>2 DEF InPlace

(* The table as an insertion or an extension finds it.                     *)
LEMMA Extended ==
  ASSUME InPlace, NEW grow \in BOOLEAN, NEW c \in 0..MaxCap,
         c = IF grow THEN NewCap ELSE capacity
  PROVE  (IF grow THEN Rehashed(c) ELSE bucket) = TableOf(hash, c, Stored)
  BY DEF InPlace, Rehashed, Slot, TableOf, Mask

Crowds == \A grow \in Crowded : grow \in BOOLEAN

LEMMA CrowdedIsBoolean == Crowds
<1>1. (size > 2^(capacity - 1)) \in BOOLEAN
  OBVIOUS
<1> QED
  BY <1>1 DEF Crowds, Crowded

LEMMA InsEffect ==
  ASSUME InPlace, NEW k \in Keys, NEW v \in Values, Ins(k, v)
  PROVE  /\ InPlace'
         /\ Stored' = (Stored \ Of(Stored, k)) \cup {[key |-> k, value |-> v]}
         /\ \/ Of(Stored, k) # {} /\ out' = "UPDATED" /\ UNCHANGED <<size, blocks>>
            \/ /\ Of(Stored, k) = {} /\ out' = "INSERTED"
               /\ size' = size + 1 /\ blocks' = blocks + 2
<1> DEFINE new == [key |-> k, value |-> v]
           S == (Stored \ Of(Stored, k)) \cup {new}
<1>1. PICK grow \in Crowded :
        LET c == IF grow THEN NewCap ELSE capacity
            table == IF grow THEN Rehashed(c) ELSE bucket
            nb == Slot(k, c)
            old == Match(table[nb], k)
        IN /\ c <= MaxCap
           /\ capacity' = c
           /\ bucket' = [table EXCEPT ![nb] = (@ \ old) \cup {new}]
           /\ \/ old # {} /\ out' = "UPDATED" /\ UNCHANGED <<size, blocks>>
              \/ /\ old = {}
                 /\ size < MaxSize
                 /\ size' = size + 1 /\ blocks' = blocks + 2
                 /\ out' = "INSERTED"
  BY DEF Ins
<1> DEFINE c == IF grow THEN NewCap ELSE capacity
           T == TableOf(hash, c, Stored)
           nb == hash[k] % 2^c
<1>2. c \in 0..MaxCap /\ grow \in BOOLEAN /\ capacity' = c
  <2>1. c \in Nat /\ grow \in BOOLEAN
    BY CapAssumption, CrowdedIsBoolean DEF InPlace, NewCap, Crowds
  <2> QED
    BY <1>1, <2>1, CapAssumption
<1>3. (IF grow THEN Rehashed(c) ELSE bucket) = T
  BY <1>2, Extended
<1>4. /\ bucket' = [T EXCEPT ![nb] = (@ \ Match(T[nb], k)) \cup {new}]
      /\ \/ Match(T[nb], k) # {} /\ out' = "UPDATED" /\ UNCHANGED <<size, blocks>>
         \/ /\ Match(T[nb], k) = {} /\ out' = "INSERTED"
            /\ size' = size + 1 /\ blocks' = blocks + 2
  <2> HIDE DEF T, c
  <2>1. Slot(k, c) = nb
    BY DEF Slot
  <2> QED
    BY <1>1, <1>3, <2>1 DEF c
<1>5. Match(T[nb], k) = Of(Stored, k)
  BY <1>2, Finds DEF InPlace
<1>6. bucket' = TableOf(hash, capacity', S)
  BY <1>2, <1>4, Puts DEF InPlace
<1>7. S \in SUBSET Entry /\ OneOfAKey(S) /\ IsFiniteSet(S)
  <2>1. Stored \ Of(Stored, k) \subseteq Stored /\ new \in Entry
    BY DEF Entry
  <2>2. IsFiniteSet(S)
    BY <2>1, FS_Subset, FS_AddElement DEF InPlace
  <2> QED
    BY <2>1, <2>2 DEF InPlace, OneOfAKey, Of
<1>8. hash' = hash
  BY DEF Ins
<1>9. InPlace' /\ Stored' = S
  BY <1>2, <1>6, <1>7, <1>8, Stays
<1> QED
  BY <1>4, <1>5, <1>9

(* An entry is erased, or nothing happens.                                 *)
LEMMA EraseEffect ==
  ASSUME InPlace, NEW nb \in Mask(capacity), NEW k \in Keys, Erase(nb, k),
         UNCHANGED <<hash, capacity>>
  PROVE  /\ InPlace'
         /\ \/ \E e \in Stored : /\ e.key = k /\ Stored' = Stored \ {e}
                                 /\ blocks' = blocks - 2
                                 /\ out' = "OK" /\ DropHint(k)
            \/ /\ Match(bucket[nb], k) = {} /\ Stored' = Stored
               /\ out' = "NOENT" /\ UNCHANGED <<blocks, hint>>
<1>1. CASE \E e \in Match(bucket[nb], k) :
             /\ bucket' = [bucket EXCEPT ![nb] = @ \ {e}]
             /\ blocks' = blocks - 2
             /\ out' = "OK"
             /\ DropHint(k)
  <2>1. PICK e \in Match(bucket[nb], k) :
             /\ bucket' = [bucket EXCEPT ![nb] = @ \ {e}]
             /\ blocks' = blocks - 2
             /\ out' = "OK"
             /\ DropHint(k)
    BY <1>1
  <2>2. e.key = k /\ e \in TableOf(hash, capacity, Stored)[nb]
    BY DEF Match, InPlace
  <2>3. e \in Stored /\ bucket' = TableOf(hash, capacity', Stored \ {e})
    <3>1. /\ e \in Stored
          /\ [TableOf(hash, capacity, Stored) EXCEPT ![nb] = @ \ {e}]
               = TableOf(hash, capacity, Stored \ {e})
      BY <2>2, Takes DEF InPlace
    <3>2. bucket = TableOf(hash, capacity, Stored) /\ capacity' = capacity
      BY DEF InPlace
    <3>3. bucket' = [bucket EXCEPT ![nb] = @ \ {e}]
      BY <2>1
    <3> QED
      BY <3>1, <3>2, <3>3
  <2>4. /\ Stored \ {e} \in SUBSET Entry /\ OneOfAKey(Stored \ {e})
        /\ IsFiniteSet(Stored \ {e})
    BY FS_RemoveElement DEF InPlace, OneOfAKey
  <2>5. InPlace' /\ Stored' = Stored \ {e}
    BY <2>3, <2>4, Stays DEF InPlace
  <2> QED
    BY <2>1, <2>2, <2>3, <2>5
<1>2. CASE /\ Match(bucket[nb], k) = {}
           /\ out' = "NOENT"
           /\ UNCHANGED <<bucket, blocks, hint>>
  <2>1. InPlace' /\ Stored' = Stored
    BY <1>2, Stays DEF InPlace
  <2> QED
    BY <1>2, <2>1
<1> QED
  BY <1>1, <1>2 DEF Erase

(* An extension, or a failed insertion, keeps the entries.                 *)
LEMMA KeepEffect ==
  ASSUME InPlace, hash' = hash,
         \/ UNCHANGED <<bucket, capacity>>
         \/ \E c \in 0..MaxCap : capacity' = c /\ bucket' = TableOf(hash, c, Stored)
  PROVE  InPlace' /\ Stored' = Stored
  BY Stays DEF InPlace

LEMMA RebuildEffect == InPlace /\ Rebuild => InPlace' /\ Stored' = Stored
<1> SUFFICES ASSUME InPlace, Rebuild PROVE InPlace' /\ Stored' = Stored
  OBVIOUS
<1>1. CASE NewCap <= MaxCap /\ capacity' = NewCap /\ bucket' = Rehashed(NewCap)
  <2>1. NewCap \in 0..MaxCap
    BY <1>1, CapAssumption DEF NewCap, InPlace
  <2>2. Rehashed(NewCap) = TableOf(hash, NewCap, Stored)
    BY <2>1, Extended
  <2> QED
    BY <1>1, <2>1, <2>2, KeepEffect DEF Rebuild
<1>2. CASE UNCHANGED <<bucket, capacity>>
  BY <1>2, KeepEffect DEF Rebuild
<1> QED
  BY <1>1, <1>2 DEF Rebuild

LEMMA CannotAddEffect ==
  ASSUME InPlace, NEW k \in Keys, InsCannotAdd(k)
  PROVE  InPlace' /\ Stored' = Stored
<1>1. PICK grow \in Crowded :
        LET c == IF grow THEN NewCap ELSE capacity
            table == IF grow THEN Rehashed(c) ELSE bucket
        IN /\ c <= MaxCap
           /\ capacity' = c
           /\ bucket' = table
  BY DEF InsCannotAdd
<1> DEFINE c == IF grow THEN NewCap ELSE capacity
<1>2. c \in 0..MaxCap /\ grow \in BOOLEAN
  <2>1. c \in Nat /\ grow \in BOOLEAN
    BY CapAssumption, CrowdedIsBoolean DEF InPlace, NewCap, Crowds
  <2> QED
    BY <1>1, <2>1, CapAssumption
<1>3. (IF grow THEN Rehashed(c) ELSE bucket) = TableOf(hash, c, Stored)
  BY <1>2, Extended
<1>4. capacity' = c /\ bucket' = TableOf(hash, c, Stored)
  BY <1>1, <1>3
<1> QED
  BY <1>2, <1>4, KeepEffect DEF InsCannotAdd

LEMMA RenewEffect ==
  ASSUME InPlace, NEW c \in DftCaps, Renew(c)
  PROVE  InPlace' /\ Stored' = {}
<1>1. c \in 0..MaxCap
  BY CapAssumption
<1>2. bucket' = TableOf(hash, c, {})
  BY DEF Renew, TableOf, Mask
<1>3. {} \in SUBSET Entry /\ OneOfAKey({}) /\ IsFiniteSet({})
  BY FS_EmptySet DEF OneOfAKey
<1> QED
  BY <1>1, <1>2, <1>3, Stays DEF Renew

(* The callback of an iteration changes the value of an entry.             *)
LEMMA VisitEffect ==
  ASSUME InPlace, NEW v \in Values, IterVisit(v), pos \in Buckets
  PROVE  /\ InPlace'
         /\ \E e \in Stored :
              /\ e \in bucket[pos] /\ e.key \notin seen
              /\ seen' = seen \cup {e.key}
              /\ Stored' = (Stored \ {e}) \cup {[e EXCEPT !.value = v]}
<1>1. PICK e \in Unseen :
        /\ bucket' = [bucket EXCEPT ![pos] = (@ \ {e}) \cup {[e EXCEPT !.value = v]}]
        /\ seen' = seen \cup {e.key}
  BY DEF IterVisit
<1> DEFINE f == [e EXCEPT !.value = v]
<1>2. e \in bucket[pos] /\ e.key \notin seen
  BY DEF Unseen
<1>3. e \in TableOf(hash, capacity, Stored)[pos] /\ pos \in Mask(capacity)
  BY <1>2 DEF InPlace, Mask, Buckets
<1>4. e \in Stored /\ e \in Entry
  BY <1>3, Takes DEF InPlace
<1>5. f \in Entry /\ f.key = e.key
  BY <1>4 DEF Entry
<1>6. bucket' = TableOf(hash, capacity', (Stored \ {e}) \cup {f})
  <2>1. [TableOf(hash, capacity, Stored) EXCEPT ![pos] = (@ \ {e}) \cup {f}]
          = TableOf(hash, capacity, (Stored \ {e}) \cup {f})
    <3> HIDE DEF f
    <3> QED
      BY <1>3, <1>5, Replaces DEF InPlace
  <2>2. bucket = TableOf(hash, capacity, Stored) /\ capacity' = capacity
    BY DEF InPlace, IterVisit
  <2>3. bucket' = [bucket EXCEPT ![pos] = (@ \ {e}) \cup {f}]
    BY <1>1
  <2> QED
    BY <2>1, <2>2, <2>3
<1>7. /\ (Stored \ {e}) \cup {f} \in SUBSET Entry
      /\ OneOfAKey((Stored \ {e}) \cup {f})
      /\ IsFiniteSet((Stored \ {e}) \cup {f})
  BY <1>4, <1>5, FS_RemoveElement, FS_AddElement DEF InPlace, OneOfAKey
<1>8. InPlace' /\ Stored' = (Stored \ {e}) \cup {f}
  BY <1>6, <1>7, Stays DEF InPlace, IterVisit
<1> QED
  BY <1>1, <1>2, <1>4, <1>8
-----------------------------------------------------------------------------
(***************************************************************************)
(* The invariant.  A hint names an entry that is stored, in the bucket it  *)
(* had when the table was of the hint's capacity; an iteration has visited *)
(* what is in the buckets before the one it is in.                         *)
(***************************************************************************)
KeysOf(S) == {e.key : e \in S}

HintKept == hint # NULL =>
  /\ hint.key \in KeysOf(Stored)
  /\ hint.capacity \in 0..capacity
  /\ hint.nb = hash[hint.key] % 2^hint.capacity

IterKept ==
  /\ pos # NULL => /\ pos \in Buckets
                   /\ out # "DONE"
                   /\ seen \subseteq KeysOf(Stored)
                   /\ \A b \in 0..(pos - 1) : \A e \in bucket[b] : e.key \in seen
  /\ out = "DONE" => seen = KeysOf(Stored)

Memory == blocks \in Nat /\ NoLeak

IInv == InPlace /\ HintKept /\ IterKept /\ Memory

LEMMA StoredKeys == InPlace => KeysOf(Stored) \subseteq Keys
  BY DEF InPlace, KeysOf, Entry

(* The bucket of a hint is one of the table, that has grown perhaps.       *)
LEMMA HintPlace ==
  ASSUME InPlace, HintKept, hint # NULL
  PROVE  hint.nb \in Mask(capacity) /\ hint.key \in Keys
<1>1. hint.key \in Keys /\ hint.capacity \in 0..MaxCap /\ hint.capacity <= capacity
  BY StoredKeys, CapAssumption DEF HintKept, InPlace
<1>2. hint.nb \in Mask(hint.capacity)
  BY <1>1, Finds DEF HintKept, InPlace
<1>3. /\ capacity \in 0..MaxCap
      /\ 2^capacity \in Nat /\ 2^hint.capacity \in Nat \ {0}
      /\ hint.capacity < capacity => 2 * 2^hint.capacity <= 2^capacity
  BY <1>1, PowerAssumption DEF InPlace
<1>4. 2^hint.capacity <= 2^capacity
  <2>1. CASE hint.capacity = capacity
    BY <1>3, <2>1
  <2>2. CASE hint.capacity < capacity
    BY <1>3, <2>2
  <2> QED
    BY <1>1, <1>3, <2>1, <2>2, CapAssumption
<1> QED
  BY <1>1, <1>2, <1>3, <1>4 DEF Mask

(* Every step, as one on the set of the entries.                           *)
Kept == Stored' = Stored
Erased(k) == \E e \in Stored : e.key = k /\ Stored' = Stored \ {e} /\ blocks' = blocks - 2

LEMMA RemoveEffect ==
  ASSUME InPlace, NEW k \in Keys, Remove(k)
  PROVE  /\ InPlace'
         /\ \/ Erased(k) /\ out' = "OK" /\ DropHint(k)
            \/ /\ Of(Stored, k) = {} /\ Kept /\ out' = "NOENT"
               /\ UNCHANGED <<blocks, hint>>
<1>1. /\ Slot(k, capacity) \in Mask(capacity)
      /\ Match(bucket[Slot(k, capacity)], k) = Of(Stored, k)
  BY Finds DEF InPlace, Slot
<1> QED
  BY <1>1, EraseEffect DEF Remove, Erased, Kept

LEMMA HintedEffect ==
  ASSUME InPlace, HintKept, EraseHinted
  PROVE  /\ hint.key \in Keys
         /\ InPlace'
         /\ \/ Erased(hint.key) /\ out' = "OK" /\ DropHint(hint.key)
            \/ Kept /\ out' = "NOENT" /\ UNCHANGED <<blocks, hint>>
  BY HintPlace, EraseEffect DEF EraseHinted, Erased, Kept

LEMMA ReadEffect ==
  ASSUME InPlace, UNCHANGED <<hash, bucket, capacity>>
  PROVE  InPlace' /\ Kept
  BY KeepEffect DEF Kept

LEMMA NextInPlace == IInv /\ [Next]_vars => InPlace'
<1> SUFFICES ASSUME InPlace, HintKept, IterKept, [Next]_vars PROVE InPlace'
  BY DEF IInv
<1>1. ASSUME NEW k \in Keys, NEW v \in Values, Ins(k, v) PROVE InPlace'
  BY <1>1, InsEffect
<1>2. ASSUME NEW k \in Keys, InsCannotAdd(k) \/ Remove(k) PROVE InPlace'
  BY <1>2, CannotAddEffect, RemoveEffect
<1>3. CASE EraseHinted
  BY <1>3, HintedEffect
<1>4. CASE Rebuild
  BY <1>4, RebuildEffect
<1>5. ASSUME NEW c \in DftCaps, Renew(c) PROVE InPlace'
  BY <1>5, RenewEffect
<1>6. ASSUME NEW v \in Values, IterVisit(v) PROVE InPlace'
  BY <1>6, VisitEffect DEF IterKept, IterVisit
<1>7. ASSUME \/ InsCannotExtend \/ IterBegin \/ IterNext \/ UNCHANGED vars
             \/ \E k \in Keys : Get(k) \/ Lookup(k)
      PROVE  InPlace'
  BY <1>7, ReadEffect DEF InsCannotExtend, IterBegin, IterNext, Get, Lookup, vars, store
<1> QED
  BY <1>1, <1>2, <1>3, <1>4, <1>5, <1>6, <1>7 DEF Next

LEMMA NextMemory == IInv /\ [Next]_vars => Memory'
<1> SUFFICES ASSUME InPlace, HintKept, IterKept, Memory, [Next]_vars PROVE Memory'
  BY DEF IInv
<1>0. IsFiniteSet(Stored) /\ Cardinality(Stored) \in Nat
  BY FS_CardinalityType DEF InPlace
<1>1. ASSUME NEW k \in Keys, NEW v \in Values, Ins(k, v) PROVE Memory'
  <2> DEFINE new == [key |-> k, value |-> v]
  <2>1. CASE Of(Stored, k) = {}
    <3>1. Stored' = Stored \cup {new} /\ new \notin Stored /\ blocks' = blocks + 2
      BY <1>1, <2>1, InsEffect DEF Of
    <3>2. Cardinality(Stored') = Cardinality(Stored) + 1
      BY <1>0, <3>1, FS_AddElement
    <3> QED
      BY <1>0, <3>1, <3>2 DEF Memory, NoLeak
  <2>2. CASE Of(Stored, k) # {}
    <3>1. PICK e \in Stored : e.key = k /\ Of(Stored, k) = {e}
      BY <2>2 DEF Of, InPlace, OneOfAKey
    <3>2. Stored' = (Stored \ {e}) \cup {new} /\ blocks' = blocks
      BY <1>1, <2>2, <3>1, InsEffect
    <3>3. new \notin Stored \ {e}
      BY <3>1 DEF InPlace, OneOfAKey
    <3>4. /\ IsFiniteSet(Stored \ {e})
          /\ Cardinality(Stored \ {e}) = Cardinality(Stored) - 1
      BY <1>0, FS_RemoveElement
    <3>5. Cardinality(Stored') = Cardinality(Stored)
      <4>1. Cardinality((Stored \ {e}) \cup {new}) = Cardinality(Stored \ {e}) + 1
        <5> HIDE DEF new
        <5> QED
          BY <3>3, <3>4, FS_AddElement
      <4> QED
        BY <1>0, <3>2, <3>4, <4>1
    <3> QED
      BY <1>0, <3>2, <3>5 DEF Memory, NoLeak
  <2> QED
    BY <2>1, <2>2
<1>2. ASSUME Kept, UNCHANGED blocks PROVE Memory'
  BY <1>2 DEF Memory, NoLeak, Kept
<1>3. ASSUME NEW k \in Keys, Erased(k) PROVE Memory'
  <2>1. PICK e \in Stored : Stored' = Stored \ {e} /\ blocks' = blocks - 2
    BY <1>3 DEF Erased
  <2>2. Cardinality(Stored \ {e}) \in Nat /\ Cardinality(Stored \ {e}) = Cardinality(Stored) - 1
    BY <1>0, FS_RemoveElement, FS_CardinalityType
  <2> QED
    BY <1>0, <2>1, <2>2 DEF Memory, NoLeak
<1>4. ASSUME NEW k \in Keys, InsCannotAdd(k) \/ Remove(k) PROVE Memory'
  <2>1. CASE InsCannotAdd(k)
    BY <1>2, <2>1, CannotAddEffect DEF InsCannotAdd, Kept
  <2>2. CASE Remove(k)
    BY <1>2, <1>3, <2>2, RemoveEffect
  <2> QED
    BY <1>4, <2>1, <2>2
<1>5. CASE EraseHinted
  BY <1>2, <1>3, <1>5, HintedEffect
<1>6. CASE Rebuild
  BY <1>2, <1>6, RebuildEffect DEF Rebuild, Kept
<1>7. ASSUME NEW c \in DftCaps, Renew(c) PROVE Memory'
  <2>1. Stored' = {} /\ Cardinality({}) = 0
    BY <1>7, RenewEffect, FS_EmptySet
  <2>2. blocks' = 2
    BY <1>0, <1>7 DEF Renew, Memory, NoLeak
  <2> QED
    BY <2>1, <2>2 DEF Memory, NoLeak
<1>8. ASSUME NEW v \in Values, IterVisit(v) PROVE Memory'
  <2>1. PICK e \in Stored : Stored' = (Stored \ {e}) \cup {[e EXCEPT !.value = v]}
    BY <1>8, VisitEffect DEF IterKept, IterVisit
  <2> DEFINE f == [e EXCEPT !.value = v]
  <2>2. f.key = e.key /\ f \notin Stored \ {e}
    <3>1. e \in Entry
      BY DEF InPlace
    <3>2. f.key = e.key
      BY <3>1 DEF Entry
    <3> QED
      BY <3>2 DEF InPlace, OneOfAKey
  <2>3. IsFiniteSet(Stored \ {e}) /\ Cardinality(Stored \ {e}) = Cardinality(Stored) - 1
    BY <1>0, FS_RemoveElement
  <2>4. Cardinality(Stored') = Cardinality(Stored)
    <3> HIDE DEF f
    <3>1. Stored' = (Stored \ {e}) \cup {f}
      BY <2>1 DEF f
    <3>2. Cardinality((Stored \ {e}) \cup {f}) = Cardinality(Stored \ {e}) + 1
      BY <2>2, <2>3, FS_AddElement
    <3> QED
      BY <1>0, <2>3, <3>1, <3>2
  <2> QED
    BY <1>8, <2>4 DEF IterVisit, Memory, NoLeak
<1>9. ASSUME \/ InsCannotExtend \/ IterBegin \/ IterNext \/ UNCHANGED vars
             \/ \E k \in Keys : Get(k) \/ Lookup(k)
      PROVE  Memory'
  BY <1>2, <1>9, ReadEffect
  DEF InsCannotExtend, IterBegin, IterNext, Get, Lookup, vars, store
<1> QED
  BY <1>1, <1>4, <1>5, <1>6, <1>7, <1>8, <1>9 DEF Next

LEMMA HintStays ==
  ASSUME HintKept, InPlace, hint' = hint, hash' = hash, capacity' \in Nat,
         capacity <= capacity', KeysOf(Stored) \subseteq KeysOf(Stored')
  PROVE  HintKept'
<1>1. hint # NULL => /\ hint.key \in KeysOf(Stored')
                    /\ hint.capacity \in 0..capacity'
  BY CapAssumption DEF HintKept, InPlace
<1> QED
  BY <1>1 DEF HintKept, KeysOf

LEMMA HintDropped ==
  ASSUME HintKept, InPlace, hash' = hash, capacity' = capacity, NEW k \in Keys,
         Erased(k), DropHint(k)
  PROVE  HintKept'
<1>1. PICK e \in Stored : e.key = k /\ Stored' = Stored \ {e}
  BY DEF Erased
<1>2. hint' # NULL => hint' = hint /\ hint # NULL /\ hint.key # k
  BY DEF DropHint
<1>3. hint' # NULL => hint.key \in KeysOf(Stored')
  BY <1>1, <1>2 DEF HintKept, KeysOf
<1> QED
  BY <1>2, <1>3 DEF HintKept, KeysOf

LEMMA NewCapGrows == InPlace => NewCap \in Nat /\ capacity <= NewCap
  BY CapAssumption DEF InPlace, NewCap

LEMMA NextHint == IInv /\ [Next]_vars => HintKept'
<1> SUFFICES ASSUME InPlace, HintKept, IterKept, [Next]_vars PROVE HintKept'
  BY DEF IInv
<1>0. capacity \in Nat
  BY CapAssumption DEF InPlace
<1>1. ASSUME NEW k \in Keys, NEW v \in Values, Ins(k, v) PROVE HintKept'
  <2> DEFINE new == [key |-> k, value |-> v]
  <2>1. /\ Stored' = (Stored \ Of(Stored, k)) \cup {new}
        /\ new.key = k
        /\ UNCHANGED <<hash, hint>>
    BY <1>1, InsEffect DEF Ins
  <2>3. capacity' \in Nat /\ capacity <= capacity'
    <3>1. capacity' \in {capacity, NewCap}
      BY <1>1 DEF Ins
    <3> QED
      BY <1>0, <3>1, NewCapGrows
  <2>2. KeysOf(Stored) \subseteq KeysOf(Stored')
    <3> HIDE DEF new
    <3> SUFFICES ASSUME NEW e \in Stored PROVE \E f \in Stored' : f.key = e.key
      BY DEF KeysOf
    <3>1. CASE e.key = k
      <4>1. new \in Stored' /\ new.key = e.key
        BY <2>1, <3>1
      <4> QED
        BY <4>1
    <3>2. CASE e.key # k
      BY <2>1, <3>2 DEF Of
    <3> QED
      BY <3>1, <3>2
  <2> QED
    BY <1>1, <2>1, <2>2, <2>3, HintStays
<1>2. ASSUME NEW k \in Keys, InsCannotAdd(k) PROVE HintKept'
  <2>1. /\ capacity' \in Nat /\ capacity <= capacity'
        /\ UNCHANGED <<hash, hint>>
    BY <1>0, <1>2, NewCapGrows DEF InsCannotAdd
  <2> QED
    BY <1>2, <2>1, CannotAddEffect, HintStays
<1>3. ASSUME NEW k \in Keys, Remove(k) PROVE HintKept'
  <2>1. CASE Erased(k) /\ DropHint(k)
    BY <1>3, <2>1, HintDropped DEF Remove
  <2>2. CASE Kept /\ UNCHANGED hint
    BY <1>0, <1>3, <2>2, HintStays DEF Remove, Kept
  <2> QED
    BY <1>3, <2>1, <2>2, RemoveEffect
<1>4. CASE EraseHinted
  <2>1. CASE hint.key \in Keys /\ Erased(hint.key) /\ DropHint(hint.key)
    BY <1>4, <2>1, HintDropped DEF EraseHinted
  <2>2. CASE Kept /\ UNCHANGED hint
    BY <1>0, <1>4, <2>2, HintStays DEF EraseHinted, Kept
  <2> QED
    BY <1>4, <2>1, <2>2, HintedEffect
<1>5. CASE Rebuild
  <2>1. /\ capacity' \in Nat /\ capacity <= capacity'
        /\ UNCHANGED <<hash, hint>>
    BY <1>0, <1>5, NewCapGrows DEF Rebuild
  <2> QED
    BY <1>5, <2>1, RebuildEffect, HintStays
<1>6. ASSUME NEW c \in DftCaps, Renew(c) PROVE HintKept'
  BY <1>6 DEF Renew, HintKept
<1>7. ASSUME NEW v \in Values, IterVisit(v) PROVE HintKept'
  <2>1. PICK e \in Stored : Stored' = (Stored \ {e}) \cup {[e EXCEPT !.value = v]}
    BY <1>7, VisitEffect DEF IterKept, IterVisit
  <2>2. [e EXCEPT !.value = v].key = e.key
    BY DEF InPlace, Entry
  <2>3. KeysOf(Stored) \subseteq KeysOf(Stored')
    BY <2>1, <2>2 DEF KeysOf
  <2> QED
    BY <1>0, <1>7, <2>3, HintStays DEF IterVisit
<1>8. ASSUME NEW k \in Keys, Lookup(k) PROVE HintKept'
  <2>1. /\ Of(Stored, k) # {}
        /\ hint' = [key |-> k, nb |-> hash[k] % 2^capacity, capacity |-> capacity]
        /\ UNCHANGED <<hash, bucket, capacity>>
    BY <1>8, Finds DEF Lookup, Found, Slot, InPlace, store
  <2>2. k \in KeysOf(Stored')
    BY <2>1, ReadEffect DEF Of, KeysOf, Kept
  <2> QED
    BY <1>0, <2>1, <2>2 DEF HintKept, KeysOf
<1>9. ASSUME \/ InsCannotExtend \/ IterBegin \/ IterNext \/ UNCHANGED vars
             \/ \E k \in Keys : Get(k)
      PROVE  HintKept'
  <2>1. UNCHANGED <<hash, bucket, capacity, hint>>
    BY <1>9 DEF InsCannotExtend, IterBegin, IterNext, Get, vars, store
  <2> QED
    BY <1>0, <2>1, ReadEffect, HintStays DEF Kept
<1> QED
  BY <1>1, <1>2, <1>3, <1>4, <1>5, <1>6, <1>7, <1>8, <1>9 DEF Next

LEMMA NextIter == IInv /\ [Next]_vars => IterKept'
<1> SUFFICES ASSUME InPlace, HintKept, IterKept, [Next]_vars PROVE IterKept'
  BY DEF IInv
<1>0. 2^capacity \in Nat \ {0} /\ Buckets = 0..(2^capacity - 1)
  BY PowerAssumption DEF InPlace, Buckets
<1>1. ASSUME Quiet, out' # "DONE" PROVE IterKept'
  BY <1>1 DEF Quiet, IterKept
<1>2. ASSUME NEW k \in Keys, Get(k) PROVE IterKept'
  <2>1. out' \in Values \cup {NULL}
    <3>1. Found(k) \subseteq Entry
      BY Finds DEF Found, Slot, InPlace, Of
    <3> QED
      BY <1>2, <3>1 DEF Get, Entry
  <2> QED
    BY <1>1, <1>2, <2>1, NULLAssumption, ValuesAssumption DEF Get, Codes
<1>3. ASSUME \/ InsCannotExtend \/ EraseHinted \/ Rebuild
             \/ \E k \in Keys : InsCannotAdd(k) \/ Remove(k) \/ Lookup(k)
             \/ \E k \in Keys, v \in Values : Ins(k, v)
             \/ \E c \in DftCaps : Renew(c)
      PROVE  IterKept'
  BY <1>1, <1>3
  DEF InsCannotExtend, EraseHinted, Rebuild, InsCannotAdd, Remove, Lookup, Ins, Renew, Erase
<1>4. CASE IterBegin
  <2>1. pos' = 0 /\ seen' = {} /\ out' = "VISITED" /\ capacity' = capacity
    BY <1>4 DEF IterBegin, store
  <2>2. 0 \in Buckets'
    BY <1>0, <2>1 DEF Buckets
  <2> QED
    BY <2>1, <2>2 DEF IterKept, KeysOf
<1>5. ASSUME NEW v \in Values, IterVisit(v) PROVE IterKept'
  <2>1. pos \in Buckets /\ pos # NULL /\ capacity' = capacity /\ out' = "VISITED"
        /\ pos' \in {pos, NULL}
    BY <1>5 DEF IterVisit, IterKept
  <2>2. PICK e \in Stored :
          /\ seen' = seen \cup {e.key}
          /\ Stored' = (Stored \ {e}) \cup {[e EXCEPT !.value = v]}
    BY <1>5, <2>1, VisitEffect
  <2>3. [e EXCEPT !.value = v].key = e.key
    BY DEF InPlace, Entry
  <2>4. seen' \subseteq KeysOf(Stored')
    BY <2>1, <2>2, <2>3 DEF KeysOf, IterKept
  <2>5. \A b \in 0..(pos - 1) : bucket'[b] = bucket[b]
    <3>1. \A b \in 0..(pos - 1) : b # pos /\ b \in Buckets
      BY <1>0, <2>1
    <3>2. bucket = [b \in Buckets |-> bucket[b]]
      BY DEF InPlace, TableOf, Mask, Buckets
    <3> QED
      BY <1>5, <3>1, <3>2 DEF IterVisit
  <2>6. \A b \in 0..(pos - 1) : \A x \in bucket'[b] : x.key \in seen'
    BY <2>1, <2>2, <2>5 DEF IterKept
  <2> QED
    BY <2>1, <2>4, <2>6 DEF IterKept, Buckets, KeysOf
<1>6. CASE IterNext
  <2>1. /\ pos # NULL /\ pos \in Buckets /\ Unseen = {} /\ out # "DONE"
        /\ UNCHANGED <<hash, bucket, capacity, seen>>
        /\ seen \subseteq KeysOf(Stored)
    BY <1>6 DEF IterNext, IterKept, store
  <2>2. \A b \in 0..pos : \A e \in bucket[b] : e.key \in seen
    <3>1. \A b \in 0..pos : b = pos \/ b \in 0..(pos - 1)
      BY <1>0, <2>1
    <3>2. \A e \in bucket[pos] : e.key \in seen
      BY <2>1 DEF Unseen
    <3> QED
      BY <2>1, <3>1, <3>2 DEF IterKept
  <2>3. Stored' = Stored
    BY <2>1, ReadEffect DEF Kept
  <2>4. CASE pos + 1 < 2^capacity
    <3>1. pos' = pos + 1 /\ out' = out /\ pos' \in Buckets' /\ pos' - 1 = pos
      BY <1>0, <1>6, <2>1, <2>4 DEF IterNext, Buckets
    <3> QED
      BY <2>1, <2>2, <2>3, <3>1 DEF IterKept, KeysOf
  <2>5. CASE ~(pos + 1 < 2^capacity)
    <3>1. pos' = NULL
      BY <1>6, <2>5 DEF IterNext
    <3>2. \A b \in Buckets : b \in 0..pos
      BY <1>0, <2>1, <2>5
    <3>3. KeysOf(Stored) \subseteq seen
      BY <2>2, <3>2 DEF KeysOf, Stored
    <3> QED
      BY <2>1, <2>3, <3>1, <3>3 DEF IterKept, KeysOf
  <2> QED
    BY <2>4, <2>5
<1>7. CASE UNCHANGED vars
  BY <1>7 DEF vars, IterKept, Buckets, Stored, KeysOf
<1> QED
  BY <1>2, <1>3, <1>4, <1>5, <1>6, <1>7 DEF Next

LEMMA InitIInv == Init => IInv
<1> SUFFICES ASSUME Init PROVE IInv
  OBVIOUS
<1>1. capacity \in 0..MaxCap
  BY CapAssumption DEF Init
<1>2. Stored = {}
  BY DEF Init, Stored
<1>3. IsFiniteSet({}) /\ Cardinality({}) = 0
  BY FS_EmptySet
<1>4. InPlace
  BY <1>1, <1>2, <1>3 DEF Init, InPlace, TableOf, Mask, Buckets, OneOfAKey
<1> QED
  BY <1>2, <1>3, <1>4 DEF Init, IInv, HintKept, IterKept, Memory, NoLeak

LEMMA Invariance == Spec => []IInv
BY InitIInv, NextInPlace, NextHint, NextIter, NextMemory, PTL DEF Spec, IInv
-----------------------------------------------------------------------------
(* The memory held is that of the table and of its entries, whatever       *)
(* allocation failed (hdql_ht_ins).                                        *)
THEOREM NothingLeaks == Spec => []NoLeak
<1>1. IInv => NoLeak
  BY DEF IInv, Memory
<1> QED
  BY <1>1, Invariance, PTL

(* The bucket number of a hint passes the assertion of hdql_ht_erase, and  *)
(* finds its entry unless the table was extended since.                    *)
THEOREM HintsHold == Spec => []HintHolds
<1>1. IInv => HintHolds
  <2> SUFFICES ASSUME InPlace, HintKept, hint # NULL
               PROVE  /\ hint.nb < 2^capacity
                      /\ hint.capacity = capacity => Match(bucket[hint.nb], hint.key) # {}
    BY DEF IInv, HintHolds
  <2>1. hint.nb \in Mask(capacity) /\ hint.key \in Keys
    BY HintPlace
  <2>2. 2^capacity \in Nat
    BY PowerAssumption DEF InPlace
  <2>3. hint.capacity = capacity => Match(bucket[hint.nb], hint.key) = Of(Stored, hint.key)
    BY <2>1, Finds DEF InPlace, HintKept
  <2> QED
    BY <2>1, <2>2, <2>3 DEF Mask, HintKept, KeysOf, Of
<1> QED
  BY <1>1, Invariance, PTL

(* An iteration that was not stopped has visited every key (hdql_ht_iter). *)
THEOREM IterationsComplete == Spec => []IterComplete
<1>1. IInv => IterComplete
  BY DEF IInv, IterKept, IterComplete, KeysOf
<1> QED
  BY <1>1, Invariance, PTL
-----------------------------------------------------------------------------
(***************************************************************************)
(* The load.  A table created with one bucket grows to 32 when it is found *)
(* crowded, and the condition that says so is undefined: the bound is that *)
(* of tables created with two buckets or more.                             *)
(***************************************************************************)
Load == /\ capacity # 0
        /\ size \in Nat
        /\ Cardinality(Stored) <= size
        /\ size <= 2^(capacity - 1) + 1

LEMMA Halves ==
  ASSUME NEW c \in 0..MaxCap, c # 0
  PROVE  /\ 2^(c - 1) \in Nat \ {0}
         /\ 2 * 2^(c - 1) <= 2^c
<1>1. c - 1 \in 0..MaxCap /\ c - 1 \in 0..(c - 1)
  BY CapAssumption
<1> QED
  BY <1>1, PowerAssumption

LEMMA NextLoad ==
  ASSUME 0 \notin DftCaps, IInv, Load, [Next]_vars
  PROVE  Load'
<1> USE DEF IInv
<1>0. /\ IsFiniteSet(Stored) /\ Cardinality(Stored) \in Nat
      /\ 2^(capacity - 1) \in Nat \ {0}
      /\ capacity \in 0..MaxCap /\ capacity \in Nat
  <2>1. capacity \in 0..MaxCap /\ capacity \in Nat /\ capacity # 0 /\ IsFiniteSet(Stored)
    BY CapAssumption DEF InPlace, Load
  <2> QED
    BY <2>1, FS_CardinalityType, Halves
<1>1. ASSUME capacity' \in {capacity, NewCap}, capacity' \in 0..MaxCap
      PROVE  /\ capacity' # 0
             /\ 2^(capacity - 1) <= 2^(capacity' - 1)
             /\ 2^(capacity' - 1) \in Nat \ {0}
             /\ capacity' = NewCap => 2 * 2^(capacity - 1) <= 2^(capacity' - 1)
  <2>1. NewCap = capacity + 1
    BY DEF NewCap, Load
  <2>2. CASE capacity' = capacity
    BY <1>0, <2>1, <2>2 DEF Load
  <2>3. CASE capacity' = capacity + 1
    <3>1. capacity' - 1 = capacity
      BY <1>0, <2>3
    <3>2. 2 * 2^(capacity - 1) <= 2^capacity /\ 2^capacity \in Nat \ {0}
      BY <1>0, Halves, PowerAssumption DEF Load
    <3> QED
      BY <1>0, <2>3, <3>1, <3>2
  <2> QED
    BY <1>1, <2>1, <2>2, <2>3
<1>2. ASSUME Kept, UNCHANGED size, capacity' \in {capacity, NewCap}, InPlace'
      PROVE  Load'
  <2>1. capacity' \in 0..MaxCap
    BY <1>2 DEF InPlace
  <2>2. /\ capacity' # 0 /\ 2^(capacity' - 1) \in Nat
        /\ 2^(capacity - 1) <= 2^(capacity' - 1)
    BY <1>1, <1>2, <2>1
  <2>3. Stored' = Stored /\ size' = size /\ Cardinality(Stored') = Cardinality(Stored)
    BY <1>2 DEF Kept
  <2>4. size' <= 2^(capacity' - 1) + 1
    BY <1>0, <2>2, <2>3 DEF Load
  <2> QED
    BY <1>0, <2>2, <2>3, <2>4 DEF Load
<1>3. ASSUME NEW k \in Keys, NEW v \in Values, Ins(k, v) PROVE Load'
  <2> DEFINE new == [key |-> k, value |-> v]
  <2>1. /\ InPlace'
        /\ Stored' = (Stored \ Of(Stored, k)) \cup {new}
        /\ \/ Of(Stored, k) # {} /\ UNCHANGED size
           \/ Of(Stored, k) = {} /\ size' = size + 1
    BY <1>3, InsEffect
  <2>2. PICK grow \in Crowded : capacity' = IF grow THEN NewCap ELSE capacity
    BY <1>3 DEF Ins
  <2>3. capacity' \in {capacity, NewCap} /\ capacity' \in 0..MaxCap
    BY <2>1, <2>2 DEF InPlace
  <2>4. CASE Of(Stored, k) # {} /\ UNCHANGED size
    <3>1. PICK e \in Stored : Of(Stored, k) = {e}
      BY <2>4 DEF Of, InPlace, OneOfAKey
    <3>2. IsFiniteSet(Stored \ {e}) /\ Cardinality(Stored \ {e}) = Cardinality(Stored) - 1
      BY <1>0, FS_RemoveElement
    <3>3. Cardinality((Stored \ {e}) \cup {new}) <= Cardinality(Stored)
      <4> HIDE DEF new
      <4>1. \/ Cardinality((Stored \ {e}) \cup {new}) = Cardinality(Stored \ {e}) + 1
            \/ Cardinality((Stored \ {e}) \cup {new}) = Cardinality(Stored \ {e})
        BY <3>2, FS_AddElement
      <4> QED
        BY <1>0, <3>2, <4>1
    <3>4. /\ Cardinality(Stored') <= Cardinality(Stored)
          /\ Cardinality(Stored') \in Nat
      <4>1. Stored' = (Stored \ {e}) \cup {new}
        BY <2>1, <3>1
      <4>2. Cardinality(Stored)' \in Nat
        BY <2>1, FS_CardinalityType DEF InPlace
      <4> QED
        BY <3>3, <4>1, <4>2
    <3>5. /\ capacity' # 0 /\ 2^(capacity' - 1) \in Nat
          /\ 2^(capacity - 1) <= 2^(capacity' - 1)
      BY <1>1, <2>3
    <3> HIDE DEF new
    <3> QED
      BY <1>0, <2>4, <3>4, <3>5 DEF Load
  <2>5. CASE Of(Stored, k) = {} /\ size' = size + 1
    <3>1. Cardinality(Stored') = Cardinality(Stored) + 1
      <4>1. Stored' = Stored \cup {new} /\ new \notin Stored
        BY <2>1, <2>5 DEF Of
      <4> HIDE DEF new
      <4> QED
        BY <1>0, <4>1, FS_AddElement
    <3>2. CASE grow = TRUE
      <4>1. capacity' = NewCap
        BY <2>2, <3>2
      <4> QED
        BY <1>0, <1>1, <2>3, <2>5, <3>1, <4>1 DEF Load
    <3>3. CASE grow = FALSE
      <4>1. capacity' = capacity /\ ~(size > 2^(capacity - 1))
        BY <2>2, <3>3 DEF Crowded, Load
      <4> QED
        BY <1>0, <2>5, <3>1, <4>1 DEF Load
    <3> QED
      BY <3>2, <3>3, CrowdedIsBoolean DEF Crowds
  <2> QED
    BY <2>1, <2>4, <2>5
<1>4. ASSUME NEW k \in Keys, InsCannotAdd(k) PROVE Load'
  <2>1. capacity' \in {capacity, NewCap} /\ UNCHANGED size
    BY <1>4 DEF InsCannotAdd
  <2> QED
    BY <1>2, <1>4, <2>1, CannotAddEffect DEF Kept
<1>5. ASSUME NEW k \in Keys, Erased(k), UNCHANGED <<size, capacity>> PROVE Load'
  <2>1. PICK e \in Stored : Stored' = Stored \ {e}
    BY <1>5 DEF Erased
  <2>2. Cardinality(Stored \ {e}) = Cardinality(Stored) - 1
    BY <1>0, FS_RemoveElement
  <2> QED
    BY <1>0, <1>5, <2>1, <2>2 DEF Load
<1>6. ASSUME NEW k \in Keys, Remove(k) PROVE Load'
  BY <1>2, <1>5, <1>6, RemoveEffect DEF Remove
<1>7. CASE EraseHinted
  BY <1>2, <1>5, <1>7, HintedEffect DEF EraseHinted
<1>8. CASE Rebuild
  <2>1. capacity' \in {capacity, NewCap} /\ UNCHANGED size
    BY <1>8 DEF Rebuild
  <2> QED
    BY <1>2, <1>8, <2>1, RebuildEffect DEF Kept
<1>9. ASSUME NEW c \in DftCaps, Renew(c) PROVE Load'
  <2>1. c # 0 /\ c \in 0..MaxCap /\ capacity' = c /\ size' = 0
    BY <1>9, CapAssumption DEF Renew
  <2>2. Cardinality(Stored') = 0
    BY <1>9, RenewEffect, FS_EmptySet
  <2> QED
    BY <2>1, <2>2, Halves DEF Load
<1>10. ASSUME NEW v \in Values, IterVisit(v) PROVE Load'
  <2>1. PICK e \in Stored : Stored' = (Stored \ {e}) \cup {[e EXCEPT !.value = v]}
    BY <1>10, VisitEffect DEF IterKept, IterVisit
  <2> DEFINE f == [e EXCEPT !.value = v]
  <2>2. Cardinality(Stored') <= Cardinality(Stored) /\ Cardinality(Stored') \in Nat
    <3> HIDE DEF f
    <3>1. Stored' = (Stored \ {e}) \cup {f}
      BY <2>1 DEF f
    <3>2. IsFiniteSet(Stored \ {e}) /\ Cardinality(Stored \ {e}) = Cardinality(Stored) - 1
      BY <1>0, FS_RemoveElement
    <3>3. \/ Cardinality((Stored \ {e}) \cup {f}) = Cardinality(Stored \ {e}) + 1
          \/ Cardinality((Stored \ {e}) \cup {f}) = Cardinality(Stored \ {e})
      BY <3>2, FS_AddElement
    <3>4. Cardinality(Stored \ {e}) \in Nat
      BY <3>2, FS_CardinalityType
    <3> QED
      BY <1>0, <3>1, <3>2, <3>3, <3>4
  <2> QED
    BY <1>0, <1>10, <2>2 DEF IterVisit, Load
<1>11. ASSUME \/ InsCannotExtend \/ IterBegin \/ IterNext \/ UNCHANGED vars
              \/ \E k \in Keys : Get(k) \/ Lookup(k)
       PROVE  Load'
  BY <1>2, <1>11, ReadEffect
  DEF InsCannotExtend, IterBegin, IterNext, Get, Lookup, vars, store
<1> QED
  BY <1>3, <1>4, <1>6, <1>7, <1>8, <1>9, <1>10, <1>11 DEF Next

(* No extension leaves an entry where a lookup does not search for it, no  *)
(* key is stored twice, and the buckets keep up with the records           *)
(* (hdql_ht_ins, hdql_ht_rebuild).                                         *)
THEOREM EntriesFound ==
  ASSUME 0 \notin DftCaps
  PROVE  Spec => []EntriesInPlace
<1>1. Init => Load
  <2> SUFFICES ASSUME Init PROVE Load
    OBVIOUS
  <2>1. capacity \in 0..MaxCap /\ capacity # 0
    BY CapAssumption DEF Init
  <2>2. Stored = {} /\ Cardinality({}) = 0
    BY FS_EmptySet DEF Init, Stored
  <2> QED
    BY <2>1, <2>2, Halves DEF Init, Load
<1>2. IInv /\ Load /\ [Next]_vars => Load'
  BY NextLoad
<1>3. IInv /\ Load => EntriesInPlace
  <2> SUFFICES ASSUME InPlace, Load PROVE EntriesInPlace
    BY DEF IInv
  <2>1. ASSUME NEW b \in Buckets, NEW e \in bucket[b]
        PROVE  /\ Slot(e.key, capacity) = b
               /\ \A f \in bucket[b] : f.key = e.key => f = e
    BY DEF InPlace, TableOf, Buckets, Mask, Slot, OneOfAKey
  <2>2. Cardinality(Stored) <= 2^(capacity - 1) + 1
    <3>1. Cardinality(Stored) \in Nat /\ 2^(capacity - 1) \in Nat
      BY FS_CardinalityType, Halves DEF InPlace, Load
    <3> QED
      BY <3>1 DEF Load
  <2> QED
    BY <2>1, <2>2 DEF EntriesInPlace
<1> QED
  BY <1>1, <1>2, <1>3, Invariance, PTL DEF Spec
-----------------------------------------------------------------------------
(***************************************************************************)
(* The table is a map: what a set of entries says of the keys.             *)
(***************************************************************************)
Assoc(S) == [k \in Keys |-> IF \E e \in S : e.key = k
                              THEN (CHOOSE e \in S : e.key = k).value
                              ELSE NULL]

LEMMA AssocOf ==
  ASSUME NEW S \in SUBSET Entry, OneOfAKey(S), NEW k \in Keys
  PROVE  /\ Of(S, k) = {} <=> Assoc(S)[k] = NULL
         /\ \A e \in Of(S, k) : Assoc(S)[k] = e.value
<1>1. CASE Of(S, k) = {}
  BY <1>1 DEF Of, Assoc
<1>2. ASSUME NEW e \in Of(S, k) PROVE Assoc(S)[k] = e.value /\ e.value # NULL
  <2>1. (CHOOSE x \in S : x.key = k) = e
    BY DEF Of, OneOfAKey
  <2>2. \E x \in S : x.key = k
    BY DEF Of
  <2>3. e.value # NULL
    BY NULLAssumption DEF Of, Entry
  <2> QED
    BY <2>1, <2>2, <2>3 DEF Assoc
<1> QED
  BY <1>1, <1>2

LEMMA AssocPut ==
  ASSUME NEW S \in SUBSET Entry, OneOfAKey(S), NEW new \in Entry
  PROVE  Assoc((S \ Of(S, new.key)) \cup {new})
           = [Assoc(S) EXCEPT ![new.key] = new.value]
<1> DEFINE T == (S \ Of(S, new.key)) \cup {new}
<1>1. T \in SUBSET Entry /\ OneOfAKey(T)
  BY DEF OneOfAKey, Of
<1>2. ASSUME NEW k \in Keys
      PROVE  Assoc(T)[k] = IF k = new.key THEN new.value ELSE Assoc(S)[k]
  <2>1. CASE k = new.key
    <3>1. new \in Of(T, k)
      BY <2>1 DEF Of
    <3> HIDE DEF T
    <3> QED
      BY <1>1, <2>1, <3>1, AssocOf
  <2>2. CASE k # new.key
    <3>1. Of(T, k) = Of(S, k)
      BY <2>2 DEF Of
    <3> HIDE DEF T
    <3>2. CASE Of(S, k) = {}
      BY <1>1, <2>2, <3>1, <3>2, AssocOf
    <3>3. ASSUME NEW e \in Of(S, k) PROVE Assoc(T)[k] = Assoc(S)[k]
      BY <1>1, <3>1, AssocOf
    <3> QED
      BY <2>2, <3>2, <3>3
  <2> QED
    BY <2>1, <2>2
<1>3. new.key \in Keys
  BY DEF Entry
<1>4. /\ Assoc(T) = [k \in Keys |-> Assoc(T)[k]]
      /\ Assoc(S) = [k \in Keys |-> Assoc(S)[k]]
  BY DEF Assoc
<1> HIDE DEF T
<1>5. Assoc(T) = [Assoc(S) EXCEPT ![new.key] = new.value]
  BY <1>2, <1>3, <1>4
<1> QED
  BY <1>5 DEF T

LEMMA AssocTake ==
  ASSUME NEW S \in SUBSET Entry, OneOfAKey(S), NEW e \in S
  PROVE  Assoc(S \ {e}) = [Assoc(S) EXCEPT ![e.key] = NULL]
<1> DEFINE T == S \ {e}
<1>1. T \in SUBSET Entry /\ OneOfAKey(T) /\ e.key \in Keys
  BY DEF OneOfAKey, Entry
<1>2. ASSUME NEW k \in Keys
      PROVE  Assoc(T)[k] = IF k = e.key THEN NULL ELSE Assoc(S)[k]
  <2>1. CASE k = e.key
    <3>1. Of(T, k) = {}
      BY <2>1 DEF Of, OneOfAKey
    <3> HIDE DEF T
    <3> QED
      BY <1>1, <2>1, <3>1, AssocOf
  <2>2. CASE k # e.key
    <3>1. Of(T, k) = Of(S, k)
      BY <2>2 DEF Of
    <3> HIDE DEF T
    <3>2. CASE Of(S, k) = {}
      BY <1>1, <2>2, <3>1, <3>2, AssocOf
    <3>3. ASSUME NEW x \in Of(S, k) PROVE Assoc(T)[k] = Assoc(S)[k]
      BY <1>1, <3>1, AssocOf
    <3> QED
      BY <2>2, <3>2, <3>3
  <2> QED
    BY <2>1, <2>2
<1>3. /\ Assoc(T) = [k \in Keys |-> Assoc(T)[k]]
      /\ Assoc(S) = [k \in Keys |-> Assoc(S)[k]]
  BY DEF Assoc
<1> HIDE DEF T
<1>4. Assoc(T) = [Assoc(S) EXCEPT ![e.key] = NULL]
  BY <1>1, <1>2, <1>3
<1> QED
  BY <1>4 DEF T

LEMMA ContentIs == Content = Assoc(Stored) /\ Content' = Assoc(Stored')
  BY DEF Content, Assoc

LEMMA ErasedMaps ==
  ASSUME InPlace, NEW k \in Keys, Erased(k), out' = "OK"
  PROVE  Map!Remove(k)
<1>1. PICK e \in Stored : e.key = k /\ Stored' = Stored \ {e}
  BY DEF Erased
<1>2. Content' = [Content EXCEPT ![k] = NULL]
  BY <1>1, AssocTake, ContentIs DEF InPlace
<1>3. Content[k] # NULL
  BY <1>1, AssocOf, ContentIs DEF InPlace, Of
<1> QED
  BY <1>2, <1>3 DEF Map!Remove

LEMMA NextMaps == IInv /\ [Next]_vars => [Map!Next]_<<Content, out>>
<1> SUFFICES ASSUME InPlace, HintKept, IterKept, [Next]_vars
             PROVE  [Map!Next]_<<Content, out>>
  BY DEF IInv
<1>0. Content = Assoc(Stored) /\ Content' = Assoc(Stored')
      /\ Stored \in SUBSET Entry /\ OneOfAKey(Stored)
  BY ContentIs DEF InPlace
<1>k. Kept => Content' = Content
  BY <1>0 DEF Kept
<1>1. ASSUME NEW k \in Keys, NEW v \in Values, Ins(k, v) PROVE Map!Ins(k, v)
  <2> DEFINE new == [key |-> k, value |-> v]
  <2>1. new \in Entry /\ new.key = k /\ new.value = v
    BY DEF Entry
  <2>2. Stored' = (Stored \ Of(Stored, k)) \cup {new}
    BY <1>1, InsEffect
  <2>3. Content' = [Content EXCEPT ![k] = v]
    <3> HIDE DEF new
    <3> QED
      BY <1>0, <2>1, <2>2, AssocPut
  <2>4. \/ Of(Stored, k) # {} /\ out' = "UPDATED"
        \/ Of(Stored, k) = {} /\ out' = "INSERTED"
    BY <1>1, InsEffect
  <2>5. Of(Stored, k) = {} <=> Content[k] = NULL
    BY <1>0, AssocOf
  <2>6. out' = IF Content[k] = NULL THEN "INSERTED" ELSE "UPDATED"
    BY <2>4, <2>5
  <2> QED
    BY <2>3, <2>6 DEF Map!Ins
<1>2. ASSUME NEW k \in Keys, InsCannotAdd(k) PROVE Map!Fail
  BY <1>k, <1>2, CannotAddEffect DEF Map!Fail, InsCannotAdd, Kept
<1>3. CASE InsCannotExtend
  <2>1. Kept /\ out' = "ERR_MEM"
    BY <1>3, ReadEffect DEF InsCannotExtend, store
  <2> QED
    BY <1>k, <2>1 DEF Map!Fail, Map!Next
<1>4. ASSUME NEW k \in Keys, Get(k) PROVE Map!Get(k)
  <2>1. Kept
    BY <1>4, ReadEffect DEF Get, store
  <2>2. Found(k) = Of(Stored, k)
    BY Finds DEF Found, Slot, InPlace
  <2>3. \/ \E e \in Of(Stored, k) : out' = e.value
        \/ Of(Stored, k) = {} /\ out' = NULL
    BY <1>4, <2>2 DEF Get
  <2>4. out' = Content[k]
    BY <1>0, <2>3, AssocOf
  <2> QED
    BY <1>k, <2>1, <2>4 DEF Map!Get
<1>5. ASSUME NEW k \in Keys, Remove(k) PROVE Map!Remove(k)
  <2>1. CASE Erased(k) /\ out' = "OK"
    BY <2>1, ErasedMaps
  <2>2. CASE Of(Stored, k) = {} /\ Kept /\ out' = "NOENT"
    <3>1. Content[k] = NULL
      BY <1>0, <2>2, AssocOf
    <3>2. Content = [x \in Keys |-> Content[x]]
      BY DEF Content
    <3>3. Content' = [Content EXCEPT ![k] = NULL]
      BY <1>k, <2>2, <3>1, <3>2
    <3> QED
      BY <2>2, <3>1, <3>3 DEF Map!Remove
  <2> QED
    BY <1>5, <2>1, <2>2, RemoveEffect
<1>6. CASE EraseHinted
  <2>1. CASE hint.key \in Keys /\ Erased(hint.key) /\ out' = "OK"
    <3>1. Map!Remove(hint.key)
      BY <2>1, ErasedMaps
    <3> QED
      BY <2>1, <3>1 DEF Map!Next
  <2>2. CASE Kept /\ out' = "NOENT"
    BY <1>k, <2>2 DEF Map!Miss, Map!Next
  <2> QED
    BY <1>6, <2>1, <2>2, HintedEffect
<1>7. CASE Rebuild
  <2>1. Content' = Content
    BY <1>k, <1>7, RebuildEffect DEF Kept
  <2>2. out' \in {"OK", "ERR_MEM"}
    BY <1>7 DEF Rebuild
  <2> QED
    BY <2>1, <2>2 DEF Map!Other, Map!Fail, Map!Next
<1>8. ASSUME NEW c \in DftCaps, Renew(c) PROVE Map!Clear
  <2>1. Content' = Assoc({})
    BY <1>0, <1>8, RenewEffect
  <2> QED
    BY <1>8, <2>1 DEF Map!Clear, Assoc, Renew
<1>9. ASSUME NEW k \in Keys, Lookup(k) PROVE Map!Other
  <2>1. Kept /\ out' = "OK"
    BY <1>9, ReadEffect DEF Lookup, store
  <2> QED
    BY <1>k, <2>1 DEF Map!Other
<1>10. CASE IterBegin
  <2>1. Kept /\ out' = "VISITED"
    BY <1>10, ReadEffect DEF IterBegin, store
  <2> QED
    BY <1>k, <2>1 DEF Map!Other, Map!Next
<1>11. ASSUME NEW v \in Values, IterVisit(v)
       PROVE  \E k \in Keys : Map!Visit(k, v)
  <2>1. PICK e \in Stored : Stored' = (Stored \ {e}) \cup {[e EXCEPT !.value = v]}
    BY <1>11, VisitEffect DEF IterKept, IterVisit
  <2> DEFINE f == [e EXCEPT !.value = v]
  <2>2. e.key \in Keys /\ f \in Entry /\ f.key = e.key /\ f.value = v
    BY DEF InPlace, Entry
  <2>3. Of(Stored, f.key) = {e}
    BY <1>0, <2>2 DEF Of, OneOfAKey
  <2>4. Content' = [Content EXCEPT ![e.key] = v]
    <3> HIDE DEF f
    <3>1. Stored' = (Stored \ Of(Stored, f.key)) \cup {f}
      BY <2>1, <2>3 DEF f
    <3>2. Assoc((Stored \ Of(Stored, f.key)) \cup {f})
            = [Assoc(Stored) EXCEPT ![f.key] = f.value]
      BY <1>0, <2>2, AssocPut
    <3> QED
      BY <1>0, <2>2, <3>1, <3>2
  <2>5. Content[e.key] # NULL
    BY <1>0, <2>2, <2>3, AssocOf
  <2>6. out' = "VISITED"
    BY <1>11 DEF IterVisit
  <2>7. Map!Visit(e.key, v)
    BY <2>4, <2>5, <2>6 DEF Map!Visit
  <2> QED
    BY <2>2, <2>7
<1>12. CASE IterNext
  <2>1. Kept /\ (out' = out \/ out' = "DONE")
    BY <1>12, ReadEffect DEF IterNext, store
  <2> QED
    BY <1>k, <2>1 DEF Map!Other, Map!Next
<1>13. CASE UNCHANGED vars
  BY <1>13 DEF vars, Content, Stored, Buckets
<1> QED
  BY <1>1, <1>2, <1>3, <1>4, <1>5, <1>6, <1>7, <1>8, <1>9, <1>10, <1>11, <1>12,
     <1>13 DEF Next, Map!Next

(* The table is a finite map, whatever the keys hash to, whenever it is    *)
(* extended, whatever allocation fails: every operation of hash-table.c is *)
(* one of KeyTable, or a change that the map does not show.                *)
THEOREM ImplementsMap == Spec => IsMap
<1>1. Init => Map!Init
  <2>1. Init => Stored = {}
    BY DEF Init, Stored
  <2> QED
    BY <2>1, ContentIs DEF Init, Map!Init, Assoc
<1> QED
  BY <1>1, NextMaps, Invariance, PTL DEF Spec, IsMap, Map!Spec, Map!vars
=============================================================================
