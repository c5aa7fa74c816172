------------------------------ MODULE HashTable ------------------------------
(***************************************************************************)
(* The hash table of src/hash-table.c: 2^capacity buckets, each a chain of *)
(* entries, extended when too many records were stored.  The order inside  *)
(* a chain is abstracted: a lookup compares whole keys.  Any allocation    *)
(* may fail.  The hash of a key is arbitrary, so collisions and the ways   *)
(* an extension splits a chain are all met.                                *)
(***************************************************************************)
EXTENDS Naturals, FiniteSets

CONSTANTS Keys, Values, NULL,
          Hashes,    \* hash values a key may have
          DftCaps,   \* capacities the client may create the table with
          MaxCap,    \* bound of the model: no extension beyond 2^MaxCap
          MaxSize    \* bound of the model on the records ever stored

Codes == {"OK", "INSERTED", "UPDATED", "NOENT", "ERR_MEM", "ERR_ALLOC",
          "VISITED", "DONE", "CREATED"}

ASSUME NULLAssumption == NULL \notin Keys \cup Values \cup Codes
ASSUME ValuesAssumption == Values \cap Codes = {}
ASSUME HashAssumption == Hashes \subseteq Nat
ASSUME CapAssumption == MaxCap \in Nat /\ DftCaps \subseteq 0..MaxCap
ASSUME SizeAssumption == MaxSize \in Nat
ASSUME PowerAssumption == \A c \in 0..MaxCap : /\ 2^c \in Nat \ {0}
                                             /\ \A b \in 0..(c - 1) : 2 * 2^b <= 2^c

VARIABLES
  hash,     \* murmur3_32 with the table's seed
  bucket,   \* ht.buckets
  size,     \* ht.size
  capacity, \* ht.capacity; ht.mask is 2^capacity - 1
  blocks,   \* number of memory blocks allocated and not freed
  hint,     \* what hdql_ht_lookup gave the client to erase an entry by: the
            \*   entry, its bucket, and the capacity the table had
  pos,      \* the bucket hdql_ht_iter is in, or NULL
  seen,     \* the keys it has visited
  out       \* result of the last operation

vars == <<hash, bucket, size, capacity, blocks, hint, pos, seen, out>>
store == <<bucket, size, capacity, blocks>>
iteration == <<pos, seen>>

Entry == [key : Keys, value : Values]
Hint == [key : Keys, nb : Nat, capacity : 0..MaxCap]
Buckets == 0..(2^capacity - 1)

TypeOK ==
  /\ hash \in [Keys -> Hashes]
  /\ capacity \in 0..MaxCap
  /\ bucket \in [Buckets -> SUBSET Entry]
  /\ size \in 0..MaxSize
  /\ blocks \in Nat
  /\ hint \in Hint \cup {NULL}
  /\ pos \in Buckets \cup {NULL}
  /\ seen \in SUBSET Keys
  /\ out \in Codes \cup Values \cup {NULL}

Init ==
  /\ hash \in [Keys -> Hashes]
  /\ capacity \in DftCaps
  /\ bucket = [b \in Buckets |-> {}]
  /\ size = 0
  /\ blocks = 2
  /\ hint = NULL
  /\ pos = NULL
  /\ seen = {}
  /\ out = "CREATED"
-----------------------------------------------------------------------------
(* The bucket of a key in a table of 2^c buckets: h & mask. *)
Slot(k, c) == hash[k] % 2^c

Stored == UNION {bucket[b] : b \in Buckets}

(* The entries of k in the chain of one bucket. *)
Match(chain, k) == {e \in chain : e.key = k}

(* hdql_ht_lookup searches one bucket. *)
Found(k) == Match(bucket[Slot(k, capacity)], k)

(* The entry of k is freed: the client must not use its hint any more. *)
DropHint(k) == hint' = IF hint # NULL /\ hint.key = k THEN NULL ELSE hint

Quiet == pos = NULL /\ pos' = NULL /\ seen' = {}

(* Mutant: the entries are moved by the mask of the old table. *)
RehashedOldMask(c) == [b \in 0..(2^c - 1) |->
                         {e \in Stored : Slot(e.key, capacity) = b}]

(* Mutant: of every chain only the first entry is moved. *)
RehashedFirst(c) == [b \in 0..(2^c - 1) |->
                      {e \in {CHOOSE f \in bucket[a] : TRUE :
                               a \in {x \in Buckets : bucket[x] # {}}} :
                         Slot(e.key, c) = b}]

(* hdql_ht_rebuild moves every entry to the bucket the new mask gives. *)
Rehashed(c) == [b \in 0..(2^c - 1) |-> {e \in Stored : Slot(e.key, c) = b}]
NewCap == IF capacity = 0 THEN 5 ELSE capacity + 1

(* The condition to extend the table.  For a table created with capacity 0 *)
(* the shift by capacity - 1 is undefined: it may hold or not.             *)
Crowded == IF capacity = 0 THEN BOOLEAN ELSE {size > 2^(capacity - 1)}
-----------------------------------------------------------------------------
(***************************************************************************)
(* hdql_ht_ins: extend the table if it is crowded, then update the entry   *)
(* of k or add one.  Three allocations can fail: the new buckets, the copy *)
(* of the key, the entry.                                                  *)
(***************************************************************************)
Ins(k, v) ==
  /\ Quiet
  /\ \E grow \in Crowded :
       LET c == IF grow THEN NewCap ELSE capacity
           table == IF grow THEN Rehashed(c) ELSE bucket
           nb == Slot(k, c)
           old == Match(table[nb], k)
           new == [key |-> k, value |-> v]
       IN /\ c <= MaxCap
          /\ capacity' = c
          /\ bucket' = [table EXCEPT ![nb] = (@ \ old) \cup {new}]
          /\ \/ old # {} /\ out' = "UPDATED" /\ UNCHANGED <<size, blocks>>
             \/ /\ old = {}
                /\ size < MaxSize
                /\ size' = size + 1 /\ blocks' = blocks + 2
                /\ out' = "INSERTED"
  /\ UNCHANGED <<hash, hint>>

InsCannotExtend == /\ Quiet
                   /\ TRUE \in Crowded
                   /\ out' = "ERR_MEM"
                   /\ UNCHANGED <<hash, store, hint>>

(* Mutant: the copy of the key is not freed when there is no entry for it. *)
InsCannotAddLeaks(k) ==
  /\ Quiet
  /\ Found(k) = {} /\ FALSE \in Crowded
  /\ \/ out' = "ERR_MEM" /\ UNCHANGED blocks
     \/ out' = "ERR_ALLOC" /\ blocks' = blocks + 1
  /\ UNCHANGED <<hash, bucket, size, capacity, hint>>

(* The table may have been extended by then. *)
InsCannotAdd(k) ==
  /\ Quiet
  /\ \E grow \in Crowded :
       LET c == IF grow THEN NewCap ELSE capacity
           table == IF grow THEN Rehashed(c) ELSE bucket
       IN /\ c <= MaxCap
          /\ Match(table[Slot(k, c)], k) = {}
          /\ capacity' = c
          /\ bucket' = table
  /\ out' \in {"ERR_MEM", "ERR_ALLOC"}
  /\ UNCHANGED <<hash, size, blocks, hint>>

Get(k) == /\ Quiet
          /\ \/ \E e \in Found(k) : out' = e.value
             \/ Found(k) = {} /\ out' = NULL
          /\ UNCHANGED <<hash, store, hint>>

(* Mutant: the entries before the erased one are cut off with it. *)
EraseCutsChain(nb, k) ==
  \/ \E e \in Match(bucket[nb], k) :
       /\ \E before \in SUBSET (bucket[nb] \ {e}) :
            bucket' = [bucket EXCEPT ![nb] = @ \ (before \cup {e})]
       /\ blocks' = blocks - 2
       /\ out' = "OK"
       /\ DropHint(k)
  \/ /\ Match(bucket[nb], k) = {}
     /\ out' = "NOENT"
     /\ UNCHANGED <<bucket, blocks, hint>>

(* hdql_ht_erase takes the entry out of bucket nb, if it is there. *)
Erase(nb, k) ==
  \/ \E e \in Match(bucket[nb], k) :
       /\ bucket' = [bucket EXCEPT ![nb] = @ \ {e}]
       /\ blocks' = blocks - 2
       /\ out' = "OK"
       /\ DropHint(k)
  \/ /\ Match(bucket[nb], k) = {}
     /\ out' = "NOENT"
     /\ UNCHANGED <<bucket, blocks, hint>>

Remove(k) == /\ Quiet
             /\ Erase(Slot(k, capacity), k)
             /\ UNCHANGED <<hash, size, capacity>>

Lookup(k) == /\ Quiet
             /\ Found(k) # {}
             /\ hint' = [key |-> k, nb |-> Slot(k, capacity), capacity |-> capacity]
             /\ out' = "OK"
             /\ UNCHANGED <<hash, store>>

EraseHinted == /\ Quiet
               /\ hint # NULL
               /\ Erase(hint.nb, hint.key)
               /\ UNCHANGED <<hash, size, capacity>>

Rebuild == /\ Quiet
           /\ \/ /\ NewCap <= MaxCap
                 /\ capacity' = NewCap
                 /\ bucket' = Rehashed(NewCap)
                 /\ out' = "OK"
              \/ out' = "ERR_MEM" /\ UNCHANGED <<bucket, capacity>>
           /\ UNCHANGED <<hash, size, blocks, hint>>

(* hdql_ht_destroy, and hdql_ht_create anew. *)
Renew(c) == /\ Quiet
            /\ capacity' = c
            /\ bucket' = [b \in 0..(2^c - 1) |-> {}]
            /\ size' = 0
            /\ blocks' = (blocks - 2 - 2 * Cardinality(Stored)) + 2
            /\ hint' = NULL
            /\ out' = "CREATED"
            /\ UNCHANGED hash
-----------------------------------------------------------------------------
(***************************************************************************)
(* hdql_ht_iter: the callback sees every entry, may set its value, and may *)
(* stop the iteration.                                                     *)
(***************************************************************************)
IterBegin == /\ pos = NULL
             /\ pos' = 0 /\ seen' = {}
             /\ out' = "VISITED"
             /\ UNCHANGED <<hash, store, hint>>

Unseen == {e \in bucket[pos] : e.key \notin seen}

IterVisit(v) == /\ pos # NULL
                /\ \E e \in Unseen :
                     /\ bucket' = [bucket EXCEPT ![pos] =
                                     (@ \ {e}) \cup {[e EXCEPT !.value = v]}]
                     /\ seen' = seen \cup {e.key}
                /\ out' = "VISITED"
                /\ pos' \in {pos, NULL}
                /\ UNCHANGED <<hash, size, capacity, blocks, hint>>

(* Mutant: the last bucket is forgotten. *)
IterNextShort == /\ pos # NULL
                 /\ Unseen = {}
                 /\ IF pos + 1 < 2^capacity - 1
                      THEN pos' = pos + 1 /\ UNCHANGED out
                      ELSE pos' = NULL /\ out' = "DONE"
                 /\ UNCHANGED <<hash, store, hint, seen>>

IterNext == /\ pos # NULL
            /\ Unseen = {}
            /\ IF pos + 1 < 2^capacity THEN pos' = pos + 1 /\ UNCHANGED out
                                       ELSE pos' = NULL /\ out' = "DONE"
            /\ UNCHANGED <<hash, store, hint, seen>>
-----------------------------------------------------------------------------
Next == \/ \E k \in Keys, v \in Values : Ins(k, v)
        \/ InsCannotExtend
        \/ \E k \in Keys : InsCannotAdd(k) \/ Get(k) \/ Remove(k) \/ Lookup(k)
        \/ EraseHinted
        \/ Rebuild
        \/ \E c \in DftCaps : Renew(c)
        \/ IterBegin
        \/ \E v \in Values : IterVisit(v)
        \/ IterNext

Spec == Init /\ [][Next]_vars
-----------------------------------------------------------------------------
(***************************************************************************)
(* Properties.                                                             *)
(***************************************************************************)

(* Every entry is in the bucket a lookup of its key searches, and a key    *)
(* has one entry: otherwise hdql_ht_ins would shadow what was stored and   *)
(* hdql_ht_get would miss it.  A table never has more than one record      *)
(* above half of its buckets: a failed extension lets nothing in.  (With   *)
(* capacity 0 all records may be in one bucket; a table that was created   *)
(* so keeps the bound as long as it holds no more than 17 of them.)        *)
EntriesInPlace ==
  /\ \A b \in Buckets : \A e \in bucket[b] :
       /\ Slot(e.key, capacity) = b
       /\ \A f \in bucket[b] : f.key = e.key => f = e
  /\ capacity # 0 => Cardinality(Stored) <= 2^(capacity - 1) + 1

Content == [k \in Keys |-> IF \E e \in Stored : e.key = k
                             THEN (CHOOSE e \in Stored : e.key = k).value
                             ELSE NULL]

Map == INSTANCE KeyTable WITH table <- Content

(* The table is a map, and reports what happened to it by the codes of     *)
(* hash-table.c, whatever the keys hash to and whenever it is extended or  *)
(* an allocation fails.                                                    *)
IsMap == Map!Spec

(* The memory held is that of the table, its buckets, and a key and an     *)
(* entry for every pair, also after failed insertions.                     *)
NoLeak == blocks = 2 + 2 * Cardinality(Stored)

(* An entry looked up can be erased by its hint while the table was not    *)
(* extended; the bucket number of the hint is valid even after that (the   *)
(* assertion of hdql_ht_erase).                                            *)
HintHolds == hint # NULL =>
  /\ hint.nb < 2^capacity
  /\ hint.capacity = capacity => Match(bucket[hint.nb], hint.key) # {}

(* An iteration that was not stopped has visited every key.                *)
IterComplete == out = "DONE" => seen = {e.key : e \in Stored}
==============================================================================
