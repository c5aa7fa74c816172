------------------------------ MODULE TypeTable ------------------------------
(***************************************************************************)
(* The tables of value types, struct hdql_ValueTypes of src/value.cc, of a *)
(* context and its descendants, with the cache of arithmetic promotions    *)
(* (src/type-promotion-table.c).  Table 1 is the root's, table t + 1 that  *)
(* of a descendant of the owner of t; the number of a table is its tier.   *)
(* The code of a type is its tier and its number in the table.             *)
(***************************************************************************)
EXTENDS Integers, SequencesExt

CONSTANTS Depth,       \* bound on the chain of contexts
          Names,       \* names of types and aliases
          MaxTypes,    \* gMaxTypeIDInTier
          Promotions,  \* triples of names: a and b promote to r
          NULL

VARIABLES
  made,       \* number of contexts alive; descendants go first
  codeByName, \* codeByName[t][n]: a code or NULL
  items,      \* items[t]: the names under which types were defined, in the
              \*   order of their numbers
  valid,      \* _isPromotionsValid
  cache       \* _promotions: pairs of a set of codes and a code

vars == <<made, codeByName, items, valid, cache>>

Table == 1..Depth
Code == Table \X (1..MaxTypes)
Tier(c) == c[1]
NoNames == [n \in Names |-> NULL]

TypeOK ==
  /\ made \in Table
  /\ codeByName \in [Table -> [Names -> Code \cup {NULL}]]
  /\ \A t \in Table : items[t] \in Seq(Names) /\ Len(items[t]) <= MaxTypes
  /\ valid \in [Table -> BOOLEAN]
  /\ \A t \in Table : cache[t] \subseteq (SUBSET Code) \X Code

Init ==
  /\ made = 1
  /\ codeByName = [t \in Table |-> NoNames]
  /\ items = [t \in Table |-> <<>>]
  /\ valid = [t \in Table |-> FALSE]
  /\ cache = [t \in Table |-> {}]
-----------------------------------------------------------------------------
(* get_code_by_name: the table itself, or else its nearest ancestor.       *)
Nearest(t, n) == Max({u \in 1..t : codeByName[u][n] # NULL} \cup {0})
CodeOf(t, n) == LET u == Nearest(t, n) IN IF u = 0 THEN NULL ELSE codeByName[u][n]

(* get_by_code, from table t: the item is looked up in the table of the    *)
(* code's tier.                                                            *)
ByCode(t, c) == IF c[2] \in DOMAIN items[Tier(c)] THEN items[Tier(c)][c[2]] ELSE NULL
-----------------------------------------------------------------------------
(* A chain of contexts is shorter than the number of tiers: the constructor *)
(* throws for a tier that does not fit.                                     *)
CreateDescendant ==
  /\ made < Depth
  /\ made' = made + 1
  /\ UNCHANGED <<codeByName, items, valid, cache>>

Destroy ==
  /\ made > 1
  /\ made' = made - 1
  /\ codeByName' = [codeByName EXCEPT ![made] = NoNames]
  /\ items' = [items EXCEPT ![made] = <<>>]
  /\ valid' = [valid EXCEPT ![made] = FALSE]
  /\ cache' = [cache EXCEPT ![made] = {}]

NextNumber(t) == Len(items[t]) + 1

(* A table that is full, or that has the name, refuses a definition. *)
Refused(t, n) == NextNumber(t) > MaxTypes \/ codeByName[t][n] # NULL

(* Mutant: a new type does not invalidate the promotions. *)
DefineKeepsCache(t, n) ==
  /\ IF Refused(t, n) THEN UNCHANGED <<codeByName, items>>
     ELSE /\ codeByName' = [codeByName EXCEPT ![t][n] = <<t, NextNumber(t)>>]
          /\ items' = [items EXCEPT ![t] = Append(@, n)]
  /\ UNCHANGED <<made, cache, valid>>

(* The promotions are invalidated whether or not the type is accepted. *)
Define(t, n) ==
  /\ valid' = [valid EXCEPT ![t] = FALSE]
  /\ IF Refused(t, n) THEN UNCHANGED <<codeByName, items>>
     ELSE /\ codeByName' = [codeByName EXCEPT ![t][n] = <<t, NextNumber(t)>>]
          /\ items' = [items EXCEPT ![t] = Append(@, n)]
  /\ UNCHANGED <<made, cache>>

(* Mutant: an alias may be given to a code that no table knows. *)
AliasOfNone(t, n, c) ==
  /\ valid' = [valid EXCEPT ![t] = FALSE]
  /\ codeByName' = IF Tier(c) > t \/ codeByName[t][n] # NULL THEN codeByName
                   ELSE [codeByName EXCEPT ![t][n] = c]
  /\ UNCHANGED <<made, items, cache>>

(* define_alias of a type of the table or of an ancestor, that is there. *)
Alias(t, n, c) ==
  /\ valid' = [valid EXCEPT ![t] = FALSE]
  /\ codeByName' = IF \/ Tier(c) > t \/ ByCode(t, c) = NULL
                      \/ codeByName[t][n] # NULL
                   THEN codeByName
                   ELSE [codeByName EXCEPT ![t][n] = c]
  /\ UNCHANGED <<made, items, cache>>

(* hdql_arith_type_promotion_rebuild, of the names visible in table t.     *)
Rebuilt(t) ==
  {<<{CodeOf(t, p[1]), CodeOf(t, p[2])}, CodeOf(t, p[3])>> :
     p \in {q \in Promotions : \A k \in 1..3 : CodeOf(t, q[k]) # NULL}}

(* hdql_types_numeric_promote: the cache is rebuilt when it is not valid.  *)
Promote(t) ==
  /\ valid' = [valid EXCEPT ![t] = TRUE]
  /\ cache' = IF valid[t] THEN cache ELSE [cache EXCEPT ![t] = Rebuilt(t)]
  /\ UNCHANGED <<made, codeByName, items>>
-----------------------------------------------------------------------------
Operation(t) ==
  \/ \E n \in Names : Define(t, n) \/ \E c \in Code : Alias(t, n, c)
  \/ Promote(t)

Next == CreateDescendant \/ Destroy \/ \E t \in 1..made : Operation(t)

Spec == Init /\ [][Next]_vars
-----------------------------------------------------------------------------
(***************************************************************************)
(* Properties.                                                             *)
(***************************************************************************)

(* A code that a table gives for a name is of the table itself or of one   *)
(* of its ancestors, and a type is found under it: no name outlives its    *)
(* type, whatever descendants were created and destroyed meanwhile.        *)
NamesHaveTypes ==
  \A t \in Table, n \in Names :
    codeByName[t][n] # NULL =>
      t <= made /\ Tier(codeByName[t][n]) <= t /\ ByCode(t, codeByName[t][n]) # NULL

(* What a name means in a table, the code and the type under the code,     *)
(* changes only when a nearer table defines the name: a descendant never   *)
(* changes what its ancestors see, whether it defines types, runs into     *)
(* collisions or is destroyed.                                             *)
Meaning(t, n) ==
  LET c == CodeOf(t, n) IN IF c = NULL THEN NULL ELSE <<c, ByCode(t, c)>>
Shadowed(t, n) == \E u \in (Nearest(t, n) + 1)..t :
                    codeByName[u][n] = NULL /\ codeByName'[u][n] # NULL
MeaningsStay ==
  [][\/ UNCHANGED <<made, codeByName, items>>
     \/ \A t \in 1..made, n \in Names :
          t <= made' => (Meaning(t, n)' = Meaning(t, n) \/ Shadowed(t, n))]_vars

(* The promotions of the root follow its types (define and define_alias    *)
(* invalidate the cache, the next promotion rebuilds it).  The cache of a  *)
(* child of the root may miss what the root defined later, but never gives *)
(* another type than the one in force.                                     *)
CacheOnlyLacks ==
  \A t \in 1..made : (valid[t] /\ t <= 2) =>
    /\ cache[t] \subseteq Rebuilt(t)
    /\ t = 1 => cache[t] = Rebuilt(t)
==============================================================================
