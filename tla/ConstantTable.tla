--------------------------- MODULE ConstantTable ---------------------------
(***************************************************************************)
(* The tables of external constants (src/value.cc) of a context and its    *)
(* descendants, and the token that the lexer makes of the name of one      *)
(* (hdql.l).  Table 1 is the root's, t + 1 that of a descendant of the     *)
(* owner of t.  An item is a union of an integer and a floating point      *)
(* number: it is kept as a type and the bits of the union.                 *)
(***************************************************************************)
EXTENDS Integers, FiniteSetsExt

CONSTANTS Depth,   \* bound on the chain of contexts
          Names,   \* names of constants
          Values,  \* whole numbers that constants are defined with
          Bits,    \* Bits[v]: the bits of v as a floating point number; the
                   \*   bits of v as an integer are v
          NULL

VARIABLES
  made,   \* number of contexts alive; descendants go first
  values, \* values[t][n]: an item or NULL
  last    \* the last operation since a context was created or destroyed

vars == <<made, values, last>>

Table == 1..Depth
AllBits == Values \cup Range(Bits)
Item == [type : {"int", "float"}, bits : AllBits]
BitsOf(type, v) == IF type = "int" THEN v ELSE Bits[v]
Undefined == [n \in Names |-> NULL]

NoOperation == [op |-> "none", t |-> 1, n |-> NULL, type |-> NULL, v |-> 0, rc |-> "ok"]
Report(op, t, n, type, v, rc) ==
  last' = [op |-> op, t |-> t, n |-> n, type |-> type, v |-> v, rc |-> rc]

TypeOK ==
  /\ made \in Table
  /\ values \in [Table -> [Names -> Item \cup {NULL}]]
  /\ \A t \in Table : t > made => values[t] = Undefined
  /\ last.rc \in {"ok", "collision"}

Init ==
  /\ made = 1
  /\ values = [t \in Table |-> Undefined]
  /\ last = NoOperation
-----------------------------------------------------------------------------
CreateDescendant ==
  /\ made < Depth
  /\ made' = made + 1
  /\ last' = NoOperation
  /\ UNCHANGED values

Destroy ==
  /\ made > 1
  /\ made' = made - 1
  /\ values' = [values EXCEPT ![made] = Undefined]
  /\ last' = NoOperation

(* Mutant: a definition of a name that is taken is never an error. *)
DefineForgives(t, n, type, v) ==
  /\ IF values[t][n] = NULL
     THEN values' = [values EXCEPT ![t][n] = [type |-> type, bits |-> BitsOf(type, v)]]
     ELSE UNCHANGED values
  /\ Report("define", t, n, type, v, "ok")
  /\ UNCHANGED made

(* hdql_constants_define_float, _define_int: when the name is taken the    *)
(* value is compared with the member of the union of its own type, the     *)
(* type of the item that is there is not looked at.                        *)
Define(t, n, type, v) ==
  /\ UNCHANGED made
  /\ IF values[t][n] = NULL
     THEN /\ values' = [values EXCEPT ![t][n] = [type |-> type, bits |-> BitsOf(type, v)]]
          /\ Report("define", t, n, type, v, "ok")
     ELSE /\ UNCHANGED values
          /\ Report("define", t, n, type, v,
               IF values[t][n].bits = BitsOf(type, v) THEN "ok" ELSE "collision")

(* hdql_constants_get_value: the table itself, or its nearest ancestor.    *)
Nearest(t, n) == Max({u \in 1..t : values[u][n] # NULL} \cup {0})
GetValue(t, n) == IF Nearest(t, n) = 0 THEN NULL ELSE values[Nearest(t, n)][n]

(* The lexer reads the item by its type, but stores an integer into the    *)
(* floating point member of the token, whose integer member the parser     *)
(* reads.  A name that is no constant is an identifier.                    *)
Token(item) ==
  IF item.type = "float" THEN item
  ELSE [type |-> "int", bits |-> Bits[item.bits]]
Lex(t, n) ==
  /\ GetValue(t, n) # NULL
  /\ LET token == Token(GetValue(t, n)) IN Report("lex", t, n, token.type, token.bits, "ok")
  /\ UNCHANGED <<made, values>>
-----------------------------------------------------------------------------
Operation(t) ==
  \E n \in Names : \/ \E type \in {"int", "float"}, v \in Values : Define(t, n, type, v)
                   \/ Lex(t, n)

Next == CreateDescendant \/ Destroy \/ \E t \in 1..made : Operation(t)

Spec == Init /\ [][Next]_vars
-----------------------------------------------------------------------------
(***************************************************************************)
(* Properties.                                                             *)
(***************************************************************************)

(* What a name means in a table changes only when a nearer table defines   *)
(* it, however often it is defined again and whatever its descendants did. *)
MeaningStays ==
  [][\A t \in 1..made, n \in Names :
       t <= made' =>
         \/ GetValue(t, n)' = GetValue(t, n)
         \/ \E u \in (Nearest(t, n) + 1)..t : values[u][n] = NULL /\ values'[u][n] # NULL]_vars

(* A definition that is accepted has the bits that a query will see, in    *)
(* the table it was made in.                                               *)
AcceptedIsSeen ==
  (last.op = "define" /\ last.rc = "ok") =>
    GetValue(last.t, last.n).bits = BitsOf(last.type, last.v)
==============================================================================
