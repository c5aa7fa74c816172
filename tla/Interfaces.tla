------------------------------ MODULE Interfaces ------------------------------
(***************************************************************************)
(* The interfaces of a link whose calls do not nest: those of an operation *)
(* (ArithOperation) and the iterators over a member of the client          *)
(* (CollectionIterator).  They share nothing: each behaviour uses one.     *)
(***************************************************************************)
EXTENDS ArithOperation

CONSTANTS Keys,        \* keys of the elements of a member
          Contents,    \* sequences of elements, see CollectionIterator
          Selections,  \* sets of keys
          All          \* no selection

ASSUME ContentsAssumption == Contents \subseteq Seq([key : Keys, null : BOOLEAN])
ASSUME PlacesAssumption == NULL \notin Nat

VARIABLES
  used,    \* the interface in use
  member, items, state, holder, sel, pos, cell, last, yielded

operationVars == vars
iteratorVars == <<member, items, state, holder, sel, pos, cell, last, yielded>>

Iterators == INSTANCE CollectionIterator
  WITH Shapes <- [array : BOOLEAN, selects : BOOLEAN], Holders <- Owners

(* CollectionIterator: an iterator delivers what the selection takes. *)
YieldsSelected == used = "iterator" => Iterators!YieldsSelected

(* CollectionIterator: a key is that of the element, or left alone. *)
KeyOfElement == used = "iterator" => Iterators!KeyOfElement
==============================================================================
