-------------------------- MODULE CollectionIterator --------------------------
(***************************************************************************)
(* The iterators of helpers/compounds.hh over a member that is an array or *)
(* a standard container (a map, a multimap or a vector, of objects or of   *)
(* pointers), with or without selections, against what attr-def.h says of  *)
(* the interface of a collection.  A selection is code of the client,      *)
(* SelectionTraits: it finds the first and the next element that it takes. *)
(* The position End(o) is one past the last element.                       *)
(***************************************************************************)
EXTENDS Integers, Sequences

CONSTANTS Shapes,     \* [array, selects]: the member is an array, and has a
                      \*   type of selections
          Contents,   \* sequences of [key, null]: elements, some of them NULL
          Holders,    \* the objects the member belongs to
          Selections, \* sets of keys
          All,        \* no selection is given
          NULL

VARIABLES
  member,  \* what it is: one of Shapes
  items,   \* items[o]: the elements in object o
  state,   \* "none", "new", "reset" or "gone"
  holder,  \* the object of the last reset
  sel,     \* the selection of the last reset
  pos,     \* cIndex or it
  cell,    \* the key cell
  last,    \* what the last call was given and returned: [keyed, cell, r]
  yielded  \* the positions returned since the last reset

vars == <<member, items, state, holder, sel, pos, cell, last, yielded>>

End(o) == Len(items[o]) + 1
Taken(o, s, p) == s = All \/ items[o][p].key \in s
-----------------------------------------------------------------------------
(* SelectionTraits::advance() and reset(), or ++ and begin(). *)
NextTaken(o, s, p) ==
  CHOOSE n \in (p + 1)..End(o) : /\ n = End(o) \/ Taken(o, s, n)
                                 /\ \A k \in (p + 1)..(n - 1) : ~Taken(o, s, k)

Element(o, p) == IF items[o][p].null THEN NULL ELSE p

(* The iterator is at p of o: the key is set and the element returned,     *)
(* unless the end is reached.                                              *)
Dereference(o, p, keyed) ==
  LET r == IF p = End(o) THEN NULL ELSE Element(o, p)
  IN /\ pos' = p
     /\ cell' = IF keyed /\ p # End(o) THEN items[o][p].key ELSE cell
     /\ last' = [keyed |-> keyed, cell |-> cell, r |-> r]

(* new_iterator(): the index of an array is not initialized, neither is    *)
(* the iterator of a container with selections.                            *)
New(o, p) ==
  /\ state = "none"
  /\ state' = "new" /\ holder' = o /\ pos' = p
  /\ UNCHANGED <<member, items, sel, cell, last, yielded>>

NewUninitialized(o) == (member.array \/ member.selects) /\ \E p \in 1..End(o) : New(o, p)

NewAtBegin(o) == ~member.array /\ ~member.selects /\ New(o, 1)

(* Mutant: the first element is looked for from where the iterator is. *)
FromHere(o, s) == IF pos < End(o) THEN NextTaken(o, s, pos) ELSE End(o)

First(o, s) == NextTaken(o, s, 0)

(* reset_iterator(), of an object that may be another one.  A member       *)
(* without selections asserts that there is none.                          *)
Reset(o, s) ==
  /\ state \in {"new", "reset"}
  /\ s = All \/ member.selects
  /\ state' = "reset" /\ holder' = o /\ sel' = s
  /\ yielded' = IF last'.r = NULL THEN <<>> ELSE <<last'.r>>
  /\ UNCHANGED <<member, items>>

ResetContainer(o, s, keyed) ==
  ~member.array /\ Dereference(o, First(o, s), keyed) /\ Reset(o, s)

(* That of an array does not look whether there is a first element at all. *)
ResetArray(o, s, keyed) ==
  /\ member.array
  /\ pos' = First(o, s)
  /\ cell' = IF keyed THEN pos' - 1 ELSE cell
  /\ last' = [keyed |-> keyed, cell |-> cell, r |-> pos']
  /\ Reset(o, s)

(* Mutant: the key is set before the iterator moves on. *)
YieldLateKey(keyed) ==
  /\ state = "reset"
  /\ IF pos = End(holder)
     THEN last' = [keyed |-> keyed, cell |-> cell, r |-> NULL] /\ UNCHANGED <<pos, cell>>
     ELSE LET p == NextTaken(holder, sel, pos)
          IN /\ pos' = p
             /\ cell' = IF keyed THEN items[holder][pos].key ELSE cell
             /\ last' = [keyed |-> keyed, cell |-> cell,
                         r |-> IF p = End(holder) THEN NULL ELSE Element(holder, p)]
  /\ yielded' = IF last'.r = NULL THEN yielded ELSE Append(yielded, last'.r)
  /\ UNCHANGED <<member, items, state, holder, sel>>

Yield(keyed) ==
  /\ state = "reset"
  /\ IF pos = End(holder)
     THEN last' = [keyed |-> keyed, cell |-> cell, r |-> NULL] /\ UNCHANGED <<pos, cell>>
     ELSE Dereference(holder, NextTaken(holder, sel, pos), keyed)
  /\ yielded' = IF last'.r = NULL THEN yielded ELSE Append(yielded, last'.r)
  /\ UNCHANGED <<member, items, state, holder, sel>>

Destroy == /\ state \in {"new", "reset"}
           /\ state' = "gone"
           /\ UNCHANGED <<member, items, holder, sel, pos, cell, last, yielded>>
-----------------------------------------------------------------------------
(* An array has the same number of elements in every object, its keys are  *)
(* their indices and no element is NULL.                                   *)
IsArray(c) == \A p \in DOMAIN c : c[p].key = p - 1 /\ ~c[p].null

Init ==
  /\ member \in Shapes
  /\ items \in [Holders -> Contents]
  /\ member.array => \A o, u \in Holders : IsArray(items[o]) /\ End(o) = End(u) /\ End(o) > 1
  /\ state = "none" /\ holder = NULL /\ sel = All /\ pos = 0 /\ cell = NULL
  /\ last = [keyed |-> FALSE, cell |-> NULL, r |-> NULL]
  /\ yielded = <<>>

Next ==
  \/ \E o \in Holders : NewUninitialized(o) \/ NewAtBegin(o)
  \/ \E o \in Holders, s \in Selections \cup {All}, k \in BOOLEAN :
       ResetContainer(o, s, k) \/ ResetArray(o, s, k)
  \/ \E k \in BOOLEAN : Yield(k)
  \/ Destroy

Spec == Init /\ [][Next]_vars
-----------------------------------------------------------------------------
(* What was returned since the last reset, whatever was iterated before:   *)
(* the elements up to the place of the iterator that the selection takes,  *)
(* in their order, without those that are NULL, and, when there is none to *)
(* take from an array, the place behind its end (attr-def.h; compounds.hh).*)
Selected(o, s) == {p \in 1..(End(o) - 1) : Taken(o, s, p) /\ ~items[o][p].null}

Due(o, s) == IF member.array /\ Selected(o, s) = {} THEN {End(o)} ELSE Selected(o, s)

YieldsSelected ==
  state = "reset" =>
    /\ {yielded[n] : n \in DOMAIN yielded} = {p \in Due(holder, sel) : p <= pos}
    /\ \A m, n \in DOMAIN yielded : m < n => yielded[m] < yielded[n]

(* A call that was given a key and returned an element set the key to that *)
(* of the element; one that found the end, or was given none, left it.     *)
KeyOfElement ==
  state = "reset" =>
    IF last.keyed /\ last.r # NULL
    THEN cell = IF last.r = End(holder) THEN last.r - 1 ELSE items[holder][last.r].key
    ELSE cell = last.cell \/ (last.keyed /\ pos # End(holder))
==============================================================================
