----------------------------- MODULE QueryChain -----------------------------
(***************************************************************************)
(* The chain engine of src/query.c: a query is a doubly linked chain of    *)
(* links, each bound to an attribute (scalar or collection), and its       *)
(* results are found by an iterative depth-first search that keeps one     *)
(* iterator per link.  One action per loop step of hdql_query_reset and    *)
(* hdql_query_get.  The list of keys, when the caller gives one, is walked *)
(* by a pointer of its own, in lock-step with the links.                   *)
(*                                                                         *)
(* An attribute interface is what its contract says: a reset picks the     *)
(* first element or reports NULL, a yield picks the next one or reports    *)
(* NULL, and goes on reporting NULL once the elements are depleted.        *)
(***************************************************************************)
EXTENDS Paths

CONSTANT NULL

ASSUME NULLAssumption == NULL \notin [0..N -> Events \cup 0..MaxFan]

VARIABLES
  kind,   \* kind[i]: is the attribute of link i a collection or a scalar
  data,   \* data[d]: how many elements are found on datum d
  own,    \* own[i]: the owner the iterator of link i was reset to, or NULL
          \*   when it was never created (hdql_Query.owner, state.iterator)
  at,     \* at[i]: which element of own[i] link i is at, one more than the
          \*   last when it is depleted; at[0]: the event being queried
  key,    \* key[i]: the value in the i-th cell of the caller's key list
  keyed,  \* did the caller give a key list
  pc, cq, ck, r,  \* locals of the running call: the loop it is in, the
          \*   current link and key cell (0: none), and the datum at hand
  out,    \* result of the last finished call
  live    \* the last hdql_query_reset found a result

links == <<kind, data>>
call == <<pc, cq, ck, r>>
vars == <<kind, data, own, at, key, keyed, pc, cq, ck, r, out, live>>

Kinds == {"scalar", "collection"}
Loops == {"idle", "resetDescend", "resetClimb", "getYield", "getDescend"}

LinkTypes == /\ kind \in [Link -> Kinds]
             /\ data \in [Inner -> 0..MaxFan]

IterTypes == /\ own \in [Link -> Inner \cup {NULL}]
             /\ \A i \in Link : own[i] # NULL => own[i] \in Owner(i)
             /\ at \in [0..N -> Nat]
             /\ at[0] \in Events \cup {0}
             /\ \A i \in Link : at[i] <= MaxFan + 1

KeyTypes == /\ key \in [Link -> 0..(MaxFan + 1)]
            /\ keyed \in BOOLEAN
            /\ ck \in 0..N

CallTypes == /\ pc \in Loops
             /\ cq \in 0..N
             /\ pc # "idle" => cq \in Link
             /\ r \in Path \cup {NULL}
             /\ out \in Path \cup {NULL}
             /\ live \in BOOLEAN

TypeOK == LinkTypes /\ IterTypes /\ KeyTypes /\ CallTypes

(* A scalar finds at most one element on any datum. *)
ScalarsFit == \A i \in Link : kind[i] = "scalar" =>
                                \A d \in Owner(i) : data[d] <= 1

(* A datum that does not exist has no elements: no property depends on it, *)
(* it only keeps the number of initial states down.                        *)
NothingOnAbsent == \A i \in Link : \A d \in Owner(i) :
  (\E j \in 1..(i - 1) : d[j] > data[Prefix(d, j - 1)]) => data[d] = 0

Init ==
  /\ kind \in [Link -> Kinds]
  /\ data \in [Inner -> 0..MaxFan]
  /\ ScalarsFit
  /\ NothingOnAbsent
  /\ own = [i \in Link |-> NULL]
  /\ at = [i \in 0..N |-> 0]
  /\ key = [i \in Link |-> 0]
  /\ keyed = FALSE
  /\ pc = "idle" /\ cq = 0 /\ ck = 0 /\ r = NULL
  /\ out = NULL
  /\ live = FALSE
-----------------------------------------------------------------------------
(***************************************************************************)
(* Helpers of the engine.                                                  *)
(***************************************************************************)

(* hdql__keys_next and hdql__keys_prev; no list is walked when ck = 0. *)
KeysNext == IF keyed THEN ck + 1 ELSE ck
KeysPrev == IF keyed THEN ck - 1 ELSE ck

(* An interface that is given a key cell sets it on success only; the cell *)
(* of a scalar has no type and is left alone.                              *)
SetKey(i, cell, k) == key' = IF keyed /\ kind[i] = "collection"
                               THEN [key EXCEPT ![cell] = k] ELSE key

(* The call returns d to the client. *)
Return(d) == /\ pc' = "idle" /\ cq' = 0 /\ ck' = 0 /\ r' = NULL
             /\ out' = d

(* Mutant: an iterator stays bound to the owner it was created on. *)
ResetLinkOnce(i, d) == /\ own' = [own EXCEPT ![i] = IF @ = NULL THEN d ELSE @]
                       /\ at' = [at EXCEPT ![i] = 1]

(* hdql__query_reset on link i with owner d: the iterator is created on    *)
(* the first use and put on the first element of d.                        *)
ResetLink(i, d) == /\ own' = [own EXCEPT ![i] = d]
                   /\ at' = [at EXCEPT ![i] = 1]
ResetFinds(d) == data[d] >= 1

(* hdql__query_yield on link i: a scalar never yields, a collection yields *)
(* its next element; a depleted one stays depleted.                        *)
YieldFinds(i) == kind[i] = "collection" /\ at[i] < data[own[i]]

YieldLink(i) == at' = [at EXCEPT ![i] = IF YieldFinds(i) THEN @ + 1
                                                         ELSE data[own[i]] + 1]
Yielded(i) == Element(i, own[i], at[i] + 1)
-----------------------------------------------------------------------------
(***************************************************************************)
(* hdql_query_reset: the client applies the query to event e.              *)
(***************************************************************************)
CallReset(e, withKey) ==
  /\ pc = "idle"
  /\ pc' = "resetDescend"
  /\ cq' = 1
  /\ keyed' = withKey
  /\ ck' = IF withKey THEN 1 ELSE 0
  /\ at' = [at EXCEPT ![0] = e]
  /\ r' = [j \in 0..N |-> IF j = 0 THEN e ELSE 0]
  /\ out' = NULL
  /\ live' = FALSE
  /\ UNCHANGED <<links, own, key>>

(* Mutant: the first datum on which nothing is found ends the search. *)
ResetDescendGivesUp ==
  /\ pc = "resetDescend"
  /\ ResetLink(cq, r)
  /\ \/ /\ ResetFinds(r)
        /\ SetKey(cq, ck, 1)
        /\ IF cq = N
             THEN Return(Element(cq, r, 1)) /\ live' = TRUE
             ELSE /\ cq' = cq + 1 /\ ck' = KeysNext
                  /\ r' = Element(cq, r, 1)
                  /\ UNCHANGED <<pc, out, live>>
     \/ ~ResetFinds(r) /\ Return(NULL) /\ UNCHANGED <<key, live>>
  /\ UNCHANGED <<links, keyed>>

(* First inner loop of hdql__query_reset_descendant: reset the link at     *)
(* hand on the datum its parent found, and go deeper while data is found.  *)
ResetDescend ==
  /\ pc = "resetDescend"
  /\ ResetLink(cq, r)
  /\ \/ /\ ResetFinds(r)
        /\ SetKey(cq, ck, 1)
        /\ IF cq = N
             THEN Return(Element(cq, r, 1)) /\ live' = TRUE
             ELSE /\ cq' = cq + 1 /\ ck' = KeysNext
                  /\ r' = Element(cq, r, 1)
                  /\ UNCHANGED <<pc, out, live>>
     \/ /\ ~ResetFinds(r)
        /\ pc' = "resetClimb" /\ r' = NULL
        /\ UNCHANGED <<cq, ck, key, out, live>>
  /\ UNCHANGED <<links, keyed>>

(* Mutant: the parent is advanced before the key walk has stepped back. *)
ResetClimbLateKey ==
  /\ pc = "resetClimb"
  /\ IF cq = 1
       THEN Return(NULL) /\ UNCHANGED <<at, key>>
       ELSE /\ YieldLink(cq - 1)
            /\ \/ /\ YieldFinds(cq - 1)
                  /\ SetKey(cq - 1, ck, at[cq - 1] + 1)
                  /\ r' = Yielded(cq - 1)
                  /\ pc' = "resetDescend"
                  /\ UNCHANGED <<cq, ck>>
               \/ /\ ~YieldFinds(cq - 1)
                  /\ cq' = cq - 1 /\ ck' = KeysPrev
                  /\ UNCHANGED <<key, r, pc>>
            /\ UNCHANGED out
  /\ UNCHANGED <<links, own, keyed, live>>

(* Second inner loop: nothing is found below, so climb to the parent and   *)
(* advance it; the link that failed is not asked again.                    *)
ResetClimb ==
  /\ pc = "resetClimb"
  /\ IF cq = 1
       THEN Return(NULL) /\ UNCHANGED <<at, key>>
       ELSE /\ YieldLink(cq - 1)
            /\ \/ /\ YieldFinds(cq - 1)
                  /\ SetKey(cq - 1, KeysPrev, at[cq - 1] + 1)
                  /\ r' = Yielded(cq - 1)
                  /\ pc' = "resetDescend"
                  /\ UNCHANGED <<cq, ck>>
               \/ /\ ~YieldFinds(cq - 1)
                  /\ cq' = cq - 1 /\ ck' = KeysPrev
                  /\ UNCHANGED <<key, r, pc>>
            /\ UNCHANGED out
  /\ UNCHANGED <<links, own, keyed, live>>
-----------------------------------------------------------------------------
CallGet ==
  /\ pc = "idle"
  /\ live
  /\ pc' = "getYield"
  /\ cq' = N
  /\ ck' = IF keyed THEN N ELSE 0
  /\ out' = NULL
  /\ UNCHANGED <<links, own, at, key, keyed, r, live>>

(* Mutant: backtracking leaves the key walk behind. *)
GetYieldKeyLags ==
  /\ pc = "getYield"
  /\ YieldLink(cq)
  /\ \/ /\ YieldFinds(cq)
        /\ SetKey(cq, ck, at[cq] + 1)
        /\ IF cq = N
             THEN Return(Yielded(cq))
             ELSE /\ pc' = "getDescend" /\ r' = Yielded(cq)
                  /\ cq' = cq + 1 /\ ck' = KeysNext
                  /\ UNCHANGED out
     \/ /\ ~YieldFinds(cq)
        /\ IF cq = 1
             THEN Return(NULL)
             ELSE cq' = cq - 1 /\ UNCHANGED <<pc, r, out, ck>>
        /\ UNCHANGED key
  /\ UNCHANGED <<links, own, keyed, live>>

(* Backtrack until some link yields an element. *)
GetYield ==
  /\ pc = "getYield"
  /\ YieldLink(cq)
  /\ \/ /\ YieldFinds(cq)
        /\ SetKey(cq, ck, at[cq] + 1)
        /\ IF cq = N
             THEN Return(Yielded(cq))
             ELSE /\ pc' = "getDescend" /\ r' = Yielded(cq)
                  /\ cq' = cq + 1 /\ ck' = KeysNext
                  /\ UNCHANGED out
     \/ /\ ~YieldFinds(cq)
        /\ IF cq = 1
             THEN Return(NULL)
             ELSE /\ cq' = cq - 1 /\ ck' = KeysPrev
                  /\ UNCHANGED <<pc, r, out>>
        /\ UNCHANGED key
  /\ UNCHANGED <<links, own, keyed, live>>

(* Mutant: after an empty child, backtracking starts over from the terminal *)
(* link, whose iterator still serves an owner that was left.               *)
GetDescendRestarts ==
  /\ pc = "getDescend"
  /\ ResetLink(cq, r)
  /\ \/ /\ ResetFinds(r)
        /\ SetKey(cq, ck, 1)
        /\ IF cq = N
             THEN Return(Element(cq, r, 1))
             ELSE /\ cq' = cq + 1 /\ ck' = KeysNext
                  /\ r' = Element(cq, r, 1)
                  /\ UNCHANGED <<pc, out>>
     \/ /\ ~ResetFinds(r)
        /\ pc' = "getYield" /\ r' = NULL
        /\ cq' = N /\ ck' = IF keyed THEN N ELSE 0
        /\ UNCHANGED <<key, out>>
  /\ UNCHANGED <<links, keyed, live>>

(* Descend again, resetting each child on what its parent found.  When a   *)
(* child finds nothing, backtracking resumes at that child.                *)
GetDescend ==
  /\ pc = "getDescend"
  /\ ResetLink(cq, r)
  /\ \/ /\ ResetFinds(r)
        /\ SetKey(cq, ck, 1)
        /\ IF cq = N
             THEN Return(Element(cq, r, 1))
             ELSE /\ cq' = cq + 1 /\ ck' = KeysNext
                  /\ r' = Element(cq, r, 1)
                  /\ UNCHANGED <<pc, out>>
     \/ /\ ~ResetFinds(r)
        /\ pc' = "getYield" /\ r' = NULL
        /\ UNCHANGED <<cq, ck, key, out>>
  /\ UNCHANGED <<links, keyed, live>>
-----------------------------------------------------------------------------
Step == ResetDescend \/ ResetClimb \/ GetYield \/ GetDescend

Next == \/ \E e \in Events, withKey \in BOOLEAN : CallReset(e, withKey)
        \/ CallGet
        \/ Step

(* A call runs to its end: nothing in the engine waits for anything. *)
Spec == Init /\ [][Next]_vars /\ WF_vars(Step)
-----------------------------------------------------------------------------
(***************************************************************************)
(* Properties.                                                             *)
(***************************************************************************)

(* The links up to k serve the data that the links above them are at. *)
Synced(k) == \A i \in 1..k : own[i] = Prefix(at, i - 1)

(* The links up to k are at an element that exists. *)
Standing(k) == \A i \in 1..k : at[i] \in 1..data[Prefix(at, i - 1)]

(* The links from k on have nothing more to yield. *)
Spent(k) == \A i \in k..N : own[i] # NULL /\ at[i] > data[own[i]]

(* The key cells of the links up to k name the elements these are at. *)
KeyAt(k) == keyed => \A i \in 1..k : kind[i] = "collection" => key[i] = at[i]

Position(k) == Synced(k) /\ Standing(k) /\ KeyAt(k)

Drained == Synced(1) /\ Spent(1)

(* Where the iterators are, loop by loop: the links above the one at hand  *)
(* describe one position in the data, the links below it are spent.        *)
WalkInv ==
  /\ (pc # "idle" \/ live) => at[0] \in Events
  /\ out # NULL => /\ pc = "idle" /\ live
                   /\ Position(N) /\ out = Prefix(at, N)
  /\ (pc = "idle" /\ live /\ out = NULL) => Drained
  /\ pc \in {"resetDescend", "getDescend"} => /\ Position(cq - 1)
                                              /\ r = Prefix(at, cq - 1)
  /\ pc = "resetClimb" => Position(cq - 1)
  /\ pc = "getDescend" => Spent(cq)
  /\ pc = "getYield" => \/ Drained
                        \/ /\ Position(cq - 1)
                           /\ own[cq] = Prefix(at, cq - 1) /\ at[cq] >= 1
                           /\ Spent(cq + 1)

(* Paths that come after the elements the first k links are at, and paths  *)
(* that go through all of these elements.                                  *)
After(k) == {q \in Leaves(data, at[0]) :
               \E j \in 1..k : /\ q[j] > at[j]
                               /\ \A i \in 1..(j - 1) : q[i] = at[i]}
Under(k) == {q \in Leaves(data, at[0]) : \A i \in 1..k : q[i] = at[i]}

(* The paths the engine has still to deliver, read off its iterators. *)
Rest ==
  CASE pc = "idle" -> IF out = NULL THEN {} ELSE After(N)
    [] pc = "resetClimb" -> After(cq - 1)
    [] pc = "getYield" -> After(cq)
    [] OTHER -> After(cq - 1) \cup Under(cq - 1)

Enum == INSTANCE QueryEnumeration WITH rest <- Rest, busy <- pc # "idle"

(* The chain engine delivers every path of the event once, in depth-first  *)
(* order, then NULL for ever, and every call of it returns: the iterators  *)
(* of the links, half of them stale at any moment, are refined into the    *)
(* set of paths that QueryEnumeration keeps.                               *)
Enumerates == Enum!Spec

(* When a result is delivered with keys, the composite key is that of the  *)
(* result: every cell was rewritten by the link that moved last above it.  *)
KeyNamesResult == (pc = "idle" /\ out # NULL /\ keyed) =>
                    \A i \in Link : kind[i] = "collection" => key[i] = out[i]

(* An iterator is never advanced before it was created, nor while it still *)
(* serves an element of a datum that its parent left: a link is asked to   *)
(* yield on the owner its parent is at, or else every link is depleted.    *)
YieldOnOwner ==
  /\ pc = "resetClimb" => Synced(cq - 1)
  /\ pc = "getYield" => Synced(cq) \/ Spent(1)

(* What the locals of a running call are good for: the datum at hand is an *)
(* owner of the link at hand, and every link that may be asked to yield    *)
(* has an iterator.                                                        *)
Locals ==
  /\ pc \in {"resetDescend", "getDescend"} => r \in Owner(cq)
  /\ pc \in {"resetDescend", "resetClimb"} => \A i \in 1..(cq - 1) : own[i] # NULL
  /\ pc \in {"getYield", "getDescend"} => live
  /\ live => \A i \in Link : own[i] # NULL

(* The key cell in hand is the cell of the link in hand: the walk over the *)
(* key list neither lags nor runs over its terminal cell.                  *)
KeysInStep == /\ pc # "idle" => ck = IF keyed THEN cq ELSE 0
              /\ pc = "idle" => ck = 0

(* The three are inductive only together: a running call uses data and     *)
(* iterators that are there, of the types they should have, and the walk   *)
(* over the key list goes with the links.                                  *)
TypeInv == TypeOK /\ Locals /\ KeysInStep
==============================================================================
