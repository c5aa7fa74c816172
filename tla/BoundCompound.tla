---------------------------- MODULE BoundCompound ----------------------------
(***************************************************************************)
(* The collection of bound compounds of src/ifaces/bound-value.c and the   *)
(* query product of src/query.c it is built on.  The product is an         *)
(* odometer: one wheel per bound query, reset from the left, advanced from *)
(* the right.  One action per turn of the loops of                         *)
(* hdql__query_product_reset, hdql_query_product_advance and of the filter *)
(* loops around them.                                                      *)
(*                                                                         *)
(* A wheel is a whole query and keeps the promise of QueryEnumeration:     *)
(* hdql_query_reset finds its first result or NULL, hdql_query_get the     *)
(* next one or NULL.  The promise says nothing of hdql_query_get on a      *)
(* query whose last reset found nothing: when that reset cut an unfinished *)
(* iteration short, links below the failing one still serve the old owner  *)
(* and the wheel may produce anything ("torn").                            *)
(***************************************************************************)
EXTENDS Naturals

CONSTANTS M,         \* number of bound queries (nBindingQueries)
          MaxFan,    \* bound on the results of one bound query
          Owners,    \* the data the virtual compound is applied to
          Verdicts,  \* what the filter may say of a combination
          NULL

ASSUME MAssumption == M \in Nat \ {0}
ASSUME MaxFanAssumption == MaxFan \in Nat
ASSUME VerdictsAssumption == /\ Verdicts \subseteq {"pass", "fail", "nothing"}
                             /\ "pass" \in Verdicts
ASSUME NULLAssumption == /\ NULL \notin Owners
                         /\ NULL \notin [1..M -> 1..MaxFan]

Wheel == 1..M

VARIABLES
  size,     \* size[d][i]: number of results of bound query i on owner d
  verdict,  \* verdict[d][c]: the filter's value on combination c of owner d;
            \*   "nothing" when the filter query results in NULL.  A
            \*   collection without a filter passes everything.
  owner,    \* QueryProdIterator.owner
  values,   \* QueryProdIterator.values, by the number of the result; 0: NULL
  serves,   \* serves[i]: the owner wheel i was last reset on, or NULL
  at,       \* at[i]: which result of serves[i] wheel i is at, one more than
            \*   the last when it is over
  torn,     \* torn[i]: the last reset of wheel i found nothing and cut an
            \*   unfinished iteration short
  pc, op, i,   \* where the running call is: the loop, the interface method,
               \*   and the wheel at hand
  given,    \* the owner of the last reset
  served,   \* hdql_query_reset of the chain found its first result, the
            \*   chain is now in hdql_query_get
  out       \* result of the last finished call

data == <<size, verdict>>
wheels == <<serves, at, torn>>
vars == <<size, verdict, owner, values, serves, at, torn, pc, op, i, given,
          served, out>>

Combos == [Wheel -> 1..MaxFan]

Places == {"idle", "productReset", "advance", "filter", "crashed"}

TypeOK ==
  /\ size \in [Owners -> [Wheel -> 0..MaxFan]]
  /\ verdict \in [Owners -> [Combos -> Verdicts]]
  /\ owner \in Owners \cup {NULL}
  /\ values \in [Wheel -> 0..MaxFan]
  /\ serves \in [Wheel -> Owners \cup {NULL}]
  /\ at \in [Wheel -> 0..(MaxFan + 1)]
  /\ torn \in [Wheel -> BOOLEAN]
  /\ pc \in Places
  /\ op \in {"reset", "yield"}
  /\ i \in Wheel
  /\ given \in Owners \cup {NULL}
  /\ served \in BOOLEAN
  /\ out \in Combos \cup {NULL}

(* A combination that does not exist has no verdict: no property depends   *)
(* on it, it only keeps the number of initial states down.                 *)
NoVerdictOnAbsent == \A d \in Owners, c \in Combos :
  (\E w \in Wheel : c[w] > size[d][w]) => verdict[d][c] = "pass"

Init ==
  /\ size \in [Owners -> [Wheel -> 0..MaxFan]]
  /\ verdict \in [Owners -> [Combos -> Verdicts]]
  /\ NoVerdictOnAbsent
  /\ owner = NULL
  /\ values = [w \in Wheel |-> 0]
  /\ serves = [w \in Wheel |-> NULL]
  /\ at = [w \in Wheel |-> 0]
  /\ torn = [w \in Wheel |-> FALSE]
  /\ pc = "idle" /\ op = "reset" /\ i = 1
  /\ given = NULL
  /\ served = FALSE
  /\ out = NULL
-----------------------------------------------------------------------------
(***************************************************************************)
(* The two calls of the query chain.  The chain resets a link when the     *)
(* client applies the query anew, at any moment, or when the link's parent *)
(* moved on.  Until the chain found its first result a link whose reset    *)
(* found nothing is reset on the parent's next datum at once, and only a   *)
(* link that stands on a result is asked for the next.  From then on       *)
(* (hdql_query_get) a link is asked to yield also when its very last reset *)
(* found nothing, and always before it is reset again.                     *)
(***************************************************************************)
CallReset(d, anew) ==
  /\ pc = "idle"
  /\ anew \/ (out = NULL /\ (served => op = "yield"))
  /\ pc' = "productReset" /\ op' = "reset" /\ i' = 1
  /\ owner' = d /\ given' = d
  /\ served' = (served /\ ~anew)
  /\ out' = NULL
  /\ UNCHANGED <<data, wheels, values>>

(* Mutant: the odometer is turned from the left. *)
CallYieldFromLeft ==
  /\ pc = "idle"
  /\ served \/ out # NULL
  /\ served' \in {served, TRUE}
  /\ pc' = "advance" /\ op' = "yield" /\ i' = 1
  /\ out' = NULL
  /\ UNCHANGED <<data, wheels, owner, values, given>>

CallYield ==
  /\ pc = "idle"
  /\ served \/ out # NULL
  /\ served' \in {served, TRUE}
  /\ pc' = "advance" /\ op' = "yield" /\ i' = M
  /\ out' = NULL
  /\ UNCHANGED <<data, wheels, owner, values, given>>
-----------------------------------------------------------------------------
(* HDQL_ERR_EMPTY_SET reached the interface method: the iterator drops its *)
(* owner and returns it.                                                   *)
ReturnEmpty == /\ pc' = "idle" /\ i' = 1
               /\ owner' = NULL
               /\ UNCHANGED out

(* A combination is accepted; the method returns the owner, and the bound  *)
(* attributes read the values array.                                       *)
ReturnCombo == /\ pc' = "idle" /\ i' = 1
               /\ out' = values
               /\ UNCHANGED owner

(* hdql_query_reset of wheel w on d. *)
Unfinished(w) == serves[w] # NULL /\ at[w] <= size[serves[w]][w]
ResetWheel(w, d) ==
  /\ serves' = [serves EXCEPT ![w] = d]
  /\ at' = [at EXCEPT ![w] = 1]
  /\ torn' = [torn EXCEPT ![w] = size[d][w] = 0 /\ (@ \/ Unfinished(w))]
  /\ values' = [values EXCEPT ![w] = IF size[d][w] = 0 THEN 0 ELSE 1]

(* One turn of the loop of hdql__query_product_reset, entered for all      *)
(* wheels or for those to the right of one that advanced.  The wheels to   *)
(* the right of one that finds nothing are left as they were.  A query     *)
(* reset on no datum follows a NULL pointer.                               *)
ProductReset ==
  /\ pc = "productReset"
  /\ \/ /\ owner = NULL
        /\ pc' = "crashed"
        /\ UNCHANGED <<wheels, owner, values, i, out>>
     \/ /\ owner # NULL
        /\ ResetWheel(i, owner)
        /\ \/ size[owner][i] = 0 /\ ReturnEmpty
           \/ /\ size[owner][i] > 0
              /\ IF i = M THEN pc' = "filter" /\ i' = 1
                          ELSE i' = i + 1 /\ UNCHANGED pc
              /\ UNCHANGED <<owner, out>>
  /\ UNCHANGED <<data, op, given, served>>

(* hdql_query_get of wheel w. *)
GetFinds(w) == serves[w] # NULL /\ at[w] < size[serves[w]][w]

GetWheel(w) ==
  at' = [at EXCEPT ![w] = IF GetFinds(w) THEN @ + 1 ELSE size[serves[w]][w] + 1]

(* Mutant: a wheel advances and its datum is not stored. *)
AdvanceUnstored ==
  /\ pc = "advance"
  /\ serves[i] # NULL
  /\ GetWheel(i)
  /\ \/ /\ GetFinds(i)
        /\ IF i = M THEN pc' = "filter" /\ i' = 1
                    ELSE pc' = "productReset" /\ i' = i + 1
        /\ UNCHANGED <<owner, out>>
     \/ /\ ~GetFinds(i)
        /\ IF i = 1 THEN ReturnEmpty
                    ELSE i' = i - 1 /\ UNCHANGED <<pc, owner, out>>
  /\ UNCHANGED <<data, serves, torn, op, given, served, values>>

(* Mutant: the wheels to the right are not reset. *)
AdvanceNoSuffix ==
  /\ pc = "advance"
  /\ serves[i] # NULL
  /\ GetWheel(i)
  /\ \/ /\ GetFinds(i)
        /\ values' = [values EXCEPT ![i] = at[i] + 1]
        /\ pc' = "filter" /\ i' = 1
        /\ UNCHANGED <<owner, out>>
     \/ /\ ~GetFinds(i)
        /\ IF i = 1 THEN ReturnEmpty
                    ELSE i' = i - 1 /\ UNCHANGED <<pc, owner, out>>
        /\ UNCHANGED values
  /\ UNCHANGED <<data, serves, torn, op, given, served>>

(* One turn of the loop of hdql_query_product_advance: the wheel at hand   *)
(* advances and the wheels to its right are reset, or it is depleted and   *)
(* the turn goes to the wheel to its left.                                 *)
Advance ==
  /\ pc = "advance"
  /\ serves[i] # NULL
  /\ GetWheel(i)
  /\ \/ /\ GetFinds(i)
        /\ values' = [values EXCEPT ![i] = at[i] + 1]
        /\ IF i = M THEN pc' = "filter" /\ i' = 1
                    ELSE pc' = "productReset" /\ i' = i + 1
        /\ UNCHANGED <<owner, out>>
     \/ /\ ~GetFinds(i)
        /\ IF i = 1 THEN ReturnEmpty
                    ELSE i' = i - 1 /\ UNCHANGED <<pc, owner, out>>
        /\ UNCHANGED values
  /\ UNCHANGED <<data, serves, torn, op, given, served>>

(* Mutant: the yield method too evaluates the filter on the same one again. *)
FilterInsists ==
  /\ pc = "filter"
  /\ \/ verdict[given][values] = "pass" /\ ReturnCombo
     \/ /\ verdict[given][values] = "fail"
        /\ pc' = "advance" /\ i' = M
        /\ UNCHANGED <<owner, out>>
     \/ /\ verdict[given][values] = "nothing"
        /\ UNCHANGED <<pc, i, owner, out>>
  /\ UNCHANGED <<data, wheels, values, op, given, served>>

(* The filter is evaluated on the combination at hand.  Where the filter   *)
(* results in nothing, the yield method goes on with the next combination; *)
(* the reset method evaluates the filter on the same one again.            *)
Filter ==
  /\ pc = "filter"
  /\ \/ verdict[given][values] = "pass" /\ ReturnCombo
     \/ /\ \/ verdict[given][values] = "fail"
           \/ verdict[given][values] = "nothing" /\ op = "yield"
        /\ pc' = "advance" /\ i' = M
        /\ UNCHANGED <<owner, out>>
     \/ /\ verdict[given][values] = "nothing" /\ op = "reset"
        /\ UNCHANGED <<pc, i, owner, out>>
  /\ UNCHANGED <<data, wheels, values, op, given, served>>
-----------------------------------------------------------------------------
Step == ProductReset \/ Advance \/ Filter

Next == \/ \E d \in Owners, anew \in BOOLEAN : CallReset(d, anew)
        \/ CallYield
        \/ Step

(* A call runs to its end: nothing in it waits for anything. *)
Spec == Init /\ [][Next]_vars /\ WF_vars(Step)
-----------------------------------------------------------------------------
(***************************************************************************)
(* Properties.                                                             *)
(***************************************************************************)

(* The combinations of the owner at hand that the odometer has still to    *)
(* show: those after, or not before, what its first k wheels are at.       *)
Later(c, k) == \E j \in 1..k : /\ c[j] > values[j]
                               /\ \A h \in 1..(j - 1) : c[h] = values[h]
Same(c, k) == \A j \in 1..k : c[j] = values[j]

Prod == INSTANCE ProductEnumeration WITH rest <- {}, busy <- pc # "idle"

Rest ==
  IF given = NULL THEN {} ELSE
  {c \in Prod!Wanted(given) :
     CASE pc = "idle" -> out # NULL /\ Later(c, M)
       [] pc = "productReset" -> Later(c, i - 1) \/ Same(c, i - 1)
       [] pc = "advance" -> Later(c, i)
       [] pc = "filter" -> Later(c, M) \/ Same(c, M)
       [] OTHER -> FALSE}

Abstract == INSTANCE ProductEnumeration WITH rest <- Rest, busy <- pc # "idle"

(* What the collection delivers is the filtered Cartesian product of the   *)
(* owner it was last reset on, in order and without repetition, and it     *)
(* does not stop early: the stale wheels that a failed reset leaves behind *)
(* never show up in a result.                                              *)
DeliversProduct == Abstract!SafeSpec

(* When the product is advanced, every wheel it may still ask serves the   *)
(* owner of the last reset, or is over; no wheel is asked for more after a *)
(* reset that found nothing tore it off an unfinished iteration.           *)
NoLeftover ==
  pc = "advance" =>
    /\ ~torn[i]
    /\ serves[i] # NULL
    /\ \A w \in i..M : serves[w] # given => at[w] > size[serves[w]][w]

(* The bound attributes' values are those of the wheels, and of one owner, *)
(* whenever a combination is delivered or shown to the filter.             *)
ValuesAreWheels ==
  (pc = "filter" \/ (pc = "idle" /\ out # NULL)) =>
    /\ owner = given
    /\ \A w \in Wheel : /\ serves[w] = owner
                        /\ values[w] = at[w]
                        /\ at[w] \in 1..size[owner][w]

(* Every call returns, unless it resets a query on no datum or the filter  *)
(* results in nothing on the first combination that a reset shows it.      *)
Stuck == pc = "filter" /\ op = "reset" /\ verdict[given][values] = "nothing"
CallsReturn == (pc # "idle") ~> (pc = "idle" \/ pc = "crashed" \/ Stuck)

(* A reset returns, also when the filter, a query made of scalars, which   *)
(* can result in nothing, does so.                                         *)
ResetReturns == (pc = "productReset" /\ op = "reset") ~> (pc \in {"idle", "crashed"})
==============================================================================
