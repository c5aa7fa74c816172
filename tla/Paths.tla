-------------------------------- MODULE Paths --------------------------------
(***************************************************************************)
(* The data an HDQL query walks over, seen from one query chain of N       *)
(* links.  A datum is named by the choices that lead to it: position 0     *)
(* holds the event (the root datum given to hdql_query_reset), position i  *)
(* the number of the element that link i picked.  Positions that are not   *)
(* chosen yet hold 0, so every datum of every depth is a function on 0..N. *)
(***************************************************************************)
EXTENDS Naturals

CONSTANTS N,        \* number of links in the chain
          MaxFan,   \* bound on the elements one attribute has on one datum
          Events    \* root data the client applies the query to

ASSUME NAssumption == N \in Nat \ {0}
ASSUME MaxFanAssumption == MaxFan \in Nat
ASSUME EventsAssumption == Events \subseteq Nat

Link == 1..N

Path == {p \in [0..N -> Events \cup 0..MaxFan] :
           p[0] \in Events /\ \A i \in Link : p[i] \in 0..MaxFan}

(* The datum reached by the first k choices of p. *)
Prefix(p, k) == [j \in 0..N |-> IF j <= k THEN p[j] ELSE 0]

(* The data link i can be applied to: i - 1 choices were made. *)
Owner(i) == {p \in Path : /\ \A j \in 1..(i - 1) : p[j] # 0
                          /\ \A j \in i..N : p[j] = 0}

Inner == UNION {Owner(i) : i \in Link}

(* Every element that link i finds on owner d, by its number. *)
Element(i, d, k) == [d EXCEPT ![i] = k]

(* Depth-first order of complete paths. *)
Before(p, q) == \E j \in Link : /\ p[j] < q[j]
                                /\ \A i \in 1..(j - 1) : p[i] = q[i]

(* The complete paths that event e has when fan[d] elements are found on d. *)
Leaves(fan, e) == {q \in Path : /\ q[0] = e
                                /\ \A i \in Link : q[i] \in 1..fan[Prefix(q, i - 1)]}
==============================================================================
