--------------------------- MODULE MCBoundCompound ---------------------------
(***************************************************************************)
(* Either there is no filter, or the last bound query has one result on    *)
(* each owner, and the filter may say anything.                            *)
(***************************************************************************)
EXTENDS BoundCompound

Sizes == [Wheel -> 0..MaxFan]
PassAll == [c \in Combos |-> "pass"]
Filters == {[c \in Combos |-> IF c[M] = 1 THEN f[c] ELSE "pass"] :
              f \in [{c \in Combos : c[M] = 1} -> Verdicts]}

MCInit ==
  /\ \/ size \in [Owners -> Sizes] /\ verdict = [d \in Owners |-> PassAll]
     \/ /\ size \in [Owners -> {s \in Sizes : s[M] = 1}]
        /\ verdict \in [Owners -> Filters]
  /\ Init

MCSpec == MCInit /\ [][Next]_vars /\ WF_vars(Step)
==============================================================================
