---------------------------- MODULE MCQueryChain ----------------------------
(***************************************************************************)
(* Three links and two events: every data of the first event, the second   *)
(* being empty; and every data of both of which the last link, a scalar,   *)
(* finds one element on each datum, and the links of the second event at   *)
(* most one.                                                               *)
(***************************************************************************)
EXTENDS QueryChain

FirstOnly == {[d \in Inner |-> IF d[0] = 1 THEN f[d] ELSE 0] :
                f \in [{d \in Inner : d[0] = 1} -> 0..MaxFan]}

Found(f, d) == d[1] <= f[Prefix(d, 0)] /\ d[2] <= f[Prefix(d, 1)]
LastFindsOne == {[d \in Inner |-> IF d[2] = 0 THEN f[d]
                                  ELSE IF Found(f, d) THEN 1 ELSE 0] :
                   f \in {g \in [{d \in Inner : d[2] = 0} -> 0..MaxFan] :
                              \A d \in DOMAIN g : d[0] = 2 => g[d] <= 1}}

MCInit == /\ data \in FirstOnly \cup LastFindsOne
          /\ Init
          /\ data \in FirstOnly \/ kind[3] = "scalar"

MCSpec == MCInit /\ [][Next]_vars /\ WF_vars(Step)
==============================================================================
