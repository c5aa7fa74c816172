----------------------------- MODULE MCContext -----------------------------
(***************************************************************************)
(* The registries share nothing but the lifetimes of the contexts: each    *)
(* behaviour uses one of them, in every order of its operations.           *)
(***************************************************************************)
EXTENDS Context

CONSTANT Registries

VARIABLE used

(* An integer and a floating point type promote to the latter. *)
MCPromotions == {<<"int", "float", "float">>}

(* An overload for integers, one for floating point, one for both. *)
MCConstructors == {{"int"}, {"float"}, {"int", "float"}}

(* 0.0 has the bits of 0; those of 1.0 are a large integer, here 4, and    *)
(* those of that integer as a floating point number are others again.      *)
MCBits == [v \in {0, 1, 4} |-> CASE v = 0 -> 0 [] v = 1 -> 4 [] v = 4 -> 5]

MCInit == Init /\ used \in Registries

MCNext ==
  /\ UNCHANGED used
  /\ \/ CreateDescendant \/ Destroy
     \/ used = "types" /\ \E t \in 1..made : OfTypes(t)
     \/ used = "converters" /\ \E t \in 1..made : OfConverters(t)
     \/ used = "functions" /\ (ResolveStep \/ \E t \in 1..made : OfFunctions(t))
     \/ used = "constants" /\ \E t \in 1..made : OfConstants(t)

MCSpec == MCInit /\ [][MCNext]_<<vars, used>> /\ WF_vars(ResolveStep)
==============================================================================
