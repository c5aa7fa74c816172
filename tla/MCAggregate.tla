----------------------------- MODULE MCAggregate -----------------------------
EXTENDS Aggregate

(* A multiple of each integer type's size among the sums, and numbers that  *)
(* conversions change; a negative float, and doubles below and above zero  *)
(* that differ in both halves.                                             *)
MCSample == [bool |-> {0, 1}, int |-> {-2, 0}, uint |-> {5},
             float |-> {-2}, double |-> {-6, 9}]

(* No two integers are told apart once they are floating, save from zero.  *)
MCRounded(u, t, v) ==
  LET one == IF t = "float" THEN 2 ELSE 9
  IN  IF v = 0 THEN 0 ELSE IF v > 0 THEN one ELSE -one

(* One argument of each kind of type, and two with and without conversion;  *)
(* four results are as many as an int has values.                          *)
MCSignatures == {<<"bool">>, <<"float">>, <<"double">>,
                 <<"int", "int">>, <<"int", "uint">>, <<"uint", "float">>}
==============================================================================
