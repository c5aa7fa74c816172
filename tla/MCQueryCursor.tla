---------------------------- MODULE MCQueryCursor ----------------------------
(***************************************************************************)
(* One query with a number as result, one with a compound.                 *)
(***************************************************************************)
EXTENDS QueryCursor, TLC

MCCount == [o \in Rooted |-> IF o = "event" THEN 2 ELSE 0]
MCConversions == {<<"double", "float">>}
MCResultType == [q \in Queries |-> IF q = "hits" THEN "float" ELSE "Hit"]
MCSymmetry == Permutations(Cursors)
==============================================================================
