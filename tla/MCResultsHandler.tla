-------------------------- MODULE MCResultsHandler ---------------------------
(***************************************************************************)
(* Results of every shape, with nested compounds and attributes of virtual *)
(* compounds.                                                              *)
(***************************************************************************)
EXTENDS ResultsHandler

Node(shape, first, fwd, sub) == [shape |-> shape, first |-> first, fwd |-> fwd, sub |-> sub]
First == Node("atomic", TRUE, "no", <<>>)
Later == Node("atomic", FALSE, "no", <<>>)
Samples == Node("array", FALSE, "no", <<>>)
Hits == Node("container", FALSE, "no", <<>>)
Nested(sub) == Node("compound", FALSE, "no", sub)
Forward(shape, fwd) == Node(shape, FALSE, fwd, IF shape = "compound" THEN <<First>> ELSE <<>>)

RawData == Nested(<<Samples, First>>)
Hit == Nested(<<First, Later, RawData>>)

(* The handlers of an attribute, with their places. *)
RECURSIVE Spread(_, _)
Spread(a, path) ==
  {[path |-> path, attr |-> a]}
    \cup UNION {Spread(a.sub[i], Append(path, i)) : i \in DOMAIN a.sub}

Tree(root) ==
  LET all == Spread(root, RootPath)
      At(p) == (CHOOSE x \in all : x.path = p).attr
  IN [p \in {x.path : x \in all} |->
        [shape |-> At(p).shape, first |-> At(p).first, fwd |-> At(p).fwd,
         subs |-> Len(At(p).sub)]]

Query(root, origin, keys) == [tree |-> Tree(root), origin |-> origin, keys |-> keys]

MCRequests ==
  {Query(v, "object", k) : k \in 0..2,
     v \in {Hit, Nested(<<Hits, RawData, Later>>),
            Nested(<<Nested(<<Nested(<<First>>), Samples>>), First>>),
            Nested(<<Forward("atomic", "scalar"), Later>>),
            Nested(<<Forward("atomic", "chain"), Later>>),
            Nested(<<Forward("container", "chain"), Hits, Later>>),
            Nested(<<Forward("compound", "scalar")>>),
            Nested(<<Nested(<<Hits, Later>>), Nested(<<Nested(<<Hits>>)>>)>>)}}
  \cup {Query(v, o, 1) : v \in {First, Later}, o \in {"item", "member", "computed"}}
==============================================================================
