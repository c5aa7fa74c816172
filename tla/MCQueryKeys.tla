----------------------------- MODULE MCQueryKeys -----------------------------
(***************************************************************************)
(* Queries of every kind of link, each inside another kind.                *)
(***************************************************************************)
EXTENDS QueryKeys

MCSymmetry == Permutations(Keys) \cup Permutations(Rounds)

MCLink(kind, id, sub, filter) == [kind |-> kind, id |-> id, sub |-> sub, filter |-> filter]
T(id) == MCLink("typed", id, <<>>, <<>>)
N == MCLink("none", 0, <<>>, <<>>)
Fwd(n) == Forward(n)
Product(sub, filter) == MCLink("product", 0, sub, filter)
Arith(sub) == MCLink("arith", 0, sub, <<>>)
Call(n) == MCLink("call", 0, <<n>>, <<>>)

Chain(chains) == [chains |-> chains, direct |-> FALSE]
Direct(chains) == [chains |-> chains, direct |-> TRUE]

MCQueries == {
  Chain(<< <<T(1), N, T(2)>> >>),
  Chain(<< <<T(1), Fwd(2), T(3)>>, <<T(2), N>> >>),
  Chain(<< <<Fwd(2), T(1)>>, <<N, Fwd(3)>>, <<N>> >>),
  Chain(<< <<Product(<<2, 3>>, <<5>>), N>>, <<T(1), T(2)>>, <<Fwd(4)>>, <<T(3)>>, <<N>> >>),
  Chain(<< <<T(1), Fwd(2)>>, <<Product(<<3, 4>>, <<>>), T(4)>>, <<T(2)>>, <<N, T(3)>> >>),
  Chain(<< <<T(1), Arith(<<2, 3>>)>>, <<N>>, <<T(2), N>> >>),
  Chain(<< <<Arith(<<2>>)>>, <<T(1), T(2)>> >>),
  Chain(<< <<N, Arith(<<2, 3>>)>>, <<N>>, <<N, Fwd(4)>>, <<N>> >>),
  Direct(<< <<Product(<<2, 3>>, <<>>)>>, <<T(1)>>, <<N, T(2)>> >>),
  \* the key cell of an aggregate
  Chain(<< <<T(1), Call(2)>>, <<T(2)>> >>),
  \* a filter of two links over one bound query: {a := *.x : .a.ok}
  Chain(<< <<Product(<<2>>, <<3>>)>>, <<T(1)>>, <<N, N>> >>),
  \* an aggregate as a filter: {a := *.tracks.hits : any(.a.flags)}
  Chain(<< <<Product(<<2>>, <<3>>)>>, <<T(1), T(2)>>, <<Call(4)>>, <<N, T(3)>> >>) }
==============================================================================
