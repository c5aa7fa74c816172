------------------------------ MODULE NestedQuery ------------------------------
(***************************************************************************)
(* Queries inside queries.  The link of a chain may have an interface that *)
(* runs a query of its own: an attribute of a virtual compound that        *)
(* forwards to a query (ifaces/fwd-query-as-collection.c and -scalar.c),   *)
(* the filter of a virtual compound (filtered-v-compound.c), a C++ function*)
(* of scalars (helpers/functions.hh).  A forwarding collection has no      *)
(* iterator but the query that the attribute was defined with, so that all *)
(* links made for that attribute, of whatever query, share one.            *)
(*                                                                         *)
(* A chain is a sequence of links [kind, id, sub, n]: n tells the links'   *)
(* iterators apart, and the kind is                                        *)
(*   "member"    the attribute `id' of the object, a collection,           *)
(*   "value"     the attribute `id' of the object, a scalar,               *)
(*   "forward"   forwards to the chain sub[1], as a collection,            *)
(*   "scalar"    does, as a scalar,                                        *)
(*   "filter"    results in its owner if the filter sub[1] does in a true  *)
(*               value,                                                    *)
(*   "function"  a function of as many arguments as `id' says; sub are     *)
(*               those it is called with.                                  *)
(* A datum is the sequence of choices that lead to it, the event first.    *)
(***************************************************************************)
EXTENDS Integers, Sequences, SequencesExt

CONSTANTS Programs,   \* sequences of chains: the queries of a client
          Attributes, \* the members of objects
          Fan,        \* bound on the elements of a member
          Events,
          NULL

VARIABLES
  program,  \* the queries, a member of Programs
  size,     \* size[a][c]: elements of the collection a of an object reached
            \*   by c; the value of the scalar a, Fan for a NULL pointer
  st,       \* the iterators: [own, at] by the number of a link
  got,      \* got[w]: what query w resulted in since it was reset, or until
            \*   it was mixed
  event,    \* event[w]: what it was reset on, or NULL
  over,     \* over[w]: it resulted in NULL after that
  mixed,    \* mixed[w]: a query that shares an iterator was used meanwhile
  crashed   \* an iterator that does not exist was used

vars == <<program, size, st, got, event, over, mixed, crashed>>

Client == DOMAIN program
Found(datum, s) == [r |-> datum, st |-> s]
Nothing(s) == Found(NULL, s)
Crash == <<"crash">>

True(datum) == Last(datum) # 0

Scalar(l) == l.kind \in {"value", "scalar", "filter", "function"}
-----------------------------------------------------------------------------
(* hdql__query_reset() and hdql__query_yield(), with the methods of the    *)
(* interfaces; hdql_query_reset() and hdql_query_get() with their loops.   *)
(* The link with number n has the iterator s[n].                           *)
RECURSIVE ResetLink(_, _, _), YieldLink(_, _), ResetArgs(_, _, _, _),
          Descend(_, _, _, _), Climb(_, _, _), Back(_, _, _), Down(_, _, _, _)

ResetChain(c, d, s) == Descend(c, 1, d, s)
GetChain(c, s) == Back(c, Len(c), s)

Elem(l, s) == IF s[l.n].own = NULL THEN Crash
              ELSE IF s[l.n].at <= size[l.id][Last(s[l.n].own)]
              THEN Append(s[l.n].own, s[l.n].at) ELSE NULL

(* Mutant: the iterator goes on from where it was. *)
MemberResumes(l, d, s) ==
  LET t == [s EXCEPT ![l.n] = IF @.own = NULL THEN [own |-> d, at |-> 1] ELSE [@ EXCEPT !.own = d]]
  IN Found(Elem(l, t), t)

Member(l, d, s) ==
  LET t == [s EXCEPT ![l.n] = [own |-> d, at |-> 1]] IN Found(Elem(l, t), t)

Value(l, d) == LET v == size[l.id][Last(d)] IN IF v = Fan THEN NULL ELSE Append(d, v)

(* Mutant: the filter is read although it resulted in NULL. *)
FilterUnchecked(l, d, s) ==
  LET f == ResetChain(l.sub[1], d, s)
  IN IF f.r \notin {NULL, Crash} THEN Found(IF True(f.r) THEN d ELSE NULL, f.st)
     ELSE Found(Crash, f.st)

FilterResult(l, d, s) ==
  LET f == ResetChain(l.sub[1], d, s)
  IN IF f.r \notin {NULL, Crash} THEN Found(IF True(f.r) THEN d ELSE NULL, f.st) ELSE f

(* The arguments from k on are reset in turn; the function is applied to   *)
(* as many as it has parameters.                                           *)
ResetArgs(l, k, d, s) ==
  IF k > Len(l.sub)
  THEN Found(IF Len(l.sub) < l.id THEN Crash ELSE Append(d, 0), s)
  ELSE LET a == ResetChain(l.sub[k], d, s)
       IN IF a.r \in {NULL, Crash} THEN a ELSE ResetArgs(l, k + 1, d, a.st)

ResetLink(l, d, s) ==
  CASE l.kind = "member" -> Member(l, d, s)
    [] l.kind = "value" -> Found(Value(l, d), s)
    [] l.kind \in {"forward", "scalar"} -> ResetChain(l.sub[1], d, s)
    [] l.kind = "filter" -> FilterResult(l, d, s)
    [] l.kind = "function" -> ResetArgs(l, 1, d, s)

YieldLink(l, s) ==
  CASE l.kind = "member" ->
         LET t == IF Elem(l, s) \in {NULL, Crash} THEN s ELSE [s EXCEPT ![l.n].at = @ + 1]
         IN Found(Elem(l, t), t)
    [] l.kind = "forward" -> GetChain(l.sub[1], s)
    [] Scalar(l) -> Nothing(s)

Descend(c, k, d, s) ==
  LET x == ResetLink(c[k], d, s)
  IN IF x.r = NULL THEN Climb(c, k, x.st)
     ELSE IF x.r = Crash \/ k = Len(c) THEN x ELSE Descend(c, k + 1, x.r, x.st)

Climb(c, k, s) ==
  IF k = 1 THEN Nothing(s)
  ELSE LET x == YieldLink(c[k - 1], s)
       IN IF x.r = NULL THEN Climb(c, k - 1, x.st)
          ELSE IF x.r = Crash THEN x ELSE Descend(c, k, x.r, x.st)

Back(c, k, s) ==
  LET x == YieldLink(c[k], s)
  IN IF x.r = Crash THEN x
     ELSE IF x.r # NULL THEN Down(c, k, x.r, x.st)
     ELSE IF k = 1 THEN x ELSE Back(c, k - 1, x.st)

Down(c, k, d, s) ==
  IF k = Len(c) THEN Found(d, s)
  ELSE LET x == ResetLink(c[k + 1], d, s)
       IN IF x.r = NULL THEN Back(c, k + 1, x.st)
          ELSE IF x.r = Crash THEN x ELSE Down(c, k + 1, x.r, x.st)
-----------------------------------------------------------------------------
(* The numbers of the links below a chain. *)
RECURSIVE Links(_)
Links(c) == UNION {{c[k].n} \cup UNION {Links(c[k].sub[j]) : j \in DOMAIN c[k].sub} :
                     k \in DOMAIN c}

Shares(w, v) == Links(program[w]) \cap Links(program[v]) # {}

Meddle(w) == [v \in Client |-> IF v = w THEN FALSE ELSE mixed[v] \/ Shares(w, v)]

Init ==
  /\ program \in Programs
  /\ size \in [Attributes -> [Events \cup 1..Fan -> 0..Fan]]
  /\ st = [n \in UNION {Links(program[w]) : w \in Client} |-> [own |-> NULL, at |-> 0]]
  /\ got = [w \in Client |-> <<>>]
  /\ event = [w \in Client |-> NULL]
  /\ over = [w \in Client |-> FALSE]
  /\ mixed = [w \in Client |-> FALSE]
  /\ crashed = FALSE

Take(w, x, before) ==
  /\ st' = x.st
  /\ crashed' = (x.r = Crash)
  /\ got' = [got EXCEPT ![w] = IF x.r \in {NULL, Crash} \/ mixed'[w] THEN before
                               ELSE Append(before, x.r)]
  /\ over' = [over EXCEPT ![w] = x.r = NULL]

(* A client resets a query at any time, and asks for more after a reset    *)
(* that found something.                                                   *)
Reset(w, e) ==
  /\ ~crashed
  /\ mixed' = Meddle(w)
  /\ Take(w, ResetChain(program[w], <<e>>, st), <<>>)
  /\ event' = [event EXCEPT ![w] = e]
  /\ UNCHANGED <<program, size>>

Get(w) ==
  /\ ~crashed /\ got[w] # <<>> /\ ~over[w]
  /\ mixed' = [Meddle(w) EXCEPT ![w] = mixed[w]]
  /\ Take(w, GetChain(program[w], st), got[w])
  /\ UNCHANGED <<program, size, event>>

Next == \E w \in Client : Get(w) \/ \E e \in Events : Reset(w, e)

Spec == Init /\ [][Next]_vars
-----------------------------------------------------------------------------
(* What a chain is to result in, from the data alone.                      *)
FirstOnly(all) == IF all = <<>> THEN <<>> ELSE <<Head(all)>>

RECURSIVE Results(_, _), ResultsOf(_, _)
ResultsOf(l, d) ==
  CASE l.kind = "member" -> [k \in 1..size[l.id][Last(d)] |-> Append(d, k)]
    [] l.kind = "value" -> IF Value(l, d) = NULL THEN <<>> ELSE <<Value(l, d)>>
    [] l.kind = "forward" -> Results(l.sub[1], d)
    [] l.kind = "scalar" -> FirstOnly(Results(l.sub[1], d))
    [] l.kind = "filter" ->
         LET f == Results(l.sub[1], d) IN IF f # <<>> /\ True(f[1]) THEN <<d>> ELSE <<>>
    [] l.kind = "function" ->
         IF \A j \in DOMAIN l.sub : Results(l.sub[j], d) # <<>> THEN <<Append(d, 0)>> ELSE <<>>

Results(c, d) ==
  IF c = <<>> THEN <<d>>
  ELSE LET first == ResultsOf(Head(c), d)
       IN FlattenSeq([k \in DOMAIN first |-> Results(Tail(c), first[k])])

(* A query delivers the results of its event, each once and in order, and  *)
(* then NULL, whatever queries are inside it and however far they were     *)
(* iterated before, provided that no query that shares a forwarding        *)
(* attribute with it was used in between (ifaces/fwd-query-*.c).           *)
Delivers ==
  \A w \in Client :
    event[w] # NULL /\ ~mixed[w] /\ ~crashed =>
      LET all == Results(program[w], <<event[w]>>)
      IN IF over[w] THEN got[w] = all ELSE IsPrefix(got[w], all)

(* No iterator is asked for more before it was made, even if shared, and a *)
(* function is the only thing that can go wrong: one that was given too    *)
(* few arguments is accepted, and applied to them (helpers/functions.hh).  *)
StopsForArguments ==
  crashed => \E w \in Client : \E k \in DOMAIN program[w] :
    /\ program[w][k].kind = "function"
    /\ Len(program[w][k].sub) < program[w][k].id
=============================================================================
