----------------------------- MODULE QueryCursor -----------------------------
(***************************************************************************)
(* The C++ wrapper of a compiled query and its cursors, helpers/query.hh   *)
(* and helpers/query.cc: a Query owns a context, the C query, its keys and *)
(* the buffers of the conversions of its results; a cursor locks the query *)
(* it is bound to.  The C query is abstracted to what it promises: reset   *)
(* gives the first result of an object or NULL, get the next one or NULL,  *)
(* and either may push an error to the context instead.  A call that throws*)
(* is a step that leaves what the throwing code leaves.                    *)
(***************************************************************************)
EXTENDS Integers, FiniteSets

CONSTANTS
  Queries,      \* the Query objects
  Cursors,      \* the cursor objects, each made once
  Objects,      \* what a query may be reset with
  Rooted,       \* those whose C++ type is the compound the queries start from
  Count,        \* Count[o]: the number of results for o
  Types,        \* the C++ types a result may be asked for as
  Compounds,    \* those that are compounds
  Virtual,      \* the compounds that are virtual
  Known,        \* those the compound dictionary or the type table knows
  Conversions,  \* <<dest, src>>: the conversions the context knows
  ResultType,   \* ResultType[q]
  None

ASSUME RootedAssumption == Rooted \subseteq Objects
ASSUME CountAssumption == Count \in [Rooted -> Nat]
ASSUME TypesAssumption == /\ Compounds \subseteq Types
                          /\ Types \cap {"fresh", "generic", "gone"} = {}
                          /\ Virtual \subseteq Compounds
                          /\ Known \subseteq Types
                          /\ ResultType \in [Queries -> Known]

ASSUME NoneAssumption == None \notin Queries \cup Cursors

VARIABLES
  state,    \* state[q]: "fresh", "open", "thrown" (by the constructor) or "closed"
  held,     \* held[q]: what is allocated for q, apart from the buffers
  lock,     \* _cCursor: the cursor q is locked by
  isSet,    \* _isSet
  r,        \* _r: None or <<o, k>>, the k-th result for o
  errors,   \* the context of q has an error pushed to it
  convs,    \* _resultConversionsCache: a set of [type, buffer]
  kind,     \* kind[c]: "fresh", "generic", a type, or "gone"
  bound,    \* _qPtr
  conv,     \* _converter: None, or [query, type, buffer]
  stopped   \* undefined behaviour ended the program

query == <<state, held, isSet, r, errors, convs>>
cursor == <<kind, conv>>
cursorVars == <<query, cursor, lock, bound, stopped>>

Result == {<<o, k>> : o \in Rooted, k \in Nat \ {0}}
-----------------------------------------------------------------------------
(* What the C query answers: a result, or None with or without an error.   *)
Answers(res) == {[r |-> res, error |-> FALSE], [r |-> None, error |-> TRUE]}

First(o) == IF Count[o] > 0 THEN <<o, 1>> ELSE None
Following(q) == IF r[q] = None THEN None
                ELSE LET o == r[q][1] k == r[q][2]
                     IN IF k < Count[o] THEN <<o, k + 1>> ELSE None

(* hdql_query_reset() in _reset_subject_instance(): an error that was ever *)
(* pushed makes it throw, after the result was replaced and before _isSet. *)
ResetSubject(q, o) ==
  \E a \in Answers(First(o)) :
    /\ r' = [r EXCEPT ![q] = a.r]
    /\ errors' = [errors EXCEPT ![q] = @ \/ a.error]
    /\ isSet' = [isSet EXCEPT ![q] = @ \/ ~errors'[q]]

(* Query::_is_available *)
Available(q) == isSet[q] /\ r[q] # None
-----------------------------------------------------------------------------
(* _get_converter_to(): what is cached under the type, even when there is  *)
(* no need to convert; nothing for an atomic result of that very type; or  *)
(* a new entry.  It throws without a conversion, or without memory for its *)
(* buffer; for a compound result it reads past the end of a dictionary     *)
(* that does not know the type.                                            *)
Entry(q, t, b) == [query |-> q, type |-> t, buffer |-> b]

Cached(q, t) == {e \in convs[q] : e.type = t}

MatchingCompound(q, t) ==
  /\ ResultType[q] \in Compounds
  /\ t = ResultType[q]
  /\ t \notin Virtual

Converts(q, t) ==
  /\ ResultType[q] \notin Compounds
  /\ t \in Known
  /\ t # ResultType[q]
  /\ <<t, ResultType[q]>> \in Conversions

Converter(q, t) ==
  IF Cached(q, t) # {} THEN Cached(q, t)
  ELSE IF MatchingCompound(q, t) THEN {Entry(q, t, FALSE)}
  ELSE IF Converts(q, t) THEN {Entry(q, t, TRUE)}
  ELSE IF ResultType[q] \notin Compounds /\ t = ResultType[q] THEN {None}
  ELSE {}

ReadsPastEnd(q, t) == ResultType[q] \in Compounds /\ t \notin Known \cap Compounds

Remember(q, e) == convs' = [convs EXCEPT ![q] = @ \cup ({e} \ {None})]
-----------------------------------------------------------------------------
(* The constructor: it throws when the expression does not compile, when   *)
(* the query has no result type, or when the keys cannot be reserved; the  *)
(* destructor does not run then.                                           *)
Open(q) ==
  /\ state[q] = "fresh"
  /\ \/ /\ state' = [state EXCEPT ![q] = "thrown"]
        /\ \E h \in {{"context"}, {"context", "query"}, {"context", "query", "keys"}} :
             held' = [held EXCEPT ![q] = h]
     \/ /\ state' = [state EXCEPT ![q] = "open"]
        /\ \E h \in {{"context", "query"},                 \* keysNeeded unset
                     {"context", "query", "keys"},         \* no key has a type
                     {"context", "query", "keys", "view"}} :
             held' = [held EXCEPT ![q] = h]
  /\ UNCHANGED <<lock, isSet, r, errors, convs, cursor, bound, stopped>>

(* The destructor; a client destroys a query after the cursors bound to it. *)
(* Mutant: the buffers of conversions are forgotten. *)
CloseKeepingBuffers(q) ==
  /\ state[q] = "open" /\ lock[q] = None
  /\ state' = [state EXCEPT ![q] = "closed"]
  /\ held' = [held EXCEPT ![q] = {}]
  /\ UNCHANGED <<lock, isSet, r, errors, convs, cursor, bound, stopped>>

Close(q) ==
  /\ state[q] = "open" /\ lock[q] = None
  /\ state' = [state EXCEPT ![q] = "closed"]
  /\ held' = [held EXCEPT ![q] = {}]
  /\ convs' = [convs EXCEPT ![q] = {}]
  /\ UNCHANGED <<lock, isSet, r, errors, cursor, bound, stopped>>
-----------------------------------------------------------------------------
(* generic_cursor_on(): the cursor binds, unless the query is locked, then *)
(* resets the query; where that throws the cursor unbinds as it is undone. *)
(* Mutant: the cursor takes the lock from whoever has it. *)
GenericTakingLock(q, c, o) ==
  /\ state[q] = "open" /\ kind[c] = "fresh"
  /\ \/ /\ o \notin Rooted
        /\ kind' = [kind EXCEPT ![c] = "gone"]
        /\ UNCHANGED <<r, errors, isSet, lock, bound>>
     \/ /\ o \in Rooted
        /\ ResetSubject(q, o)
        /\ IF errors'[q] THEN kind' = [kind EXCEPT ![c] = "gone"] /\ UNCHANGED <<lock, bound>>
           ELSE /\ kind' = [kind EXCEPT ![c] = "generic"]
                /\ lock' = [lock EXCEPT ![q] = c]
                /\ bound' = [bound EXCEPT ![c] = q]
  /\ UNCHANGED <<state, held, convs, conv, stopped>>

GenericOn(q, c, o) ==
  /\ state[q] = "open" /\ kind[c] = "fresh"
  /\ \/ /\ lock[q] # None \/ o \notin Rooted
        /\ kind' = [kind EXCEPT ![c] = "gone"]
        /\ UNCHANGED <<r, errors, isSet, lock, bound>>
     \/ /\ lock[q] = None /\ o \in Rooted
        /\ ResetSubject(q, o)
        /\ IF errors'[q] THEN kind' = [kind EXCEPT ![c] = "gone"] /\ UNCHANGED <<lock, bound>>
           ELSE /\ kind' = [kind EXCEPT ![c] = "generic"]
                /\ lock' = [lock EXCEPT ![q] = c]
                /\ bound' = [bound EXCEPT ![c] = q]
  /\ UNCHANGED <<state, held, convs, conv, stopped>>

(* cursor_on<T>(): first the conversion, which stays in the cache even if  *)
(* the cursor cannot be bound or the query cannot be reset.                *)
TypedOn(q, c, t, o) ==
  /\ state[q] = "open" /\ kind[c] = "fresh"
  /\ \E e \in Converter(q, t) :
       /\ Remember(q, e)
       /\ conv' = [conv EXCEPT ![c] = e]
       /\ \/ /\ lock[q] # None \/ o \notin Rooted
             /\ kind' = [kind EXCEPT ![c] = "gone"]
             /\ UNCHANGED <<r, errors, isSet, lock, bound>>
          \/ /\ lock[q] = None /\ o \in Rooted
             /\ ResetSubject(q, o)
             /\ IF errors'[q]
                THEN kind' = [kind EXCEPT ![c] = "gone"] /\ UNCHANGED <<lock, bound>>
                ELSE /\ kind' = [kind EXCEPT ![c] = t]
                     /\ lock' = [lock EXCEPT ![q] = c]
                     /\ bound' = [bound EXCEPT ![c] = q]
  /\ UNCHANGED <<state, held, stopped>>

(* cursor<T>(): bound as well, but the query is left as it is. *)
Typed(q, c, t) ==
  /\ state[q] = "open" /\ kind[c] = "fresh"
  /\ \E e \in Converter(q, t) :
       /\ Remember(q, e)
       /\ conv' = [conv EXCEPT ![c] = e]
       /\ IF lock[q] # None THEN kind' = [kind EXCEPT ![c] = "gone"] /\ UNCHANGED <<lock, bound>>
          ELSE /\ kind' = [kind EXCEPT ![c] = t]
               /\ lock' = [lock EXCEPT ![q] = c]
               /\ bound' = [bound EXCEPT ![c] = q]
  /\ UNCHANGED <<state, held, isSet, r, errors, stopped>>

(* Either, for a type there is no conversion to: they throw, or worse. *)
NoConverter(q, c, t) ==
  /\ state[q] = "open" /\ kind[c] = "fresh" /\ Cached(q, t) = {}
  /\ \/ Converter(q, t) = {}
     \/ Converts(q, t)                    \* no memory for the buffer
  /\ kind' = [kind EXCEPT ![c] = "gone"]
  /\ stopped' = ReadsPastEnd(q, t)
  /\ UNCHANGED <<query, conv, lock, bound>>
-----------------------------------------------------------------------------
InUse(c) == kind[c] \notin {"fresh", "gone"}

(* BaseQueryCursor::reset() on the query the cursor is bound to. *)
Reset(c, o) ==
  /\ kind[c] \in Types /\ bound[c] # None
  /\ IF o \in Rooted THEN ResetSubject(bound[c], o) ELSE UNCHANGED <<r, errors, isSet>>
  /\ UNCHANGED <<state, held, convs, cursor, lock, bound, stopped>>

(* operator++: it throws on a query that never was reset. *)
Advance(c) ==
  /\ InUse(c) /\ bound[c] # None
  /\ LET q == bound[c]
     IN IF ~isSet[q] THEN UNCHANGED <<r, errors>>
        ELSE \E a \in Answers(Following(q)) :
               /\ r' = [r EXCEPT ![q] = a.r]
               /\ errors' = [errors EXCEPT ![q] = @ \/ a.error]
  /\ UNCHANGED <<state, held, isSet, convs, cursor, lock, bound, stopped>>

(* get(), on an available result: typed cursors keep their converter, the  *)
(* generic ones look it up for every get<T>().                             *)
Get(c, t) ==
  /\ InUse(c) /\ bound[c] # None /\ Available(bound[c])
  /\ \/ /\ kind[c] = t
        /\ stopped' = (conv[c] # None /\ ~conv[c].buffer)
        /\ UNCHANGED convs
     \/ /\ kind[c] = "generic"
        /\ \E e \in Converter(bound[c], t) :
             /\ Remember(bound[c], e)
             /\ stopped' = (e # None /\ ~e.buffer)
     \/ /\ kind[c] = "generic" /\ Converter(bound[c], t) = {}
        /\ stopped' = ReadsPastEnd(bound[c], t)
        /\ UNCHANGED convs
  /\ UNCHANGED <<state, held, isSet, r, errors, cursor, lock, bound>>

(* bind() and unbind() of a typed cursor: it keeps its converter, though   *)
(* that may be of another query.                                           *)
Bind(c, q) ==
  /\ kind[c] \in Types /\ bound[c] = None /\ state[q] = "open" /\ lock[q] = None
  /\ lock' = [lock EXCEPT ![q] = c]
  /\ bound' = [bound EXCEPT ![c] = q]
  /\ UNCHANGED <<query, cursor, stopped>>

Unbind(c) ==
  /\ kind[c] \in Types /\ bound[c] # None
  /\ lock' = [lock EXCEPT ![bound[c]] = None]
  /\ bound' = [bound EXCEPT ![c] = None]
  /\ UNCHANGED <<query, cursor, stopped>>

(* The destructors unbind a bound cursor. *)
Drop(c) ==
  /\ InUse(c)
  /\ kind' = [kind EXCEPT ![c] = "gone"]
  /\ lock' = IF bound[c] = None THEN lock ELSE [lock EXCEPT ![bound[c]] = None]
  /\ bound' = [bound EXCEPT ![c] = None]
  /\ UNCHANGED <<query, conv, stopped>>
-----------------------------------------------------------------------------
CursorInit ==
  /\ state = [q \in Queries |-> "fresh"]
  /\ held = [q \in Queries |-> {}]
  /\ lock = [q \in Queries |-> None]
  /\ isSet = [q \in Queries |-> FALSE]
  /\ r = [q \in Queries |-> None]
  /\ errors = [q \in Queries |-> FALSE]
  /\ convs = [q \in Queries |-> {}]
  /\ kind = [c \in Cursors |-> "fresh"]
  /\ bound = [c \in Cursors |-> None]
  /\ conv = [c \in Cursors |-> None]
  /\ stopped = FALSE

CursorNext ==
  /\ ~stopped
  /\ \/ \E q \in Queries : Open(q) \/ Close(q)
     \/ \E c \in Cursors : Advance(c) \/ Unbind(c) \/ Drop(c)
     \/ \E c \in Cursors, q \in Queries : Bind(c, q)
     \/ \E c \in Cursors, o \in Objects : Reset(c, o)
     \/ \E c \in Cursors, t \in Types : Get(c, t)
     \/ \E q \in Queries, c \in Cursors :
          \/ \E o \in Objects : GenericOn(q, c, o)
          \/ \E t \in Types : Typed(q, c, t) \/ NoConverter(q, c, t)
          \/ \E t \in Types, o \in Objects : TypedOn(q, c, t, o)

CursorSpec == CursorInit /\ [][CursorNext]_cursorVars
-----------------------------------------------------------------------------
(* A query is locked by exactly the cursor that is bound to it, so that at *)
(* most one cursor moves it, whichever constructor threw, and no query is  *)
(* destroyed under a cursor (query.cc, _lock_by and _unlock).              *)
OneCursor ==
  /\ \A q \in Queries : lock[q] # None => bound[lock[q]] = q /\ InUse(lock[q])
  /\ \A c \in Cursors : bound[c] # None => lock[bound[c]] = c /\ state[bound[c]] = "open"

(* A query that was opened and destroyed holds nothing, the buffers that   *)
(* cursors had it allocate included, and only open queries have buffers    *)
(* (query.cc, ~Query).                                                     *)
NothingLeft ==
  /\ \A q \in Queries : state[q] = "closed" => held[q] = {}
  /\ \A q \in Queries : convs[q] # {} => state[q] = "open"
=============================================================================
