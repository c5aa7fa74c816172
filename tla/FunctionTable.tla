--------------------------- MODULE FunctionTable ---------------------------
(***************************************************************************)
(* The dictionaries of functions (src/function.cc) of a context and its    *)
(* descendants: dictionary 1 is the root's, t + 1 that of a descendant of  *)
(* the owner of t.  A name has any number of constructors, each of which   *)
(* accepts the arguments of some sorts and denies the others; a call of    *)
(* hdql_functions_resolve tries them in turn.                              *)
(***************************************************************************)
EXTENDS Integers, FiniteSets

CONSTANTS Depth,        \* bound on the chain of contexts
          Names,        \* names of functions
          Sorts,        \* what a list of arguments can be
          Constructors, \* a constructor is the set of the sorts it accepts
          MaxFrames,    \* bound on the nested calls
          NULL

VARIABLES
  made,   \* number of contexts alive; descendants go first
  defs,   \* defs[t][n]: the constructors defined for n
  call,   \* the call at work, or NULL
  result  \* what the last call returned, or NULL

vars == <<made, defs, call, result>>

Table == 1..Depth
Call == [asked : Table, at : Table, name : Names, sort : Sorts,
         tried : SUBSET Constructors, frames : 1..MaxFrames]
Outcome == [rc : {"ok", "unknown", "cannot"}, by : Constructors \cup {NULL}]

TypeOK ==
  /\ made \in Table
  /\ defs \in [Table -> [Names -> SUBSET Constructors]]
  /\ call \in Call \cup {NULL}
  /\ result \in Outcome \cup {NULL}

Undefined == [n \in Names |-> {}]

Init ==
  /\ made = 1
  /\ defs = [t \in Table |-> Undefined]
  /\ call = NULL
  /\ result = NULL
-----------------------------------------------------------------------------
CreateDescendant ==
  /\ call = NULL /\ made < Depth
  /\ made' = made + 1
  /\ UNCHANGED <<defs, call, result>>

Destroy ==
  /\ call = NULL /\ made > 1
  /\ made' = made - 1
  /\ defs' = [defs EXCEPT ![made] = Undefined]
  /\ result' = NULL
  /\ UNCHANGED call

(* hdql_functions_define never refuses a name: definitions add up. *)
Define(t, n, c) ==
  /\ call = NULL
  /\ defs' = [defs EXCEPT ![t][n] = @ \cup {c}]
  /\ result' = NULL
  /\ UNCHANGED <<made, call>>
-----------------------------------------------------------------------------
(* hdql_functions_resolve. *)
CallResolve(t, n, s) ==
  /\ call = NULL
  /\ call' = [asked |-> t, at |-> t, name |-> n, sort |-> s, tried |-> {}, frames |-> 1]
  /\ result' = NULL
  /\ UNCHANGED <<made, defs>>

Candidates == defs[call.at][call.name]

Return(rc, by) ==
  /\ call' = NULL
  /\ result' = [rc |-> rc, by |-> by]
  /\ UNCHANGED <<made, defs>>

(* The name is not in the dictionary, which has no parent. *)
Unknown == call # NULL /\ Candidates = {} /\ call.at = 1 /\ Return("unknown", NULL)

(* The name is not in the dictionary, which has a parent: the nested call  *)
(* is for the same dictionary.  Frames beyond the bound are not counted.   *)
AskParent ==
  /\ call # NULL /\ Candidates = {} /\ call.at > 1
  /\ call.frames < MaxFrames
  /\ call' = [call EXCEPT !.frames = @ + 1]
  /\ UNCHANGED <<made, defs, result>>

(* Mutant: the first constructor that denies ends the search. *)
DenyEnds(c) ==
  /\ call # NULL /\ c \in Candidates \ call.tried /\ call.sort \notin c
  /\ Return("cannot", NULL)

(* A constructor is tried; they come in an unspecified order. *)
Deny(c) ==
  /\ call # NULL /\ c \in Candidates \ call.tried /\ call.sort \notin c
  /\ call' = [call EXCEPT !.tried = @ \cup {c}]
  /\ UNCHANGED <<made, defs, result>>

Accept(c) ==
  /\ call # NULL /\ c \in Candidates \ call.tried /\ call.sort \in c
  /\ Return("ok", c)

(* Mutant: the end of the candidates is missed. *)
CannotWaits == call # NULL /\ Candidates # {} /\ call.tried = {} /\ Candidates = call.tried /\ Return("cannot", NULL)

(* All constructors denied. *)
Cannot == call # NULL /\ Candidates # {} /\ Candidates = call.tried /\ Return("cannot", NULL)
-----------------------------------------------------------------------------
Step == \/ Unknown \/ AskParent \/ Cannot
        \/ \E c \in Constructors : Deny(c) \/ Accept(c)

Operation(t) == \E n \in Names : \/ \E c \in Constructors : Define(t, n, c)
                                 \/ \E s \in Sorts : CallResolve(t, n, s)

Next == CreateDescendant \/ Destroy \/ Step \/ \E t \in 1..made : Operation(t)

(* A call runs to its end: no step of it waits for anything. *)
Spec == Init /\ [][Next]_vars /\ WF_vars(Step)
-----------------------------------------------------------------------------
(***************************************************************************)
(* Properties.                                                             *)
(***************************************************************************)

(* A call for a name that the dictionary knows returns an attribute        *)
(* exactly when one of the overloads of the name accepts the arguments,    *)
(* whatever order they are tried in: no overload hides another.            *)
Overloads ==
  [][(call # NULL /\ result' # NULL /\ Candidates # {}) =>
       /\ (result'.rc = "ok") <=> (\E c \in Candidates : call.sort \in c)
       /\ result'.rc = "ok" => call.sort \in result'.by /\ result'.by \in Candidates]_vars

(* A call for a name that the dictionary knows returns, however many       *)
(* overloads deny; so does every call of the root.                         *)
KnownReturns == (call # NULL /\ (Candidates # {} \/ call.at = 1)) ~> (call = NULL)
==============================================================================
