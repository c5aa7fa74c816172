------------------------------- MODULE Context -------------------------------
(***************************************************************************)
(* A chain of contexts (src/context.cc): the root, a descendant of it, a   *)
(* descendant of that, and so on.  Each has a table of types, of           *)
(* converters, of functions and of constants, created with the context as  *)
(* descendants of the tables of its parent and destroyed with it.  The     *)
(* operations of a registry touch its own tables only.                     *)
(***************************************************************************)
EXTENDS Integers

CONSTANTS Depth,          \* bound on the chain of contexts
          TypeNames, MaxTypes, Promotions,
          Keys, Funcs, Increment,
          FunctionNames, Sorts, Constructors, MaxFrames,
          ConstantNames, Values, Bits,
          NULL

ASSUME DepthAssumption == Depth \in Nat \ {0}
ASSUME TypesAssumption ==
  /\ MaxTypes \in Nat
  /\ Promotions \subseteq TypeNames \X TypeNames \X TypeNames
ASSUME ConvertersAssumption == Keys \subseteq Int /\ Increment \in Nat \ {0, 1}
ASSUME FunctionsAssumption ==
  Constructors \subseteq SUBSET Sorts /\ MaxFrames \in Nat \ {0}
ASSUME ConstantsAssumption ==
  /\ Values \subseteq Nat
  /\ Bits \in [Values -> Nat]
  /\ \A v, w \in Values : Bits[v] = Bits[w] => v = w

VARIABLES
  made,                                          \* the number of contexts alive
  codeByName, items, valid, cache,               \* types
  records, sorted, available, lastConversion,    \* converters
  defs, call, result,                            \* functions
  values, lastConstant                           \* constants

typeVars == <<codeByName, items, valid, cache>>
converterVars == <<records, sorted, available, lastConversion>>
functionVars == <<defs, call, result>>
constantVars == <<values, lastConstant>>
vars == <<made, typeVars, converterVars, functionVars, constantVars>>

Types == INSTANCE TypeTable WITH Names <- TypeNames
Converters == INSTANCE ConverterTable WITH last <- lastConversion
Functions == INSTANCE FunctionTable WITH Names <- FunctionNames
Constants == INSTANCE ConstantTable WITH Names <- ConstantNames, last <- lastConstant

ASSUME NullAssumption ==
  NULL \notin TypeNames \cup Functions!Call \cup Functions!Outcome \cup Constants!Item

TypeOK == Types!TypeOK /\ Converters!TypeOK /\ Functions!TypeOK /\ Constants!TypeOK

Init == Types!Init /\ Converters!Init /\ Functions!Init /\ Constants!Init
-----------------------------------------------------------------------------
CreateDescendant ==
  /\ Types!CreateDescendant /\ Converters!CreateDescendant
  /\ Functions!CreateDescendant /\ Constants!CreateDescendant

(* Descendants are destroyed before their parents. *)
Destroy == Types!Destroy /\ Converters!Destroy /\ Functions!Destroy /\ Constants!Destroy

(* A running call of hdql_functions_resolve goes on before anything else   *)
(* happens: the library is sequential.                                     *)
OfTypes(t) ==
  /\ call = NULL /\ Types!Operation(t)
  /\ UNCHANGED <<converterVars, functionVars, constantVars>>
OfConverters(t) ==
  /\ call = NULL /\ Converters!Operation(t)
  /\ UNCHANGED <<typeVars, functionVars, constantVars>>
OfConstants(t) ==
  /\ call = NULL /\ Constants!Operation(t)
  /\ UNCHANGED <<typeVars, converterVars, functionVars>>
OfFunctions(t) ==
  /\ Functions!Operation(t)
  /\ UNCHANGED <<typeVars, converterVars, constantVars>>

ResolveStep == Functions!Step /\ UNCHANGED <<typeVars, converterVars, constantVars>>

Next ==
  \/ CreateDescendant \/ Destroy \/ ResolveStep
  \/ \E t \in 1..made : OfTypes(t) \/ OfConverters(t) \/ OfFunctions(t) \/ OfConstants(t)

(* A call runs to its end: no step of it waits for anything. *)
Spec == Init /\ [][Next]_vars /\ WF_vars(ResolveStep)
-----------------------------------------------------------------------------
(***************************************************************************)
(* Properties.                                                             *)
(***************************************************************************)

(* A name that a table of types knows leads to a type, and a valid cache   *)
(* of promotions gives no other type than the one in force (value.cc); the *)
(* records of converters are in order when they are marked so, as the      *)
(* binary search of converters.c relies on, and have room for one more.    *)
TablesInOrder == Types!NamesHaveTypes /\ Types!CacheOnlyLacks /\ Converters!ArraysSound

(* A converter that was added is found at once, and a constant whose       *)
(* definition was accepted has the value that was given.                   *)
DefinedIsSeen == Converters!AddedIsFound /\ Constants!AcceptedIsSeen

(* What a name means in a table of types or of constants changes only when *)
(* a nearer table defines the name.                                        *)
MeaningsStay == Types!MeaningsStay /\ Constants!MeaningStays

(* A converter that is found stays found until it is hidden.               *)
FoundStays == Converters!FoundStays

(* A call of a function is resolved when and only when a constructor of    *)
(* that name accepts the arguments (function.cc).                          *)
Overloads == Functions!Overloads

(* The resolution of a name the dictionary knows returns.                  *)
KnownReturns == Functions!KnownReturns
==============================================================================
