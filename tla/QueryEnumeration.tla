-------------------------- MODULE QueryEnumeration --------------------------
(***************************************************************************)
(* What hdql_query_reset and hdql_query_get promise their caller together: *)
(* applied to an event, the query delivers every complete path through the *)
(* data of that event exactly once, in depth-first order, and then NULL,   *)
(* however often it is asked again.                                        *)
(***************************************************************************)
EXTENDS Paths

CONSTANT NULL

VARIABLES data,   \* number of elements found on each datum; never changes
          rest,   \* the paths of the current event not delivered yet
          busy,   \* a call is being executed
          out     \* the result of the last finished call

vars == <<data, rest, busy, out>>

Init == /\ data \in [Inner -> 0..MaxFan]
        /\ rest = {}
        /\ busy = FALSE
        /\ out = NULL

(* The client applies the query to event e. *)
Begin(e) == /\ ~busy
            /\ busy' = TRUE
            /\ rest' = Leaves(data, e)
            /\ out' = NULL
            /\ UNCHANGED data

(* The client asks for the next result. *)
More == /\ ~busy
        /\ busy' = TRUE
        /\ out' = NULL
        /\ UNCHANGED <<data, rest>>

IsFirst(p, S) == p \in S /\ \A q \in S \ {p} : Before(p, q)

AnswerPath == /\ busy
              /\ busy' = FALSE
              /\ \E p \in rest : /\ IsFirst(p, rest)
                                 /\ out' = p
                                 /\ rest' = rest \ {p}
              /\ UNCHANGED data

AnswerEmpty == /\ busy
               /\ busy' = FALSE
               /\ rest = {}
               /\ out' = NULL
               /\ UNCHANGED <<data, rest>>

Answer == AnswerPath \/ AnswerEmpty

Next == (\E e \in Events : Begin(e)) \/ More \/ Answer

SafeSpec == Init /\ [][Next]_vars

Spec == SafeSpec /\ WF_vars(Answer)
==============================================================================
