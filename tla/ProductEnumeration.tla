------------------------- MODULE ProductEnumeration -------------------------
(***************************************************************************)
(* What a collection of bound compounds, {a := *.x, b := *.y : filter},    *)
(* promises the query chain it is a link of: reset on an owner, it goes    *)
(* through the Cartesian product of the results of the bound queries on    *)
(* that owner, the last query varying fastest, and delivers the            *)
(* combinations that pass the filter, each once; then nothing.             *)
(***************************************************************************)
EXTENDS Naturals

CONSTANTS M,        \* number of bound queries
          MaxFan,   \* bound on the results of one bound query
          Owners,   \* the data the virtual compound is applied to
          NULL

Wheel == 1..M

Combos == [Wheel -> 1..MaxFan]

VARIABLES size,     \* size[d][i]: number of results of query i on owner d
          verdict,  \* verdict[d][c]: what the filter says of combination c
          rest,     \* the combinations not delivered yet
          busy,     \* a call is being executed
          out       \* the result of the last finished call

vars == <<size, verdict, rest, busy, out>>

(* The combinations a collection reset on d has to deliver. *)
Wanted(d) == {c \in Combos : /\ \A i \in Wheel : c[i] <= size[d][i]
                             /\ verdict[d][c] = "pass"}

(* c comes before e, the last wheel turning fastest. *)
Before(c, e) == \E i \in Wheel : /\ c[i] < e[i]
                                 /\ \A j \in 1..(i - 1) : c[j] = e[j]

IsFirst(c, S) == c \in S /\ \A e \in S \ {c} : Before(c, e)

Init == rest = {} /\ busy = FALSE /\ out = NULL

Begin(d) == /\ ~busy
            /\ busy' = TRUE
            /\ rest' = Wanted(d)
            /\ out' = NULL

More == /\ ~busy
        /\ busy' = TRUE
        /\ out' = NULL
        /\ UNCHANGED rest

AnswerCombo == /\ busy
               /\ busy' = FALSE
               /\ IsFirst(out', rest)
               /\ rest' = rest \ {out'}

AnswerNothing == /\ busy
                 /\ busy' = FALSE
                 /\ rest = {}
                 /\ out' = NULL
                 /\ UNCHANGED rest

Next == /\ \/ \E d \in Owners : Begin(d)
           \/ More
           \/ AnswerCombo
           \/ AnswerNothing
        /\ UNCHANGED <<size, verdict>>

SafeSpec == Init /\ [][Next]_vars
==============================================================================
