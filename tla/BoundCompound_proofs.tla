------------------------- MODULE BoundCompound_proofs -------------------------
(***************************************************************************)
(* Proof that the odometer of a collection of bound compounds never mixes  *)
(* the data of two owners and never asks a wheel that a failed reset has   *)
(* torn off, for any number of bound queries, results and owners.          *)
(*                                                                         *)
(* NoLeftover is not inductive.  That the wheels which a failed reset did  *)
(* not reach are over depends on what the chain has asked before: in       *)
(* hdql_query_get every reset comes after the wheels were turned to the    *)
(* end, while in hdql_query_reset wheels may be left anywhere, and nothing *)
(* is asked of them before a reset has found something.  The invariant     *)
(* says this of the place a call stands at and of the time between calls.  *)
(***************************************************************************)
EXTENDS BoundCompound, TLAPS

(* What is known of the values the odometer is made of.                    *)
WheelTypes ==
  /\ size \in [Owners -> [Wheel -> 0..MaxFan]]
  /\ owner \in Owners \cup {NULL}
  /\ given \in Owners \cup {NULL}
  /\ values \in [Wheel -> Nat]
  /\ at \in [Wheel -> Nat]
  /\ serves \in [Wheel -> Owners \cup {NULL}]
  /\ torn \in [Wheel -> BOOLEAN]
  /\ i \in Wheel

(* Wheel w is over, and no reset has torn it.                              *)
Spent(w) == /\ serves[w] # NULL
            /\ at[w] > size[serves[w]][w]
            /\ ~torn[w]

(* Wheel w stands on a result of owner d, and its value is that result.    *)
On(d, w) == /\ serves[w] = d
            /\ values[w] = at[w]
            /\ at[w] \in 1..size[d][w]
            /\ ~torn[w]

(* Wheel w may be asked for more: it serves the owner of the last reset,   *)
(* or has nothing more to give.                                            *)
Askable(w) == Spent(w) \/ (given # NULL /\ serves[w] = given /\ ~torn[w])

(* Every bound query has a result on the owner of the last reset.          *)
Productive == \A w \in Wheel : size[given][w] > 0

AllOn == /\ given # NULL
         /\ owner = given
         /\ \A w \in Wheel : On(given, w)

AtRest == pc = "idle" =>
  /\ out # NULL => AllOn
  /\ out = NULL => owner = NULL
  /\ out = NULL /\ served =>
       /\ \A w \in Wheel : Askable(w)
       /\ Spent(M)
       /\ op = "yield" => \A w \in Wheel : Spent(w)

InReset == pc = "productReset" /\ owner # NULL =>
  /\ owner = given
  /\ op = "yield" => Productive
  /\ \A w \in 1..(i - 1) : On(given, w)
  /\ served => \A w \in i..M : Spent(w)

InAdvance == pc = "advance" =>
  /\ \A w \in Wheel : Askable(w)
  /\ \A w \in (i + 1)..M : Spent(w)
  /\ owner # NULL => /\ owner = given
                     /\ Productive
                     /\ \A w \in 1..i : On(given, w)
  /\ owner = NULL => Spent(M)

InFilter == pc = "filter" => AllOn

(* Nothing is returned while a call runs.                                  *)
Quiet == pc # "idle" => out = NULL

IInv == WheelTypes /\ Quiet /\ AtRest /\ InReset /\ InAdvance /\ InFilter
-----------------------------------------------------------------------------
LEMMA Wheels == /\ 1 \in Wheel /\ M \in Wheel
                /\ \A w \in Wheel : w \in Nat /\ 1 <= w /\ w <= M
                /\ \A w \in Nat : 1 <= w /\ w <= M => w \in Wheel
BY MAssumption DEF Wheel

(* The invariant holds of the iterator that was just created.              *)
LEMMA InitIInv == Init => IInv
<1> SUFFICES ASSUME Init PROVE IInv
  OBVIOUS
<1>1. WheelTypes
  BY Wheels DEF WheelTypes, Init
<1>2. Quiet /\ AtRest /\ InReset /\ InAdvance /\ InFilter
  BY DEF Init, Quiet, AtRest, InReset, InAdvance, InFilter
<1> QED
  BY <1>1, <1>2 DEF IInv

(* A call of the chain.                                                    *)
LEMMA CallResetIInv ==
  ASSUME IInv, NEW d \in Owners, NEW anew \in BOOLEAN, CallReset(d, anew)
  PROVE  IInv'
<1>1. /\ pc = "idle" /\ pc' = "productReset" /\ i' = 1
      /\ op' = "reset" /\ out' = NULL
      /\ owner' = d /\ given' = d
      /\ served' = (served /\ ~anew)
      /\ UNCHANGED <<size, values, at, serves, torn>>
      /\ anew \/ (out = NULL /\ (served => op = "yield"))
  BY DEF CallReset, data, wheels
<1>2. WheelTypes'
  BY <1>1, Wheels DEF IInv, WheelTypes
<1>3. served' => \A w \in Wheel : Spent(w)
  BY <1>1 DEF IInv, AtRest
<1>4. \A w \in Wheel : Spent(w)' <=> Spent(w)
  BY <1>1 DEF Spent
<1>5. InReset'
  <2>1. \A w \in 1..M : w \in Wheel
    BY DEF Wheel
  <2>2. served' => \A w \in 1..M : Spent(w)'
    BY <1>3, <1>4, <2>1
  <2> QED
    BY <1>1, <2>2 DEF InReset
<1>6. Quiet' /\ AtRest' /\ InAdvance' /\ InFilter'
  BY <1>1 DEF Quiet, AtRest, InAdvance, InFilter
<1> QED
  BY <1>2, <1>5, <1>6 DEF IInv

LEMMA CallYieldIInv == IInv /\ CallYield => IInv'
<1> SUFFICES ASSUME IInv, CallYield PROVE IInv'
  OBVIOUS
<1>1. /\ pc = "idle" /\ pc' = "advance" /\ i' = M /\ out' = NULL
      /\ UNCHANGED <<size, values, at, serves, torn, owner, given>>
      /\ served \/ out # NULL
  BY DEF CallYield, data, wheels
<1>2. WheelTypes'
  BY <1>1, Wheels DEF IInv, WheelTypes
<1>3. /\ \A w \in Wheel : Askable(w)
      /\ owner # NULL => owner = given /\ Productive /\ \A w \in Wheel : On(given, w)
      /\ owner = NULL => Spent(M)
  <2>1. CASE out # NULL
    BY <1>1, <2>1 DEF IInv, AtRest, AllOn, Askable, On, Productive, WheelTypes
  <2>2. CASE out = NULL
    BY <1>1, <2>2 DEF IInv, AtRest
  <2> QED
    BY <2>1, <2>2
<1>4. InAdvance'
  <2>1. \A w \in Wheel : Askable(w)'
    BY <1>1, <1>3 DEF Askable, Spent
  <2>2. \A w \in (i' + 1)..M : FALSE
    BY <1>1, MAssumption
  <2>3. owner # NULL => owner = given /\ Productive' /\ \A w \in 1..M : On(given, w)'
    BY <1>1, <1>3, MAssumption DEF On, Wheel, Productive
  <2>4. owner = NULL => Spent(M)'
    BY <1>1, <1>3 DEF Spent
  <2> QED
    BY <1>1, <2>1, <2>2, <2>3, <2>4 DEF InAdvance
<1>5. Quiet' /\ AtRest' /\ InReset' /\ InFilter'
  BY <1>1 DEF Quiet, AtRest, InReset, InFilter
<1> QED
  BY <1>2, <1>4, <1>5 DEF IInv

(* The wheels other than the one at hand keep what is known of them.       *)
LEMMA ProductResetIInv == IInv /\ ProductReset => IInv'
<1> SUFFICES ASSUME IInv, ProductReset PROVE IInv'
  OBVIOUS
<1>1. CASE owner = NULL
  <2>1. /\ pc = "productReset" /\ pc' = "crashed"
        /\ UNCHANGED <<size, values, at, serves, torn, i, owner, given, out>>
    BY <1>1 DEF ProductReset, data, wheels
  <2>2. WheelTypes'
    BY <2>1 DEF IInv, WheelTypes
  <2> QED
    BY <1>1, <2>1, <2>2 DEF IInv, Quiet, AtRest, InReset, InAdvance, InFilter
<1>2. CASE owner # NULL
  <2>1. /\ pc = "productReset" /\ out = NULL /\ owner = given /\ given \in Owners /\ i \in Wheel
        /\ ResetWheel(i, given)
        /\ UNCHANGED <<size, op, given, served>>
    BY <1>2 DEF ProductReset, data, IInv, Quiet, InReset, WheelTypes
  <2>2. size[given][i] \in 0..MaxFan /\ (op = "yield" => Productive)
    BY <1>2, <2>1 DEF IInv, WheelTypes, InReset
  <2>3. /\ values' \in [Wheel -> Nat] /\ at' \in [Wheel -> Nat]
        /\ serves' \in [Wheel -> Owners \cup {NULL}]
        /\ torn' \in [Wheel -> BOOLEAN]
    BY <2>1 DEF ResetWheel, IInv, WheelTypes, Unfinished
  <2>4. /\ serves'[i] = given /\ at'[i] = 1
        /\ values'[i] = IF size[given][i] = 0 THEN 0 ELSE 1
        /\ torn'[i] => size[given][i] = 0 /\ (torn[i] \/ Unfinished(i))
    BY <2>1 DEF ResetWheel, IInv, WheelTypes
  <2>5. \A w \in Wheel : w # i => /\ On(given, w)' <=> On(given, w)
                                  /\ Spent(w)' <=> Spent(w)
    BY <2>1 DEF ResetWheel, IInv, WheelTypes, On, Spent
  <2>6. \A w \in 1..(i - 1) : w \in Wheel /\ w # i /\ On(given, w)'
    <3>1. \A w \in 1..(i - 1) : w \in Wheel /\ w # i
      BY <2>1, Wheels
    <3>2. \A w \in 1..(i - 1) : On(given, w)
      BY <1>2, <2>1 DEF IInv, InReset
    <3> TAKE w \in 1..(i - 1)
    <3>3. On(given, w)' <=> On(given, w)
      BY <2>5, <3>1
    <3> QED
      BY <3>1, <3>2, <3>3
  <2>7. served => \A w \in (i + 1)..M : w \in Wheel /\ w # i /\ Spent(w)'
    BY <1>2, <2>1, <2>5, Wheels DEF IInv, InReset, Wheel
  <2>8. CASE size[given][i] = 0
    <3>1. /\ pc' = "idle" /\ i' = 1 /\ owner' = NULL /\ UNCHANGED out
      BY <1>2, <2>1, <2>8 DEF ProductReset, ReturnEmpty
    <3>2. WheelTypes'
      BY <2>1, <2>3, <3>1, Wheels DEF IInv, WheelTypes
    <3>3. served => \A w \in {i} : Spent(w)'
      <4> SUFFICES ASSUME served PROVE \A w \in {i} : Spent(w)'
        OBVIOUS
      <4>1. Spent(i)
        BY <1>2, <2>1, Wheels DEF IInv, InReset
      <4>2. ~Unfinished(i)
        BY <2>1, <4>1 DEF Spent, Unfinished, IInv, WheelTypes
      <4> QED
        <5>1. ~torn[i] /\ ~torn'[i]
          BY <2>4, <4>1, <4>2 DEF Spent
        <5> QED
          BY <2>1, <2>4, <2>8, <5>1, NULLAssumption DEF Spent
    <3>4. served => \A w \in Wheel : Askable(w)'
      <4>1. \A w \in Wheel : w \in 1..(i - 1) \/ w = i \/ w \in (i + 1)..M
        BY <2>1, Wheels
      <4>2. given' # NULL /\ given' = given
        BY <2>1, NULLAssumption
      <4> QED
        BY <2>6, <2>7, <3>3, <4>1, <4>2 DEF Askable, On, Spent
    <3>5. served => Spent(M)'
      <4>1. M = i \/ M \in (i + 1)..M
        BY <2>1, Wheels, MAssumption
      <4>2. CASE M = i
        <5>1. M \in {i}
          BY <4>2
        <5> QED
          BY <3>3, <5>1
      <4>3. CASE M \in (i + 1)..M
        BY <2>7, <4>3
      <4> QED
        BY <4>1, <4>2, <4>3
    <3>6. op' # "yield"
      BY <2>1, <2>2, <2>8 DEF Productive
    <3>7. AtRest'
      BY <2>1, <3>1, <3>4, <3>5, <3>6 DEF AtRest, IInv
    <3> QED
      BY <3>1, <3>2, <3>7 DEF IInv, Quiet, InReset, InAdvance, InFilter
  <2>9. CASE size[given][i] > 0
    <3>1. \A w \in {i} : On(given, w)'
      <4>1. ~torn'[i]
        BY <2>4, <2>9
      <4>2. at'[i] \in 1..size[given][i]
        BY <2>2, <2>4, <2>9
      <4> QED
        BY <2>1, <2>4, <2>9, <4>1, <4>2 DEF On
    <3>2. CASE i = M
      <4>1. /\ pc' = "filter" /\ i' = 1 /\ UNCHANGED <<owner, out>>
        BY <1>2, <2>1, <2>9, <3>2 DEF ProductReset, ReturnEmpty
      <4>2. WheelTypes'
        BY <2>1, <2>3, <4>1, Wheels DEF IInv, WheelTypes
      <4>3. \A w \in Wheel : On(given, w)'
        <5>1. \A w \in Wheel : w \in 1..(i - 1) \/ w = i
          BY <2>1, <3>2, Wheels
        <5> QED
          BY <2>1, <2>6, <3>1, <5>1 DEF On
      <4>4. AllOn'
        BY <2>1, <4>1, <4>3, NULLAssumption DEF AllOn
      <4> QED
        BY <2>1, <4>1, <4>2, <4>4 DEF IInv, Quiet, AtRest, InReset, InAdvance, InFilter
    <3>3. CASE i # M
      <4>1. /\ pc' = "productReset" /\ i' = i + 1 /\ UNCHANGED <<owner, out>>
        BY <1>2, <2>1, <2>9, <3>3 DEF ProductReset, ReturnEmpty
      <4>2. i + 1 \in Wheel
        BY <2>1, <3>3, Wheels, MAssumption
      <4>3. WheelTypes'
        BY <2>1, <2>3, <4>1, <4>2 DEF IInv, WheelTypes
      <4>4. \A w \in 1..(i' - 1) : On(given, w)'
        <5>1. \A w \in 1..(i' - 1) : w \in 1..(i - 1) \/ w = i
          BY <2>1, <4>1, Wheels
        <5> QED
          BY <2>1, <2>6, <3>1, <5>1 DEF On
      <4>5. InReset'
        BY <2>1, <2>2, <2>7, <4>1, <4>4 DEF InReset, Productive
      <4> QED
        BY <2>1, <4>1, <4>3, <4>5 DEF IInv, Quiet, AtRest, InAdvance, InFilter
    <3> QED
      BY <3>2, <3>3
  <2> QED
    BY <2>2, <2>8, <2>9
<1> QED
  BY <1>1, <1>2

(* The wheel at hand finds its next result, or is over now too.            *)
LEMMA AdvanceIInv == IInv /\ Advance => IInv'
<1> SUFFICES ASSUME IInv, Advance PROVE IInv'
  OBVIOUS
<1> DEFINE s == serves[i]
<1>1. /\ pc = "advance" /\ out = NULL /\ i \in Wheel /\ s \in Owners
      /\ GetWheel(i)
      /\ UNCHANGED <<size, serves, torn, op, given, served>>
  BY DEF Advance, data, IInv, Quiet, WheelTypes
<1>2. /\ \A w \in Wheel : Askable(w)
      /\ \A w \in (i + 1)..M : Spent(w)
      /\ owner # NULL => /\ owner = given
                         /\ Productive
                         /\ \A w \in 1..i : On(given, w)
      /\ owner = NULL => Spent(M)
  BY <1>1 DEF IInv, InAdvance
<1>3. size[s][i] \in 0..MaxFan /\ at[i] \in Nat
  BY <1>1 DEF IInv, WheelTypes
<1>4. /\ at' \in [Wheel -> Nat]
      /\ at'[i] = IF at[i] < size[s][i] THEN at[i] + 1 ELSE size[s][i] + 1
      /\ \A w \in Wheel : w # i => at'[w] = at[w]
  BY <1>1, <1>3, NULLAssumption DEF GetWheel, GetFinds, IInv, WheelTypes
<1>5. GetFinds(i) <=> at[i] < size[s][i]
  BY <1>1, NULLAssumption DEF GetFinds
<1>6. \A w \in (i + 1)..M : w \in Wheel /\ w # i /\ Spent(w)'
  <2>1. \A w \in (i + 1)..M : w \in Wheel /\ w # i
    BY <1>1, Wheels
  <2>2. \A w \in Wheel : w # i => (Spent(w)' <=> Spent(w))
    BY <1>1, <1>4 DEF Spent
  <2> QED
    BY <1>2, <2>1, <2>2
<1>7. ~torn[i]
  BY <1>1, <1>2 DEF Askable, Spent
<1>8. CASE GetFinds(i)
  <2>1. /\ UNCHANGED <<owner, out>>
        /\ values' = [values EXCEPT ![i] = at[i] + 1]
        /\ IF i = M THEN pc' = "filter" /\ i' = 1
                    ELSE pc' = "productReset" /\ i' = i + 1
    BY <1>8 DEF Advance
  <2>2. WheelTypes'
    BY SMTT(30), <1>1, <1>3, <1>4, <2>1, Wheels DEF IInv, WheelTypes
  <2>3. owner # NULL => \A w \in 1..i : w \in Wheel /\ On(given, w)'
    <3> SUFFICES ASSUME owner # NULL, NEW w \in 1..i PROVE w \in Wheel /\ On(given, w)'
      OBVIOUS
    <3>1. w \in Wheel /\ On(given, w)
      BY <1>1, <1>2, Wheels
    <3>2. CASE w # i
      BY <1>1, <1>4, <2>1, <3>1, <3>2 DEF On, IInv, WheelTypes
    <3>3. CASE w = i
      <4>1. s = given
        BY <3>1, <3>3 DEF On
      <4>2. at'[w] = at[i] + 1 /\ values'[w] = at[i] + 1
        BY <1>1, <1>4, <1>5, <1>8, <2>1, <3>3 DEF IInv, WheelTypes
      <4>3. at[i] + 1 \in 1..size[given][w]
        BY <1>3, <1>5, <1>8, <3>3, <4>1
      <4> QED
        BY <1>1, <1>7, <3>1, <3>3, <4>1, <4>2, <4>3 DEF On
    <3> QED
      BY <3>2, <3>3
  <2>4. CASE i = M
    <3>1. owner # NULL
      <4> SUFFICES ASSUME owner = NULL PROVE FALSE
        OBVIOUS
      <4>1. at[i] > size[s][i]
        BY <1>2, <2>4 DEF Spent
      <4> QED
        BY <1>3, <1>5, <1>8, <4>1
    <3>2. AllOn'
      <4>1. given \in Owners
        BY <1>2, <3>1 DEF IInv, WheelTypes
      <4>2. \A w \in Wheel : w \in 1..i
        BY <2>4, Wheels
      <4>3. \A w \in Wheel : On(given, w)'
        BY <1>1, <2>3, <3>1, <4>2
      <4> QED
        BY <1>1, <1>2, <2>1, <3>1, <4>1, <4>3, NULLAssumption DEF AllOn
    <3> QED
      BY <1>1, <2>1, <2>2, <2>4, <3>2 DEF IInv, Quiet, AtRest, InReset, InAdvance, InFilter
  <2>5. CASE i # M
    <3>1. pc' = "productReset" /\ i' = i + 1
      BY <2>1, <2>5
    <3>2. InReset'
      <4> SUFFICES ASSUME owner' # NULL
                   PROVE  /\ owner' = given'
                          /\ op' = "yield" => Productive'
                          /\ \A w \in 1..(i' - 1) : On(given, w)'
                          /\ served' => \A w \in i'..M : Spent(w)'
        BY DEF InReset
      <4>1. owner # NULL /\ owner' = given' /\ Productive'
        BY <1>1, <1>2, <2>1 DEF Productive
      <4>2. \A w \in 1..(i' - 1) : w \in 1..i
        BY <1>1, <3>1, Wheels
      <4> QED
        BY <1>1, <1>6, <2>3, <3>1, <4>1, <4>2
    <3> QED
      BY <1>1, <2>1, <2>2, <3>1, <3>2 DEF IInv, Quiet, AtRest, InAdvance, InFilter
  <2> QED
    BY <2>4, <2>5
<1>9. CASE ~GetFinds(i)
  <2>1. /\ UNCHANGED <<values, out>>
        /\ IF i = 1 THEN ReturnEmpty
                    ELSE i' = i - 1 /\ UNCHANGED <<pc, owner>>
    BY <1>1, <1>9 DEF Advance, ReturnEmpty
  <2>2. WheelTypes'
    <3>1. owner' \in Owners \cup {NULL}
      BY <2>1 DEF IInv, WheelTypes, ReturnEmpty
    <3>2. i' \in Wheel
      <4>1. i # 1 => i - 1 \in Wheel
        BY <1>1, Wheels
      <4> QED
        BY <2>1, <4>1, Wheels DEF ReturnEmpty
    <3> QED
      BY <1>1, <1>4, <2>1, <3>1, <3>2 DEF IInv, WheelTypes
  <2>3. \A w \in i..M : w \in Wheel /\ Spent(w)'
    <3>1. \A w \in i..M : w \in Wheel /\ (w = i \/ w \in (i + 1)..M)
      BY <1>1, Wheels
    <3>2. \A w \in {i} : Spent(w)'
      BY <1>1, <1>3, <1>4, <1>5, <1>7, <1>9, NULLAssumption DEF Spent
    <3> QED
      BY <1>6, <3>1, <3>2
  <2>4. \A w \in Wheel : Askable(w)'
    <3>1. \A w \in Wheel : w # i => (Askable(w)' <=> Askable(w))
      BY <1>1, <1>4 DEF Askable, Spent
    <3>2. \A w \in Wheel : w = i => w \in i..M
      BY <1>1, Wheels
    <3> QED
      BY <1>2, <2>3, <3>1, <3>2 DEF Askable
  <2>5. M \in i..M
    BY <1>1, Wheels, MAssumption
  <2>6. CASE i = 1
    <3>1. pc' = "idle" /\ i' = 1 /\ owner' = NULL
      BY <2>1, <2>6 DEF ReturnEmpty
    <3>2. \A w \in Wheel : Spent(w)'
      BY <2>3, <2>6, Wheels
    <3>3. AtRest'
      BY <1>1, <2>1, <2>4, <3>1, <3>2, Wheels DEF AtRest
    <3> QED
      BY <1>1, <2>1, <2>2, <3>1, <3>3 DEF IInv, Quiet, InReset, InAdvance, InFilter
  <2>7. CASE i # 1
    <3>1. i' = i - 1 /\ UNCHANGED <<pc, owner>>
      BY <2>1, <2>7
    <3>2. \A w \in (i' + 1)..M : w \in i..M
      BY <1>1, <3>1, Wheels
    <3>3. \A w \in 1..i' : w \in 1..i /\ w \in Wheel /\ w # i
      BY <1>1, <3>1, Wheels
    <3>4. \A w \in Wheel : w # i => (On(given, w)' <=> On(given, w))
      BY <1>1, <1>4, <2>1 DEF On
    <3>5. Productive' <=> Productive
      BY <1>1 DEF Productive
    <3>6. Spent(M)'
      BY <2>3, <2>5
    <3>7. InAdvance'
      BY <1>1, <1>2, <2>3, <2>4, <3>1, <3>2, <3>3, <3>4, <3>5, <3>6 DEF InAdvance
    <3> QED
      BY <1>1, <2>1, <2>2, <3>1, <3>7 DEF IInv, Quiet, AtRest, InReset, InFilter
  <2> QED
    BY <2>6, <2>7
<1> QED
  BY <1>8, <1>9

(* The filter leaves the wheels alone.                                     *)
LEMMA FilterIInv == IInv /\ Filter => IInv'
<1> SUFFICES ASSUME IInv, Filter PROVE IInv'
  OBVIOUS
<1>1. /\ pc = "filter" /\ out = NULL
      /\ UNCHANGED <<size, serves, at, torn, values, op, given, owner, served>>
  BY DEF Filter, data, wheels, IInv, Quiet, ReturnCombo
<1>2. AllOn /\ AllOn'
  BY <1>1 DEF IInv, InFilter, AllOn, On
<1>3. CASE pc' = "idle"
  <2>1. i' = 1 /\ out' = values
    BY <1>1, <1>3 DEF Filter, ReturnCombo
  <2>2. WheelTypes'
    BY <1>1, <2>1, Wheels DEF IInv, WheelTypes
  <2>3. values \in [1..M -> 1..MaxFan]
    <3>1. \A w \in Wheel : values[w] \in 1..MaxFan
      <4>1. given \in Owners
        BY <1>2 DEF AllOn, IInv, WheelTypes
      <4>2. \A w \in Wheel : size[given][w] \in 0..MaxFan /\ at[w] \in Nat
        BY <4>1 DEF IInv, WheelTypes
      <4> QED
        BY <1>2, <4>2, MaxFanAssumption DEF AllOn, On
    <3> QED
      BY <3>1 DEF IInv, WheelTypes, Wheel
  <2>4. AtRest'
    BY <1>2, <1>3, <2>1, <2>3, NULLAssumption DEF AtRest
  <2> QED
    BY <1>3, <2>2, <2>4 DEF IInv, Quiet, InReset, InAdvance, InFilter
<1>4. CASE pc' = "advance"
  <2>1. i' = M /\ out' = NULL
    BY <1>1, <1>4 DEF Filter, ReturnCombo
  <2>2. WheelTypes'
    BY <1>1, <2>1, Wheels DEF IInv, WheelTypes
  <2>3. /\ \A w \in Wheel : Askable(w)' /\ On(given, w)'
        /\ owner' = given' /\ owner' # NULL
    BY <1>1, <1>2 DEF AllOn, Askable, On
  <2>4. Productive'
    BY <1>1, <1>2 DEF AllOn, On, Productive, IInv, WheelTypes
  <2>5. InAdvance'
    <3>1. /\ \A w \in (i' + 1)..M : FALSE
          /\ \A w \in 1..i' : w \in Wheel
      BY <2>1, MAssumption, Wheels DEF Wheel
    <3> QED
      BY <1>1, <2>3, <2>4, <3>1 DEF InAdvance
  <2> QED
    BY <1>4, <2>1, <2>2, <2>5 DEF IInv, Quiet, AtRest, InReset, InFilter
<1>5. CASE pc' = "filter"
  <2>1. UNCHANGED <<i, out>>
    BY <1>1, <1>5 DEF Filter, ReturnCombo
  <2>2. WheelTypes'
    BY <1>1, <2>1 DEF IInv, WheelTypes
  <2> QED
    BY <1>1, <1>2, <1>5, <2>1, <2>2 DEF IInv, Quiet, AtRest, InReset, InAdvance, InFilter
<1> QED
  BY <1>1, <1>3, <1>4, <1>5 DEF Filter, ReturnCombo
-----------------------------------------------------------------------------
LEMMA NextIInv == IInv /\ [Next]_vars => IInv'
<1> SUFFICES ASSUME IInv, [Next]_vars PROVE IInv'
  OBVIOUS
<1>1. CASE Next
  BY <1>1, CallResetIInv, CallYieldIInv, ProductResetIInv, AdvanceIInv, FilterIInv
  DEF Next, Step
<1>2. CASE UNCHANGED vars
  BY <1>2 DEF vars, data, wheels, IInv, WheelTypes, Quiet, AtRest, InReset, InAdvance,
              InFilter, AllOn, On, Spent, Askable, Productive
<1> QED
  BY <1>1, <1>2

LEMMA Invariance == Spec => []IInv
BY InitIInv, NextIInv, PTL DEF Spec

(* No wheel is asked for more that serves another owner and is not over,   *)
(* or that a failed reset has torn off an unfinished iteration: the code   *)
(* after HDQL_ERR_EMPTY_SET of hdql_query_product_advance.                 *)
THEOREM NothingLeftOver == Spec => []NoLeftover
<1>1. IInv => NoLeftover
  <2> SUFFICES ASSUME IInv, pc = "advance"
               PROVE  /\ ~torn[i]
                      /\ serves[i] # NULL
                      /\ \A w \in i..M : serves[w] # given => at[w] > size[serves[w]][w]
    BY DEF NoLeftover
  <2>1. \A w \in Wheel : Askable(w)
    BY DEF IInv, InAdvance
  <2>2. i \in Wheel /\ \A w \in i..M : w \in Wheel
    BY Wheels DEF IInv, WheelTypes
  <2> QED
    BY <2>1, <2>2 DEF Askable, Spent
<1> QED
  BY <1>1, Invariance, PTL

(* The values the bound attributes read are those of the wheels, all on    *)
(* the owner of the last reset, whenever the filter or the client reads    *)
(* them (QueryProdIterator.values and .owner).                             *)
THEOREM ValuesOfOneOwner == Spec => []ValuesAreWheels
<1>1. IInv => ValuesAreWheels
  BY DEF IInv, AtRest, InFilter, AllOn, On, ValuesAreWheels
<1> QED
  BY <1>1, Invariance, PTL

-----------------------------------------------------------------------------
(***************************************************************************)
(* Proof that a collection of bound compounds delivers what                *)
(* ProductEnumeration promises: every turn of its loops is a step of the   *)
(* enumeration of the combinations that pass the filter, or leaves the set *)
(* of those to come alone.                                                 *)
(***************************************************************************)

(* Later and Same, and what is to come after or from the first k values,   *)
(* for any values v and any data.                                          *)
Ahead(v, c, k) == \E j \in 1..k : /\ c[j] > v[j]
                                  /\ \A h \in 1..(j - 1) : c[h] = v[h]
Agree(v, c, k) == \A j \in 1..k : c[j] = v[j]

Passing(sz, vd, d) == {c \in Combos : /\ \A w \in Wheel : c[w] <= sz[d][w]
                                      /\ vd[d][c] = "pass"}
After(sz, vd, d, v, k) == {c \in Passing(sz, vd, d) : Ahead(v, c, k)}
From(sz, vd, d, v, k) ==
  {c \in Passing(sz, vd, d) : Ahead(v, c, k) \/ Agree(v, c, k)}

RestOf(sz, vd, d, v, p, k, o) ==
  IF d = NULL THEN {} ELSE
  {c \in Passing(sz, vd, d) :
     CASE p = "idle" -> o # NULL /\ Ahead(v, c, M)
       [] p = "productReset" -> Ahead(v, c, k - 1) \/ Agree(v, c, k - 1)
       [] p = "advance" -> Ahead(v, c, k)
       [] p = "filter" -> Ahead(v, c, M) \/ Agree(v, c, M)
       [] OTHER -> FALSE}

(***************************************************************************)
(* What the order of the combinations adds to the invariant: between calls *)
(* in hdql_query_get, and on the wheels that the advance has passed, there *)
(* is nothing more to come, because some query has no result at all or     *)
(* because the values are the last ones.                                   *)
(***************************************************************************)
Barren == \E w \in Wheel : size[given][w] = 0

Last(w) == ~GetFinds(w) /\ values[w] >= size[given][w]

Over == Barren \/ \A w \in Wheel : Last(w)

NothingMore ==
  /\ pc = "idle" /\ out = NULL /\ served => Over
  /\ pc = "productReset" /\ owner = NULL => Barren
  /\ pc = "advance" /\ owner = NULL => Over
  /\ pc = "advance" => \A w \in (i + 1)..M : Barren \/ Last(w)

RefInv == IInv /\ NothingMore
-----------------------------------------------------------------------------
LEMMA NothingMoreAdvance == RefInv /\ Advance => NothingMore'
<1> SUFFICES ASSUME RefInv, Advance PROVE NothingMore'
  OBVIOUS
<1>1. /\ pc = "advance" /\ i \in Wheel /\ serves[i] \in Owners
      /\ GetWheel(i)
      /\ UNCHANGED <<size, serves, torn, op, given, served>>
  BY DEF Advance, data, RefInv, IInv, WheelTypes
<1>2. size[serves[i]][i] \in 0..MaxFan /\ at[i] \in Nat
  BY <1>1 DEF RefInv, IInv, WheelTypes
<1>3. Barren' <=> Barren
  BY <1>1 DEF Barren
<1>4. CASE GetFinds(i)
  <2>1. /\ pc' # "idle" /\ pc' # "advance" /\ owner' = owner
    BY <1>4 DEF Advance
  <2>2. owner = NULL => Barren
    BY <1>1, <1>4 DEF RefInv, NothingMore, Over, Last
  <2> QED
    BY <1>3, <2>1, <2>2 DEF NothingMore
<1>5. CASE ~GetFinds(i)
  <2>1. /\ UNCHANGED <<values, out>>
        /\ IF i = 1 THEN ReturnEmpty
                    ELSE i' = i - 1 /\ UNCHANGED <<pc, owner>>
    BY <1>1, <1>5 DEF Advance, ReturnEmpty
  <2>2. \A w \in Wheel : Last(w) => Last(w)'
    <3> SUFFICES ASSUME NEW w \in Wheel, Last(w) PROVE Last(w)'
      OBVIOUS
    <3>1. CASE w = i
      <4>1. at'[w] = size[serves[w]][w] + 1
        BY <1>1, <1>5, <3>1 DEF GetWheel, RefInv, IInv, WheelTypes
      <4> QED
        BY <1>1, <1>2, <2>1, <3>1, <4>1 DEF Last, GetFinds
    <3>2. CASE w # i
      <4>1. at'[w] = at[w]
        BY <1>1, <3>2 DEF GetWheel, RefInv, IInv, WheelTypes
      <4> QED
        BY <1>1, <2>1, <4>1 DEF Last, GetFinds
    <3> QED
      BY <3>1, <3>2
  <2>3. Barren \/ Last(i)
    <3>1. CASE owner = NULL
      BY <1>1, <3>1 DEF RefInv, NothingMore, Over
    <3>2. CASE owner # NULL
      <4>1. i \in 1..i
        BY <1>1, Wheels
      <4>2. On(given, i)
        BY <1>1, <3>2, <4>1 DEF RefInv, IInv, InAdvance
      <4>3. serves[i] # NULL
        BY <1>1, NULLAssumption
      <4> QED
        BY <1>2, <1>5, <4>2, <4>3 DEF On, Last, GetFinds
    <3> QED
      BY <3>1, <3>2
  <2>4. \A w \in i..M : w \in Wheel /\ (Barren \/ Last(w))
    <3>1. \A w \in i..M : w \in Wheel /\ (w = i \/ w \in (i + 1)..M)
      BY <1>1, Wheels
    <3> QED
      BY <1>1, <2>3, <3>1 DEF RefInv, NothingMore
  <2>5. \A w \in i..M : Barren' \/ Last(w)'
    BY <1>3, <2>2, <2>4
  <2>6. CASE i = 1
    <3>1. pc' = "idle"
      BY <2>1, <2>6 DEF ReturnEmpty
    <3>2. Over'
      BY <2>5, <2>6 DEF Over, Wheel
    <3> QED
      BY <3>1, <3>2 DEF NothingMore
  <2>7. CASE i # 1
    <3>1. i' = i - 1 /\ pc' = "advance" /\ owner' = owner
      BY <1>1, <2>1, <2>7
    <3>2. owner = NULL => Over'
      BY <1>1, <1>3, <2>2 DEF RefInv, NothingMore, Over
    <3>3. \A w \in (i' + 1)..M : w \in i..M
      BY <1>1, <3>1, Wheels
    <3> QED
      BY <2>5, <3>1, <3>2, <3>3 DEF NothingMore
  <2> QED
    BY <2>6, <2>7
<1> QED
  BY <1>4, <1>5

LEMMA NothingMoreStep == RefInv /\ [Next]_vars => NothingMore'
<1> SUFFICES ASSUME RefInv, [Next]_vars PROVE NothingMore'
  OBVIOUS
<1>1. ASSUME NEW d \in Owners, NEW anew \in BOOLEAN, CallReset(d, anew) PROVE NothingMore'
  BY <1>1, NULLAssumption DEF CallReset, NothingMore
<1>2. CASE CallYield
  <2>1. /\ pc = "idle" /\ pc' = "advance" /\ i' = M
        /\ UNCHANGED <<size, values, serves, at, owner, given>>
        /\ served \/ out # NULL
    BY <1>2 DEF CallYield, data, wheels
  <2>2. owner = NULL => Over
    BY <2>1 DEF RefInv, NothingMore, IInv, AtRest, AllOn
  <2>3. Over' <=> Over
    BY <2>1 DEF Over, Barren, Last, GetFinds
  <2>4. \A w \in (i' + 1)..M : FALSE
    BY <2>1, MAssumption
  <2> QED
    BY <2>1, <2>2, <2>3, <2>4 DEF NothingMore
<1>3. CASE ProductReset
  <2>1. pc = "productReset" /\ UNCHANGED <<size, given>> /\ i \in Wheel
    BY <1>3 DEF ProductReset, data, RefInv, IInv, WheelTypes
  <2>2. CASE pc' = "idle"
    <3>1. owner = given /\ size[given][i] = 0
      BY <1>3, <2>1, <2>2 DEF ProductReset, RefInv, IInv, InReset
    <3> QED
      BY <2>1, <2>2, <3>1 DEF NothingMore, Over, Barren
  <2>3. CASE pc' # "idle"
    BY <1>3, <2>1, <2>3 DEF ProductReset, NothingMore, ReturnEmpty
  <2> QED
    BY <2>2, <2>3
<1>4. CASE Advance
  BY <1>4, NothingMoreAdvance
<1>5. CASE Filter
  <2>1. pc = "filter" /\ AllOn /\ UNCHANGED <<owner, given>>
    BY <1>5 DEF Filter, ReturnCombo, RefInv, IInv, InFilter
  <2>2. CASE pc' = "idle"
    <3>1. out' # NULL
      BY <1>5, <2>1, <2>2, FilterIInv DEF RefInv, IInv, AtRest, AllOn
    <3> QED
      BY <2>2, <3>1 DEF NothingMore
  <2>3. CASE pc' # "idle"
    <3>1. pc' = "advance" => i' = M
      BY <1>5, <2>1 DEF Filter, ReturnCombo
    <3>2. \A w \in (M + 1)..M : FALSE
      BY MAssumption
    <3>3. pc' # "productReset"
      BY <1>5, <2>1 DEF Filter, ReturnCombo
    <3> QED
      BY <2>1, <2>3, <3>1, <3>2, <3>3 DEF NothingMore, AllOn
  <2> QED
    BY <2>2, <2>3
<1>6. CASE UNCHANGED vars
  BY <1>6 DEF vars, data, wheels, RefInv, NothingMore, Over, Barren, Last, GetFinds
<1> QED
  BY <1>1, <1>2, <1>3, <1>4, <1>5, <1>6 DEF Next, Step

LEMMA RefInvariance == Spec => []RefInv
<1>1. Init => RefInv
  BY InitIInv DEF Init, RefInv, NothingMore
<1> QED
  BY <1>1, NextIInv, NothingMoreStep, PTL DEF Spec, RefInv
-----------------------------------------------------------------------------
(***************************************************************************)
(* Lemmas about the combinations to come.                                  *)
(***************************************************************************)

(* The mapping, and its value after a step, as a function of the state.    *)
LEMMA RestValue ==
  /\ Rest = RestOf(size, verdict, given, values, pc, i, out)
  /\ Rest' = RestOf(size', verdict', given', values', pc', i', out')
BY DEF Rest, RestOf, Later, Same, Ahead, Agree, Passing, Prod!Wanted, Prod!Combos,
       Prod!Wheel, Combos, Wheel

LEMMA RestCases ==
  ASSUME NEW sz, NEW vd, NEW d, NEW v, NEW p, NEW k, NEW o, d # NULL
  PROVE  /\ p = "idle" /\ o = NULL => RestOf(sz, vd, d, v, p, k, o) = {}
         /\ p = "idle" /\ o # NULL =>
              RestOf(sz, vd, d, v, p, k, o) = After(sz, vd, d, v, M)
         /\ p = "productReset" =>
              RestOf(sz, vd, d, v, p, k, o) = From(sz, vd, d, v, k - 1)
         /\ p = "advance" => RestOf(sz, vd, d, v, p, k, o) = After(sz, vd, d, v, k)
         /\ p = "filter" => RestOf(sz, vd, d, v, p, k, o) = From(sz, vd, d, v, M)
         /\ p = "crashed" => RestOf(sz, vd, d, v, p, k, o) = {}
BY DEF RestOf, After, From

(* Before the first wheel everything is to come.                           *)
LEMMA FromTheFirst ==
  ASSUME NEW sz, NEW vd, NEW d, NEW v
  PROVE  From(sz, vd, d, v, 0) = Passing(sz, vd, d)
BY DEF From, Agree

(* Where a query has no result there are no combinations.                  *)
LEMMA NonePasses ==
  ASSUME NEW sz, NEW vd, NEW d, NEW w \in Wheel, sz[d][w] = 0
  PROVE  Passing(sz, vd, d) = {}
<1> SUFFICES ASSUME NEW c \in Passing(sz, vd, d) PROVE FALSE
  OBVIOUS
<1>1. c[w] \in 1..MaxFan /\ c[w] <= 0
  BY DEF Passing, Combos
<1> QED
  BY <1>1, MaxFanAssumption

(* One more wheel: what comes after the first k values is what comes after *)
(* the first k - 1, and what agrees with these and passes the k-th.        *)
LEMMA AheadSplits ==
  ASSUME NEW v, NEW c, NEW k \in Wheel
  PROVE  /\ Ahead(v, c, k) <=> Ahead(v, c, k - 1) \/ (Agree(v, c, k - 1) /\ c[k] > v[k])
         /\ Agree(v, c, k) <=> Agree(v, c, k - 1) /\ c[k] = v[k]
<1>1. /\ k \in Nat /\ k \in 1..k
      /\ \A j \in 1..k : j = k \/ j \in 1..(k - 1)
      /\ \A j \in 1..(k - 1) : j \in 1..k
  BY Wheels
<1> QED
  BY <1>1 DEF Ahead, Agree

(* Values of wheels further right do not matter.                           *)
LEMMA OnlyFirstValues ==
  ASSUME NEW v, NEW u, NEW k \in Nat, \A j \in 1..k : u[j] = v[j]
  PROVE  \A c : (Ahead(u, c, k) <=> Ahead(v, c, k)) /\ (Agree(u, c, k) <=> Agree(v, c, k))
<1>1. \A j \in 1..k : \A h \in 1..(j - 1) : h \in 1..k
  OBVIOUS
<1> QED
  BY <1>1 DEF Ahead, Agree

(* A wheel at its last value has nothing to come after it.                 *)
LEMMA LastValue ==
  ASSUME NEW sz, NEW vd, NEW d, NEW v, NEW k \in Wheel,
         v[k] \in Nat, sz[d][k] \in Nat, v[k] >= sz[d][k]
  PROVE  After(sz, vd, d, v, k) = After(sz, vd, d, v, k - 1)
<1>1. \A c \in Passing(sz, vd, d) : ~(c[k] > v[k])
  <2> SUFFICES ASSUME NEW c \in Passing(sz, vd, d), c[k] > v[k] PROVE FALSE
    OBVIOUS
  <2>1. c[k] \in 1..MaxFan /\ c[k] <= sz[d][k]
    BY DEF Passing, Combos
  <2> QED
    BY <2>1, MaxFanAssumption
<1> QED
  BY <1>1, AheadSplits DEF After

(* A wheel turned to its next value: what came after the old value comes   *)
(* from the new one on.                                                    *)
LEMMA NextValue ==
  ASSUME NEW sz, NEW vd, NEW d, NEW v, NEW u, NEW k \in Wheel,
         v[k] \in Nat, u[k] = v[k] + 1, \A j \in 1..(k - 1) : u[j] = v[j]
  PROVE  From(sz, vd, d, u, k) = After(sz, vd, d, v, k)
<1>1. \A c \in Passing(sz, vd, d) : c[k] \in Nat
  BY MaxFanAssumption DEF Passing, Combos
<1>2. \A c \in Passing(sz, vd, d) : c[k] > v[k] <=> c[k] > u[k] \/ c[k] = u[k]
  BY <1>1
<1>3. k - 1 \in Nat
  BY Wheels
<1>4. \A c : /\ Ahead(u, c, k - 1) <=> Ahead(v, c, k - 1)
             /\ Agree(u, c, k - 1) <=> Agree(v, c, k - 1)
  BY <1>3, OnlyFirstValues
<1>5. ASSUME NEW c \in Passing(sz, vd, d)
      PROVE  Ahead(u, c, k) \/ Agree(u, c, k) <=> Ahead(v, c, k)
  <2>1. /\ Ahead(u, c, k) <=> Ahead(u, c, k - 1) \/ (Agree(u, c, k - 1) /\ c[k] > u[k])
        /\ Agree(u, c, k) <=> Agree(u, c, k - 1) /\ c[k] = u[k]
    BY AheadSplits
  <2>2. Ahead(v, c, k) <=> Ahead(v, c, k - 1) \/ (Agree(v, c, k - 1) /\ c[k] > v[k])
    BY AheadSplits
  <2> QED
    BY <1>2, <1>4, <2>1, <2>2
<1> QED
  BY <1>5 DEF From, After

(* A wheel turned to its first value leaves everything to come.            *)
LEMMA FirstValue ==
  ASSUME NEW sz, NEW vd, NEW d, NEW v, NEW u, NEW k \in Wheel,
         u[k] = 1, \A j \in 1..(k - 1) : u[j] = v[j]
  PROVE  From(sz, vd, d, u, k) = From(sz, vd, d, v, k - 1)
<1>1. \A c \in Passing(sz, vd, d) : c[k] > u[k] \/ c[k] = u[k]
  BY MaxFanAssumption DEF Passing, Combos
<1>2. k - 1 \in Nat
  BY Wheels
<1>3. \A c : /\ Ahead(u, c, k - 1) <=> Ahead(v, c, k - 1)
             /\ Agree(u, c, k - 1) <=> Agree(v, c, k - 1)
  BY <1>2, OnlyFirstValues
<1>4. ASSUME NEW c \in Passing(sz, vd, d)
      PROVE  Ahead(u, c, k) \/ Agree(u, c, k) <=> Ahead(v, c, k - 1) \/ Agree(v, c, k - 1)
  <2>1. /\ Ahead(u, c, k) <=> Ahead(u, c, k - 1) \/ (Agree(u, c, k - 1) /\ c[k] > u[k])
        /\ Agree(u, c, k) <=> Agree(u, c, k - 1) /\ c[k] = u[k]
    BY AheadSplits
  <2> QED
    BY <1>1, <1>3, <2>1
<1> QED
  BY <1>4 DEF From
-----------------------------------------------------------------------------
(***************************************************************************)
(* The steps.  A call begins, ends with a combination or with nothing, or  *)
(* leaves what is to come alone.                                           *)
(***************************************************************************)
Data == size' = size /\ verdict' = verdict

LEMMA SimulateReset ==
  ASSUME RefInv, NEW d \in Owners, NEW anew \in BOOLEAN, CallReset(d, anew)
  PROVE  Abstract!Begin(d) /\ Data
<1>1. /\ pc = "idle" /\ pc' = "productReset" /\ i' = 1 /\ given' = d /\ out' = NULL
      /\ Data
  BY DEF CallReset, data, Data
<1>2. Rest' = From(size, verdict, d, values', 0)
  BY <1>1, RestValue, RestCases, NULLAssumption DEF Data
<1>3. Passing(size, verdict, d) = Abstract!Wanted(d)
  BY DEF Passing, Abstract!Wanted, Abstract!Combos, Abstract!Wheel, Combos, Wheel
<1> QED
  BY <1>1, <1>2, <1>3, FromTheFirst DEF Abstract!Begin

LEMMA SimulateYield == RefInv /\ CallYield => Abstract!More /\ Data
<1> SUFFICES ASSUME RefInv, CallYield PROVE Abstract!More /\ Data
  OBVIOUS
<1>1. /\ pc = "idle" /\ pc' = "advance" /\ i' = M /\ out' = NULL
      /\ UNCHANGED <<values, given>>
      /\ served \/ out # NULL
      /\ Data
  BY DEF CallYield, data, wheels, Data
<1>2. Rest' = Rest
  <2>1. CASE given = NULL
    BY <1>1, <2>1, RestValue DEF RestOf
  <2>2. CASE given # NULL
    <3>1. Rest' = After(size, verdict, given, values, M)
      BY <1>1, <2>2, RestValue, RestCases DEF Data
    <3>2. CASE out # NULL
      <4>1. Rest = After(size, verdict, given, values, M)
        BY <1>1, <2>2, <3>2, RestValue, RestCases
      <4> QED
        BY <3>1, <4>1
    <3>3. CASE out = NULL
      <4>1. Rest = {}
        BY <1>1, <2>2, <3>3, RestValue, RestCases
      <4>2. Over
        BY <1>1, <3>3 DEF RefInv, NothingMore
      <4>3. CASE Barren
        BY <3>1, <4>1, <4>3, NonePasses DEF Barren, After
      <4>4. CASE \A w \in Wheel : Last(w)
        <5>1. ASSUME NEW c \in Passing(size, verdict, given) PROVE ~Ahead(values, c, M)
          <6> SUFFICES ASSUME NEW w \in Wheel PROVE ~(c[w] > values[w])
            BY DEF Ahead, Wheel
          <6>1. c[w] \in 1..MaxFan /\ c[w] <= size[given][w]
            BY DEF Passing, Combos
          <6>2. values[w] \in Nat /\ size[given][w] \in 0..MaxFan
            BY <2>2 DEF RefInv, IInv, WheelTypes
          <6>3. values[w] >= size[given][w]
            BY <4>4 DEF Last
          <6> QED
            BY <6>1, <6>2, <6>3, MaxFanAssumption
        <5> QED
          BY <3>1, <4>1, <5>1 DEF After
      <4> QED
        BY <4>2, <4>3, <4>4 DEF Over
    <3> QED
      BY <3>2, <3>3
  <2> QED
    BY <2>1, <2>2
<1> QED
  BY <1>1, <1>2 DEF Abstract!More

LEMMA SimulateProductReset ==
  RefInv /\ ProductReset => /\ Data
                            /\ Abstract!AnswerNothing \/ UNCHANGED Abstract!vars
<1> SUFFICES ASSUME RefInv, ProductReset
             PROVE  /\ Data
                    /\ Abstract!AnswerNothing \/ UNCHANGED Abstract!vars
  OBVIOUS
<1>1. /\ pc = "productReset" /\ i \in Wheel /\ given' = given /\ out' = out
      /\ Data
  BY DEF ProductReset, data, Data, RefInv, IInv, WheelTypes, ReturnEmpty
<1>2. given # NULL => Rest = From(size, verdict, given, values, i - 1)
  BY <1>1, RestValue, RestCases
<1>3. Barren => Rest = {}
  <2>1. CASE given = NULL
    BY <2>1, RestValue DEF RestOf
  <2>2. CASE given # NULL
    BY <1>2, <2>2, NonePasses DEF Barren, From
  <2> QED
    BY <2>1, <2>2
<1>4. CASE owner = NULL
  <2>1. pc' = "crashed"
    BY <1>1, <1>4 DEF ProductReset
  <2>2. Rest' = {}
    <3>1. CASE given = NULL
      BY <1>1, <3>1, RestValue DEF RestOf
    <3>2. CASE given # NULL
      BY <1>1, <2>1, <3>2, RestValue, RestCases
    <3> QED
      BY <3>1, <3>2
  <2>3. Rest = {}
    BY <1>1, <1>3, <1>4 DEF RefInv, NothingMore
  <2> QED
    BY <1>1, <2>1, <2>2, <2>3 DEF Abstract!vars, Data
<1>5. CASE owner # NULL
  <2>1. owner = given /\ given # NULL /\ out = NULL
    BY <1>1, <1>5 DEF RefInv, IInv, Quiet, InReset
  <2>2. CASE size[given][i] = 0
    <3>1. pc' = "idle"
      BY <1>5, <2>1, <2>2 DEF ProductReset, ReturnEmpty
    <3>2. Rest = {}
      BY <1>1, <1>3, <2>2 DEF Barren
    <3>3. Rest' = {}
      BY <1>1, <2>1, <3>1, RestValue, RestCases
    <3> QED
      BY <1>1, <2>1, <3>1, <3>2, <3>3 DEF Abstract!AnswerNothing
  <2>3. CASE size[given][i] # 0
    <3>1. \/ i = M /\ pc' = "filter"
          \/ i # M /\ pc' = "productReset" /\ i' = i + 1
      BY <1>5, <2>1, <2>3 DEF ProductReset
    <3>2. values'[i] = 1 /\ \A w \in Wheel : w # i => values'[w] = values[w]
      BY <1>1, <1>5, <2>1, <2>3 DEF ProductReset, ResetWheel, RefInv, IInv, WheelTypes
    <3>3. \A w \in 1..(i - 1) : values'[w] = values[w]
      BY <1>1, <3>2, Wheels
    <3>4. From(size, verdict, given, values', i) = From(size, verdict, given, values, i - 1)
      BY <1>1, <3>2, <3>3, FirstValue
    <3>5. Rest' = From(size, verdict, given, values', i)
      <4>1. (i + 1) - 1 = i
        BY <1>1, Wheels
      <4> QED
        BY <1>1, <2>1, <3>1, <4>1, RestValue, RestCases DEF Data
    <3> QED
      BY <1>1, <1>2, <2>1, <3>1, <3>4, <3>5 DEF Abstract!vars, Data
  <2> QED
    BY <2>2, <2>3
<1> QED
  BY <1>4, <1>5

LEMMA SimulateAdvance ==
  RefInv /\ Advance => /\ Data
                       /\ Abstract!AnswerNothing \/ UNCHANGED Abstract!vars
<1> SUFFICES ASSUME RefInv, Advance
             PROVE  /\ Data
                    /\ Abstract!AnswerNothing \/ UNCHANGED Abstract!vars
  OBVIOUS
<1>1. /\ pc = "advance" /\ i \in Wheel /\ serves[i] \in Owners /\ out = NULL /\ out' = out
      /\ given' = given
      /\ Data
  BY DEF Advance, data, Data, RefInv, IInv, Quiet, WheelTypes, ReturnEmpty
<1>2. given # NULL => Rest = After(size, verdict, given, values, i)
  BY <1>1, RestValue, RestCases
<1>3. Barren => Rest = {}
  <2>1. CASE given = NULL
    BY <2>1, RestValue DEF RestOf
  <2>2. CASE given # NULL
    BY <1>2, <2>2, NonePasses DEF Barren, After
  <2> QED
    BY <2>1, <2>2
<1>4. given = NULL => Rest = {} /\ Rest' = {}
  BY <1>1, RestValue DEF RestOf
<1>5. Barren /\ given # NULL => Passing(size, verdict, given) = {}
  BY NonePasses DEF Barren
<1>6. CASE GetFinds(i)
  <2>1. /\ values' = [values EXCEPT ![i] = at[i] + 1]
        /\ \/ i = M /\ pc' = "filter"
           \/ i # M /\ pc' = "productReset" /\ i' = i + 1
    BY <1>6 DEF Advance
  <2>2. (i + 1) - 1 = i
    BY <1>1, Wheels
  <2>3. given # NULL => Rest' = From(size, verdict, given, values', i)
    BY <1>1, <2>1, <2>2, RestValue, RestCases DEF Data
  <2>4. Rest' = Rest
    <3>1. CASE given = NULL
      BY <1>4, <3>1
    <3>2. CASE given # NULL /\ owner = NULL
      <4>1. Barren
        BY <1>1, <1>6, <3>2 DEF RefInv, NothingMore, Over, Last
      <4> QED
        BY <1>3, <1>5, <2>3, <3>2, <4>1 DEF From
    <3>3. CASE given # NULL /\ owner # NULL
      <4>1. i \in 1..i
        BY <1>1, Wheels
      <4>2. values[i] = at[i] /\ at[i] \in Nat
        BY <1>1, <3>3, <4>1 DEF RefInv, IInv, InAdvance, On, WheelTypes
      <4>3. /\ values'[i] = values[i] + 1
            /\ \A w \in Wheel : w # i => values'[w] = values[w]
        BY <1>1, <2>1, <4>2 DEF RefInv, IInv, WheelTypes
      <4>4. \A w \in 1..(i - 1) : values'[w] = values[w]
        BY <1>1, <4>3, Wheels
      <4> QED
        BY <1>1, <1>2, <2>3, <3>3, <4>2, <4>3, <4>4, NextValue
    <3> QED
      BY <3>1, <3>2, <3>3
  <2> QED
    BY <1>1, <2>1, <2>4 DEF Abstract!vars, Data
<1>7. CASE ~GetFinds(i)
  <2>1. /\ values' = values
        /\ \/ i = 1 /\ pc' = "idle"
           \/ i # 1 /\ pc' = "advance" /\ i' = i - 1
    BY <1>1, <1>7 DEF Advance, ReturnEmpty
  <2>2. given # NULL => Rest = After(size, verdict, given, values, i - 1)
    <3> SUFFICES ASSUME given # NULL
                 PROVE  Rest = After(size, verdict, given, values, i - 1)
      OBVIOUS
    <3>1. Barren \/ Last(i)
      <4>1. CASE owner = NULL
        BY <1>1, <4>1 DEF RefInv, NothingMore, Over
      <4>2. CASE owner # NULL
        <5>1. i \in 1..i
          BY <1>1, Wheels
        <5>2. On(given, i)
          BY <1>1, <4>2, <5>1 DEF RefInv, IInv, InAdvance
        <5>3. at[i] \in Nat /\ size[given][i] \in Nat
          BY <1>1, <5>2 DEF On, RefInv, IInv, WheelTypes
        <5> QED
          BY <1>1, <1>7, <5>2, <5>3, NULLAssumption DEF On, Last, GetFinds
      <4> QED
        BY <4>1, <4>2
    <3>2. CASE Barren
      BY <1>3, <1>5, <3>2 DEF After
    <3>3. CASE Last(i)
      <4>1. values[i] \in Nat /\ size[given][i] \in Nat
        BY <1>1 DEF RefInv, IInv, WheelTypes
      <4> QED
        BY <1>1, <1>2, <3>3, <4>1, LastValue DEF Last
    <3> QED
      BY <3>1, <3>2, <3>3
  <2>3. CASE i = 1
    <3>1. pc' = "idle"
      BY <2>1, <2>3
    <3>2. Rest = {}
      BY <1>4, <2>2, <2>3 DEF After, Ahead
    <3>3. Rest' = {}
      <4>1. CASE given = NULL
        BY <1>4, <4>1
      <4>2. CASE given # NULL
        BY <1>1, <3>1, <4>2, RestValue, RestCases
      <4> QED
        BY <4>1, <4>2
    <3> QED
      BY <1>1, <3>1, <3>2, <3>3 DEF Abstract!AnswerNothing
  <2>4. CASE i # 1
    <3>1. pc' = "advance" /\ i' = i - 1
      BY <2>1, <2>4
    <3>2. given # NULL => Rest' = After(size, verdict, given, values, i - 1)
      BY <1>1, <2>1, <3>1, RestValue, RestCases DEF Data
    <3> QED
      BY <1>1, <1>4, <2>2, <3>1, <3>2 DEF Abstract!vars, Data
  <2> QED
    BY <2>3, <2>4
<1> QED
  BY <1>6, <1>7

LEMMA SimulateFilter ==
  RefInv /\ Filter => /\ Data
                      /\ Abstract!AnswerCombo \/ UNCHANGED Abstract!vars
<1> SUFFICES ASSUME RefInv, Filter
             PROVE  /\ Data
                    /\ Abstract!AnswerCombo \/ UNCHANGED Abstract!vars
  OBVIOUS
<1>1. /\ pc = "filter" /\ out = NULL /\ given' = given /\ values' = values
      /\ Data
  BY DEF Filter, data, Data, wheels, RefInv, IInv, Quiet
<1>2. AllOn /\ given \in Owners
  BY <1>1 DEF RefInv, IInv, InFilter, AllOn, WheelTypes
<1>3. \A w \in Wheel : values[w] \in 1..MaxFan /\ values[w] <= size[given][w]
  <2>1. \A w \in Wheel : size[given][w] \in 0..MaxFan
    BY <1>2 DEF RefInv, IInv, WheelTypes
  <2> QED
    BY <1>2, <2>1, MaxFanAssumption DEF AllOn, On
<1>4. values \in Combos
  BY <1>3 DEF Combos, RefInv, IInv, WheelTypes
<1>5. Rest = From(size, verdict, given, values, M)
  BY <1>1, <1>2, RestValue, RestCases DEF AllOn
<1>6. \A c \in Combos : Agree(values, c, M) <=> c = values
  <2>1. ASSUME NEW c \in Combos, \A j \in Wheel : c[j] = values[j] PROVE c = values
    <3>1. c = [j \in Wheel |-> c[j]] /\ values = [j \in Wheel |-> values[j]]
      BY <1>4 DEF Combos
    <3> QED
      BY <2>1, <3>1
  <2> QED
    BY <2>1 DEF Agree, Wheel
<1>7. ~Ahead(values, values, M)
  BY <1>3, MaxFanAssumption DEF Ahead, Wheel
<1>8. CASE verdict[given][values] = "pass" /\ ReturnCombo
  <2>1. pc' = "idle" /\ out' = values
    BY <1>8 DEF ReturnCombo
  <2>2. out' # NULL
    BY <1>4, <2>1, NULLAssumption DEF Combos, Wheel
  <2>3. Rest' = After(size, verdict, given, values, M)
    BY <1>1, <1>2, <2>1, <2>2, RestValue, RestCases DEF Data, AllOn
  <2>4. values \in Rest
    BY <1>3, <1>4, <1>5, <1>6, <1>8 DEF From, Passing
  <2>5. ASSUME NEW c \in Rest, c # values PROVE Ahead(values, c, M)
    BY <1>5, <1>6, <2>5 DEF From, Passing
  <2>6. Rest' = Rest \ {values}
    <3>1. values \notin After(size, verdict, given, values, M)
      BY <1>7 DEF After
    <3>2. After(size, verdict, given, values, M) \subseteq Rest
      BY <1>5 DEF After, From
    <3>3. \A c \in Rest : c # values => c \in After(size, verdict, given, values, M)
      BY <1>5, <2>5 DEF From, After
    <3> QED
      BY <2>3, <3>1, <3>2, <3>3
  <2>7. \A c \in Rest \ {values} : Abstract!Before(values, c)
    <3>1. ASSUME NEW c \in Rest, c # values PROVE Abstract!Before(values, c)
      <4>1. PICK j \in 1..M : /\ c[j] > values[j]
                              /\ \A h \in 1..(j - 1) : c[h] = values[h]
        BY <2>5, <3>1 DEF Ahead
      <4>2. c[j] \in Nat /\ values[j] \in Nat
        BY <1>3, <1>5, MaxFanAssumption DEF From, Passing, Combos, Wheel
      <4> QED
        BY <4>1, <4>2 DEF Abstract!Before, Abstract!Wheel
    <3> QED
      BY <3>1
  <2> QED
    BY <1>1, <2>1, <2>4, <2>6, <2>7 DEF Abstract!AnswerCombo, Abstract!IsFirst
<1>9. CASE verdict[given][values] # "pass" /\ pc' = "advance" /\ i' = M /\ UNCHANGED out
  <2>1. Rest' = After(size, verdict, given, values, M)
    BY <1>1, <1>2, <1>9, RestValue, RestCases DEF Data, AllOn
  <2>2. \A c \in Passing(size, verdict, given) : ~Agree(values, c, M)
    BY <1>6, <1>9 DEF Passing
  <2>3. Rest' = Rest
    BY <1>5, <2>1, <2>2 DEF From, After
  <2> QED
    BY <1>1, <1>9, <2>3 DEF Abstract!vars, Data
<1>10. CASE UNCHANGED <<pc, i, out>>
  <2>1. Rest' = Rest
    BY <1>1, <1>10, RestValue DEF Data
  <2> QED
    BY <1>1, <1>10, <2>1 DEF Abstract!vars, Data
<1> QED
  BY <1>8, <1>9, <1>10 DEF Filter

(* The collection delivers the combinations of the results of the bound    *)
(* queries that pass the filter, on the owner it was last reset on, in     *)
(* order, each once, and nothing only after the last one, whatever was     *)
(* asked before: the loops of hdql__query_product_reset,                   *)
(* hdql_query_product_advance and the two methods around them.             *)
THEOREM ImplementsProduct == Spec => DeliversProduct
<1>1. Init => Abstract!Init
  <2> SUFFICES ASSUME Init PROVE Abstract!Init
    OBVIOUS
  <2>1. Rest = {}
    BY RestValue DEF Init, RestOf
  <2> QED
    BY <2>1 DEF Init, Abstract!Init
<1>2. RefInv /\ [Next]_vars => [Abstract!Next]_(Abstract!vars)
  <2> SUFFICES ASSUME RefInv, [Next]_vars PROVE [Abstract!Next]_(Abstract!vars)
    OBVIOUS
  <2>1. ASSUME NEW d \in Owners, NEW anew \in BOOLEAN, CallReset(d, anew)
        PROVE  Abstract!Next
    BY <2>1, SimulateReset DEF Abstract!Next, Data
  <2>2. CASE CallYield
    BY <2>2, SimulateYield DEF Abstract!Next, Data
  <2>3. CASE ProductReset
    BY <2>3, SimulateProductReset DEF Abstract!Next, Data
  <2>4. CASE Advance
    BY <2>4, SimulateAdvance DEF Abstract!Next, Data
  <2>5. CASE Filter
    BY <2>5, SimulateFilter DEF Abstract!Next, Data
  <2>6. CASE UNCHANGED vars
    <3>1. Rest' = Rest
      BY <2>6, RestValue DEF vars, data
    <3> QED
      BY <2>6, <3>1 DEF vars, data, Abstract!vars
  <2> QED
    BY <2>1, <2>2, <2>3, <2>4, <2>5, <2>6 DEF Next, Step
<1> QED
  BY <1>1, <1>2, RefInvariance, PTL DEF Spec, DeliversProduct, Abstract!SafeSpec
==============================================================================
