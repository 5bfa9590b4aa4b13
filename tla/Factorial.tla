------------------------------ MODULE Factorial --------------------------------
(***************************************************************************)
(* Factorial(int n) of src/src/test.cpp, one step per turn of its loop, on   *)
(* an int of the values IntMin .. IntMax.  A product or an increment that    *)
(* does not fit is undefined: it may give any int.                           *)
(***************************************************************************)
EXTENDS Integers

CONSTANTS IntMin, IntMax

(* INT_MAX is 2^15 - 1 at least. *)
ASSUME FactorialAssumption == IntMin \in Int /\ IntMin < 0 /\ IntMax \in Int /\ IntMax > 2

IntValues == IntMin .. IntMax

VARIABLES fact_n,       \* the argument
          fact_i,       \* the loop's counter
          fact_result,
          fact_pc       \* "loop", "done"

fact_vars == <<fact_n, fact_i, fact_result, fact_pc>>

(* The values an int expression of mathematical value v may have *)
Fit(v) == IF v \in IntValues THEN {v} ELSE IntValues

FactorialInit == fact_n \in IntValues /\ fact_i = 1 /\ fact_result = 1 /\ fact_pc = "loop"

(* A slip: i < n *)
InLoopStrict == fact_i < fact_n

InLoop == fact_i <= fact_n

Turn ==
  /\ fact_pc = "loop" /\ InLoop
  /\ fact_result' \in Fit(fact_result * fact_i)
  /\ fact_i' \in Fit(fact_i + 1)
  /\ UNCHANGED <<fact_n, fact_pc>>

Return ==
  /\ fact_pc = "loop" /\ ~ InLoop
  /\ fact_pc' = "done"
  /\ UNCHANGED <<fact_n, fact_i, fact_result>>

FactorialNext == Turn \/ Return

FactorialSpec == FactorialInit /\ [][FactorialNext]_fact_vars

--------------------------------------------------------------------------------
(* n! *)
factorial[k \in Nat] == IF k = 0 THEN 1 ELSE k * factorial[k - 1]

(* The function returns n! for every n whose factorial is an int, and 1 for  *)
(* every n below 1: no partial product overflows on the way.                 *)
FactorialExact ==
  fact_pc = "done" =>
    /\ fact_n < 1 => fact_result = 1
    /\ fact_n >= 1 /\ factorial[fact_n] \in IntValues => fact_result = factorial[fact_n]
================================================================================
